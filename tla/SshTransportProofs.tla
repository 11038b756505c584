--------------------------- MODULE SshTransportProofs ---------------------------
(***************************************************************************)
(* The two kinds of channel for any number of callers, operations,         *)
(* accounts, endpoints and losses, whatever fails.                         *)
(*                                                                         *)
(* The shared channel by key opens one tunnel at a time, and a caller is   *)
(* given a URL of the account it has read.  Its invariant ties the three   *)
(* places where the number of a tunnel is kept: `forwarding` and           *)
(* `forwarded` of a channel, and what a caller waits for, checks or was    *)
(* given.                                                                  *)
(*                                                                         *)
(* No tunnel that works is cut, and no operation leaves one behind.  That  *)
(* needs the order of the openings of a channel: what is replaced while it *)
(* listens was refused, or the channel was asked for another endpoint.     *)
(*                                                                         *)
(* The channel by password knows every connection that is open, and ends   *)
(* none that works by itself.  That each open connection is the known one  *)
(* is not inductive: it needs OneOfTwo, that nothing is attempted beside a *)
(* connection in use.                                                      *)
(***************************************************************************)
EXTENDS SshTunnel, PasswordTunnel, SequenceTheorems, TLAPS

-----------------------------------------------------------------------------
(* The channel by key *)

Chans == [target : Targets, forwarded : Nat, forwarding : Nat, child : Nat]

Openings == [chan : Nat, endpoint : Endpoints,
             stage : {"reserve", "wait", "probe", "done", "failed"},
             port : {"none", "starting", "up", "down"}]

Typed(t) == t \in [active : Nat, chans : Seq(Chans), opens : Seq(Openings),
                   exits : SUBSET [chan : Nat, why : {"left", "start", "failed"}, of : Nat]]

InProgress(t, k) == t.opens[k].stage \in {"reserve", "wait", "probe"}

\* What a channel says of an opening, and an opening of its channel.
Linked(t) ==
    /\ t.active <= Len(t.chans)
    /\ \A c \in DOMAIN t.chans :
           LET chan == t.chans[c]
           IN  /\ chan.child <= Len(t.opens)
               /\ chan.forwarding <= Len(t.opens)
               /\ chan.forwarding # 0 => t.opens[chan.forwarding].chan = c
               /\ chan.forwarded <= Len(t.opens)
               /\ chan.forwarded # 0 => t.opens[chan.forwarded].chan = c
    /\ \A k \in DOMAIN t.opens :
           /\ t.opens[k].chan \in DOMAIN t.chans
           /\ InProgress(t, k) => t.chans[t.opens[k].chan].forwarding = k

Sound(t) == Typed(t) /\ Linked(t)

\* Channels and openings are never dropped, and keep their account and their channel.
Grown(t, next) ==
    /\ Len(t.chans) <= Len(next.chans) /\ Len(t.opens) <= Len(next.opens)
    /\ \A c \in DOMAIN t.chans : next.chans[c].target = t.chans[c].target
    /\ \A k \in DOMAIN t.opens : next.opens[k].chan = t.opens[k].chan

-----------------------------------------------------------------------------
(* The operators of the transport *)

LEMMA Replaced ==
    ASSUME NEW S, NEW s \in Seq(S), NEW i \in DOMAIN s, NEW e \in S
    PROVE  /\ [s EXCEPT ![i] = e] \in Seq(S) /\ Len([s EXCEPT ![i] = e]) = Len(s)
           /\ DOMAIN [s EXCEPT ![i] = e] = DOMAIN s
OBVIOUS

LEMMA SequenceOf ==
    ASSUME NEW S, NEW s \in Seq(S), NEW f \in [DOMAIN s -> S]
    PROVE  f \in Seq(S) /\ Len(f) = Len(s) /\ DOMAIN f = DOMAIN s
OBVIOUS

\* What keeps the channels and the openings, lets a channel forget the opening it has or
\* take a tunnel of its own, and leaves none in progress that its channel has forgotten.
LEMMA SameShape ==
    ASSUME NEW t, Sound(t), NEW next, Typed(next),
           next.active <= Len(next.chans),
           Len(next.chans) = Len(t.chans), Len(next.opens) = Len(t.opens),
           \A d \in DOMAIN t.chans :
               /\ next.chans[d].target = t.chans[d].target
               /\ next.chans[d].child <= Len(t.opens)
               /\ next.chans[d].forwarding \in {0, t.chans[d].forwarding}
               /\ \/ next.chans[d].forwarded \in {0, t.chans[d].forwarded}
                  \/ /\ next.chans[d].forwarded <= Len(t.opens)
                     /\ t.opens[next.chans[d].forwarded].chan = d,
           \A k \in DOMAIN t.opens :
               /\ next.opens[k].chan = t.opens[k].chan
               /\ InProgress(next, k) => next.chans[t.opens[k].chan].forwarding = k
    PROVE  Sound(next) /\ Grown(t, next)
<1>1. /\ DOMAIN next.chans = DOMAIN t.chans /\ DOMAIN t.chans = 1..Len(t.chans)
      /\ DOMAIN next.opens = DOMAIN t.opens /\ DOMAIN t.opens = 1..Len(t.opens)
      /\ Len(t.opens) \in Nat /\ t.chans \in Seq(Chans) /\ next.chans \in Seq(Chans)
    BY DEF Sound, Typed
<1>2. ASSUME NEW d \in DOMAIN next.chans
      PROVE  /\ next.chans[d].child <= Len(next.opens)
             /\ next.chans[d].forwarding <= Len(next.opens)
             /\ next.chans[d].forwarding # 0 => next.opens[next.chans[d].forwarding].chan = d
             /\ next.chans[d].forwarded <= Len(next.opens)
             /\ next.chans[d].forwarded # 0 => next.opens[next.chans[d].forwarded].chan = d
  <2>1. /\ t.chans[d].forwarding <= Len(t.opens)
        /\ t.chans[d].forwarding # 0 => t.opens[t.chans[d].forwarding].chan = d
        /\ t.chans[d].forwarded <= Len(t.opens)
        /\ t.chans[d].forwarded # 0 => t.opens[t.chans[d].forwarded].chan = d
      BY <1>1 DEF Linked, Sound
  <2>2. next.chans[d].forwarding \in Nat /\ next.chans[d].forwarded \in Nat
    <3>1. next.chans[d] \in Chans
        BY <1>1
    <3> QED BY <3>1 DEF Chans
  <2>3. \A j \in Nat : j # 0 /\ j <= Len(t.opens) => next.opens[j].chan = t.opens[j].chan
      BY <1>1
  <2>4. /\ next.chans[d].child <= Len(t.opens)
        /\ next.chans[d].forwarding \in {0, t.chans[d].forwarding}
        /\ \/ next.chans[d].forwarded \in {0, t.chans[d].forwarded}
           \/ /\ next.chans[d].forwarded <= Len(t.opens)
              /\ t.opens[next.chans[d].forwarded].chan = d
      BY <1>1
  <2>5. Len(next.opens) = Len(t.opens) /\ Len(t.opens) \in Nat
      BY <1>1
  <2>6. /\ next.chans[d].forwarding <= Len(next.opens)
        /\ next.chans[d].forwarding # 0 => next.opens[next.chans[d].forwarding].chan = d
    <3>1. CASE next.chans[d].forwarding = 0
        BY <2>5, <3>1
    <3>2. CASE next.chans[d].forwarding = t.chans[d].forwarding
        BY <2>1, <2>2, <2>3, <2>5, <3>2
    <3> QED BY <2>4, <3>1, <3>2
  <2>7. /\ next.chans[d].forwarded <= Len(next.opens)
        /\ next.chans[d].forwarded # 0 => next.opens[next.chans[d].forwarded].chan = d
      BY <2>1, <2>2, <2>3, <2>4, <2>5
  <2> QED BY <2>4, <2>5, <2>6, <2>7
<1>3. ASSUME NEW k \in DOMAIN next.opens
      PROVE  /\ next.opens[k].chan \in DOMAIN next.chans
             /\ InProgress(next, k) => next.chans[next.opens[k].chan].forwarding = k
    BY <1>1 DEF Linked, Sound
<1>4. Linked(next)
    BY <1>2, <1>3 DEF Linked
<1> QED BY <1>1, <1>4 DEF Sound, Grown

\* A child that has not detached is down; a channel without a child or a tunnel.
LEMMA Stopped ==
    ASSUME NEW o \in Openings
    PROVE  LET down == [o EXCEPT !.port = "down"]
           IN  down \in Openings /\ down.chan = o.chan /\ down.stage = o.stage
BY Zenon DEF Openings

LEMMA Emptied ==
    ASSUME NEW chan \in Chans
    PROVE  LET empty == [chan EXCEPT !.forwarded = 0, !.child = 0]
           IN  /\ empty \in Chans /\ empty.target = chan.target
               /\ empty.forwarded = 0 /\ empty.child = 0 /\ empty.forwarding = chan.forwarding
<1>1. 0 \in Nat
    OBVIOUS
<1> QED BY <1>1, Zenon DEF Chans

LEMMA CloseIsSound ==
    ASSUME NEW t, Sound(t), NEW c \in DOMAIN t.chans, NEW why \in {"left", "start", "failed"}, NEW of \in Nat
    PROVE  LET next == Close(t, c, why, of)
           IN  /\ Sound(next) /\ Grown(t, next)
               /\ Len(next.chans) = Len(t.chans) /\ Len(next.opens) = Len(t.opens)
               /\ next.active = t.active
               /\ \A k \in DOMAIN t.opens : next.opens[k].stage = t.opens[k].stage
               /\ \A d \in DOMAIN t.chans : next.chans[d].forwarding = t.chans[d].forwarding
<1> DEFINE next  == Close(t, c, why, of)
           chan  == [t.chans[c] EXCEPT !.forwarded = 0, !.child = 0]
           Port(k) == IF k = t.chans[c].child /\ t.opens[k].port = "starting"
                      THEN [t.opens[k] EXCEPT !.port = "down"] ELSE t.opens[k]
           exit  == [chan |-> c, why |-> why, of |-> of]
<1>0. t.chans \in Seq(Chans) /\ t.opens \in Seq(Openings) /\ t.active \in Nat
    BY DEF Sound, Typed
<1>1. /\ next.active = t.active
      /\ next.chans = [t.chans EXCEPT ![c] = chan]
      /\ next.opens = [k \in DOMAIN t.opens |-> Port(k)]
      /\ next.exits = t.exits \union {exit}
    BY DEF Close, Sound, Typed
<1>2. /\ chan \in Chans /\ chan.target = t.chans[c].target
      /\ chan.forwarded = 0 /\ chan.child = 0 /\ chan.forwarding = t.chans[c].forwarding
  <2>1. t.chans[c] \in Chans
      BY <1>0
  <2> QED BY <2>1, Emptied
<1>3. \A k \in DOMAIN t.opens : /\ Port(k) \in Openings /\ Port(k).chan = t.opens[k].chan
                                /\ Port(k).stage = t.opens[k].stage
  <2>1. \A k \in DOMAIN t.opens : t.opens[k] \in Openings
      BY <1>0
  <2> QED BY <2>1, Stopped
<1> HIDE DEF chan, Port, next
<1>4. next.chans \in Seq(Chans) /\ Len(next.chans) = Len(t.chans) /\ DOMAIN next.chans = DOMAIN t.chans
    BY <1>0, <1>1, <1>2, Replaced
<1>5. next.opens \in Seq(Openings) /\ Len(next.opens) = Len(t.opens) /\ DOMAIN next.opens = DOMAIN t.opens
    BY <1>0, <1>1, <1>3, SequenceOf
<1>6. next.exits \in SUBSET [chan : Nat, why : {"left", "start", "failed"}, of : Nat]
  <2>1. c \in Nat
      BY <1>0
  <2> QED BY <2>1, <1>1 DEF Sound, Typed
<1>7. Typed(next)
    BY <1>1, <1>4, <1>5, <1>6, Zenon DEF Close, Sound, Typed, next
<1>8. \A d \in DOMAIN t.chans : /\ next.chans[d].target = t.chans[d].target
                                /\ next.chans[d].forwarding = t.chans[d].forwarding
                                /\ next.chans[d].forwarded \in {0, t.chans[d].forwarded}
                                /\ next.chans[d].child \in {0, t.chans[d].child}
    BY <1>0, <1>1, <1>2
<1>9. \A k \in DOMAIN t.opens : /\ next.opens[k].chan = t.opens[k].chan
                                /\ next.opens[k].stage = t.opens[k].stage
    BY <1>1, <1>3
<1>10. \A k \in DOMAIN t.opens : InProgress(next, k) => next.chans[t.opens[k].chan].forwarding = k
  <2>1. ASSUME NEW k \in DOMAIN t.opens, InProgress(next, k)
        PROVE  next.chans[t.opens[k].chan].forwarding = k
    <3>1. InProgress(t, k)
        BY <2>1, <1>9 DEF InProgress
    <3>2. t.opens[k].chan \in DOMAIN t.chans /\ t.chans[t.opens[k].chan].forwarding = k
        BY <3>1 DEF Linked, Sound
    <3> QED BY <3>2, <1>8
  <2> QED BY <2>1
<1>11. Sound(next) /\ Grown(t, next)
  <2>1. \A d \in DOMAIN t.chans : next.chans[d].child <= Len(t.opens)
    <3>1. \A d \in DOMAIN t.chans : t.chans[d].child <= Len(t.opens) /\ 0 <= Len(t.opens)
        BY <1>0 DEF Linked, Sound
    <3> QED BY <3>1, <1>8
  <2>2. next.active <= Len(next.chans)
      BY <1>1, <1>4 DEF Linked, Sound
  <2> HIDE DEF next
  <2> QED BY <2>1, <2>2, <1>4, <1>5, <1>7, <1>8, <1>9, <1>10, SameShape
<1> HIDE DEF next
<1>12. /\ Sound(next) /\ Grown(t, next)
       /\ Len(next.chans) = Len(t.chans) /\ Len(next.opens) = Len(t.opens)
       /\ next.active = t.active
       /\ \A k \in DOMAIN t.opens : next.opens[k].stage = t.opens[k].stage
       /\ \A d \in DOMAIN t.chans : next.chans[d].forwarding = t.chans[d].forwarding
    BY <1>1, <1>4, <1>5, <1>8, <1>9, <1>11
<1> QED BY <1>12 DEF next

\* Another channel is the active one, or none.
LEMMA ActiveIsSound ==
    ASSUME NEW t, Sound(t), NEW a \in Nat, a <= Len(t.chans)
    PROVE  LET next == [t EXCEPT !.active = a]
           IN  /\ Sound(next) /\ Grown(t, next)
               /\ next.chans = t.chans /\ next.opens = t.opens /\ next.active = a
<1> DEFINE next == [t EXCEPT !.active = a]
<1>1. Typed(next) /\ next.chans = t.chans /\ next.opens = t.opens /\ next.active = a
    BY Zenon DEF Sound, Typed
<1> HIDE DEF next
<1>2. Linked(next)
    BY <1>1 DEF Sound, Linked, InProgress
<1>3. Len(t.chans) <= Len(t.chans) /\ Len(t.opens) <= Len(t.opens)
    BY DEF Sound, Typed
<1>4. Grown(t, next)
    BY <1>1, <1>3 DEF Grown
<1>5. Sound(next) /\ Grown(t, next) /\ next.chans = t.chans /\ next.opens = t.opens /\ next.active = a
    BY <1>1, <1>2, <1>4 DEF Sound
<1> QED BY <1>5 DEF next

\* A channel is added, and may become the active one.
LEMMA AddedChannel ==
    ASSUME NEW t, Sound(t), NEW target \in Targets, NEW a \in {t.active, Len(t.chans) + 1},
           NEW next, next = [t EXCEPT !.chans = Append(t.chans, NewChannel(target)), !.active = a]
    PROVE  /\ Sound(next) /\ Grown(t, next) /\ next.active = a /\ next.opens = t.opens
           /\ Len(next.chans) = Len(t.chans) + 1
           /\ next.chans[Len(t.chans) + 1] = NewChannel(target)
<1> DEFINE n == Len(t.chans) + 1
<1>0. t.chans \in Seq(Chans) /\ t.opens \in Seq(Openings) /\ t.active \in Nat /\ t.active <= Len(t.chans)
    BY DEF Sound, Typed, Linked
<1>1. NewChannel(target) \in Chans /\ NewChannel(target).forwarding = 0
      /\ NewChannel(target).forwarded = 0 /\ NewChannel(target).child = 0
    BY DEF NewChannel, Chans
<1>2. next.chans = Append(t.chans, NewChannel(target)) /\ next.opens = t.opens /\ next.active = a
    BY Zenon DEF Sound, Typed
<1>3. /\ next.chans \in Seq(Chans) /\ Len(next.chans) = n /\ next.chans[n] = NewChannel(target)
      /\ \A c \in DOMAIN t.chans : next.chans[c] = t.chans[c]
    BY <1>0, <1>1, <1>2, AppendProperties
<1>4. a \in Nat /\ a <= Len(next.chans)
    BY <1>0, <1>3
<1>5. Typed(next)
    BY <1>2, <1>3, <1>4, Zenon DEF Sound, Typed
<1>6. /\ DOMAIN next.chans = 1..n /\ DOMAIN t.chans = 1..Len(t.chans)
      /\ Len(t.chans) \in Nat /\ Len(t.opens) \in Nat
    BY <1>0, <1>3
<1>7. ASSUME NEW c \in DOMAIN next.chans
      PROVE  LET chan == next.chans[c]
             IN  /\ chan.child <= Len(next.opens)
                 /\ chan.forwarding <= Len(next.opens)
                 /\ chan.forwarding # 0 => next.opens[chan.forwarding].chan = c
                 /\ chan.forwarded <= Len(next.opens)
                 /\ chan.forwarded # 0 => next.opens[chan.forwarded].chan = c
  <2>1. CASE c = n
      BY <2>1, <1>1, <1>2, <1>3, <1>6
  <2>2. CASE c \in DOMAIN t.chans
      BY <2>2, <1>2, <1>3 DEF Sound, Linked
  <2> QED BY <2>1, <2>2, <1>6
<1>8. ASSUME NEW k \in DOMAIN next.opens
      PROVE  /\ next.opens[k].chan \in DOMAIN next.chans
             /\ InProgress(next, k) => next.chans[next.opens[k].chan].forwarding = k
  <2>1. t.opens[k].chan \in DOMAIN t.chans
      BY <1>2 DEF Sound, Linked
  <2>2. InProgress(t, k) => t.chans[t.opens[k].chan].forwarding = k
      BY <1>2 DEF Sound, Linked
  <2> QED BY <2>1, <2>2, <1>2, <1>3, <1>6 DEF InProgress
<1>9. Linked(next)
    BY <1>2, <1>4, <1>7, <1>8 DEF Linked
<1>10. Grown(t, next)
  <2>1. Len(t.chans) <= Len(next.chans) /\ Len(t.opens) <= Len(next.opens)
      BY <1>2, <1>3, <1>6
  <2> QED BY <2>1, <1>2, <1>3 DEF Grown
<1> QED BY <1>2, <1>3, <1>5, <1>9, <1>10 DEF Sound

LEMMA GrownTwice ==
    ASSUME NEW t, NEW mid, NEW next, Sound(t), Sound(mid), Sound(next), Grown(t, mid), Grown(mid, next)
    PROVE  Grown(t, next)
<1>1. /\ DOMAIN t.chans = 1..Len(t.chans) /\ DOMAIN mid.chans = 1..Len(mid.chans)
      /\ DOMAIN t.opens = 1..Len(t.opens) /\ DOMAIN mid.opens = 1..Len(mid.opens)
      /\ {Len(t.chans), Len(mid.chans), Len(next.chans)} \subseteq Nat
      /\ {Len(t.opens), Len(mid.opens), Len(next.opens)} \subseteq Nat
    BY DEF Sound, Typed
<1> QED BY <1>1 DEF Grown

LEMMA CloseChannelIsSound ==
    ASSUME NEW t, Sound(t)
    PROVE  LET next == CloseChannel(t)
           IN  Sound(next) /\ Grown(t, next) /\ Len(next.chans) = Len(t.chans)
<1>0. t.chans \in Seq(Chans) /\ t.active \in Nat /\ t.active <= Len(t.chans)
    BY DEF Sound, Typed, Linked
<1>1. CASE t.active = 0
  <2>1. Grown(t, t)
      BY DEF Sound, Typed, Grown
  <2> QED BY <1>1, <2>1 DEF CloseChannel
<1>2. CASE t.active # 0
  <2> DEFINE mid  == Close(t, t.active, "left", 0)
             next == [mid EXCEPT !.active = 0]
  <2>1. t.active \in DOMAIN t.chans /\ 0 \in Nat
      BY <1>0, <1>2
  <2>2. Sound(mid) /\ Grown(t, mid) /\ Len(mid.chans) = Len(t.chans)
      BY <2>1, CloseIsSound
  <2> HIDE DEF mid
  <2>3. 0 <= Len(mid.chans)
      BY <1>0, <2>2
  <2>4. Sound(next) /\ Grown(mid, next) /\ next.chans = mid.chans
      BY <2>1, <2>2, <2>3, ActiveIsSound
  <2>5. CloseChannel(t) = next
      BY <1>2 DEF CloseChannel, mid
  <2> HIDE DEF next
  <2>6. Grown(t, next)
      BY <2>2, <2>4, GrownTwice
  <2> QED BY <2>2, <2>4, <2>5, <2>6
<1> QED BY <1>1, <1>2

\* getChannel gives a channel of the account it is asked for.
LEMMA GetChannelIsSound ==
    ASSUME NEW t, Sound(t), NEW target \in Targets
    PROVE  LET next == GetChannel(t, target)
           IN  /\ Sound(next) /\ Grown(t, next)
               /\ next.active \in DOMAIN next.chans /\ next.chans[next.active].target = target
<1>0. t.chans \in Seq(Chans) /\ t.active \in Nat /\ t.active <= Len(t.chans)
    BY DEF Sound, Typed, Linked
<1>1. CASE t.active # 0 /\ t.chans[t.active].target = target
  <2>1. Grown(t, t)
      BY DEF Sound, Typed, Grown
  <2>2. t.active \in DOMAIN t.chans
      BY <1>0, <1>1
  <2> QED BY <1>1, <2>1, <2>2 DEF GetChannel
<1>2. CASE ~(t.active # 0 /\ t.chans[t.active].target = target)
  <2> DEFINE mid  == CloseChannel(t)
             next == [mid EXCEPT !.chans = Append(mid.chans, NewChannel(target)),
                                 !.active = Len(mid.chans) + 1]
  <2>1. Sound(mid) /\ Grown(t, mid) /\ Len(mid.chans) = Len(t.chans)
      BY CloseChannelIsSound
  <2> HIDE DEF mid
  <2>2. GetChannel(t, target) = next
    <3>1. Len(t.chans) = Len(mid.chans)
        BY <2>1
    <3> QED BY <1>2, <3>1, Zenon DEF GetChannel, mid
  <2>3. /\ Sound(next) /\ Grown(mid, next) /\ next.active = Len(mid.chans) + 1
        /\ Len(next.chans) = Len(mid.chans) + 1
        /\ next.chans[Len(mid.chans) + 1] = NewChannel(target)
      BY <2>1, AddedChannel, Zenon
  <2> HIDE DEF next
  <2>4. Grown(t, next)
      BY <2>1, <2>3, GrownTwice
  <2>5. next.active \in DOMAIN next.chans /\ next.chans[next.active].target = target
    <3>1. next.chans \in Seq(Chans) /\ Len(mid.chans) \in Nat
        BY <2>1, <2>3 DEF Sound, Typed
    <3> QED BY <2>3, <3>1 DEF NewChannel
  <2> QED BY <2>2, <2>3, <2>4, <2>5
<1> QED BY <1>1, <1>2

\* A channel that opens nothing opens a tunnel of its own.
LEMMA OpenForwardIsSound ==
    ASSUME NEW t, Sound(t), NEW c \in DOMAIN t.chans, t.chans[c].forwarding = 0, NEW endpoint \in Endpoints
    PROVE  LET next == OpenForward(t, c, endpoint)
           IN  /\ Sound(next) /\ Grown(t, next)
               /\ Len(next.opens) \in DOMAIN next.opens /\ next.opens[Len(next.opens)].chan = c
<1> DEFINE n    == Len(t.opens) + 1
           mid  == Close(t, c, "start", n)
           chan == [mid.chans[c] EXCEPT !.forwarding = n]
           opening == [chan |-> c, endpoint |-> endpoint, stage |-> "reserve", port |-> "none"]
           next == OpenForward(t, c, endpoint)
<1>0. /\ t.chans \in Seq(Chans) /\ t.opens \in Seq(Openings) /\ t.active \in Nat /\ n \in Nat
      /\ "start" \in {"left", "start", "failed"}
    BY DEF Sound, Typed
<1>1. /\ Sound(mid) /\ Grown(t, mid) /\ Len(mid.chans) = Len(t.chans) /\ Len(mid.opens) = Len(t.opens)
      /\ \A d \in DOMAIN t.chans : mid.chans[d].forwarding = t.chans[d].forwarding
    BY <1>0, CloseIsSound
<1> HIDE DEF mid
<1>2. /\ mid.chans \in Seq(Chans) /\ mid.opens \in Seq(Openings) /\ mid.active \in Nat
      /\ mid.active <= Len(mid.chans) /\ c \in DOMAIN mid.chans /\ mid.chans[c] \in Chans
      /\ mid.chans[c].forwarding = 0 /\ n = Len(mid.opens) + 1 /\ c \in Nat
    BY <1>0, <1>1 DEF Sound, Typed, Linked
<1>3. /\ next.chans = [mid.chans EXCEPT ![c] = chan] /\ next.opens = Append(mid.opens, opening)
      /\ next.active = mid.active /\ next.exits = mid.exits
  <2>1. next = [mid EXCEPT !.chans[c].forwarding = n, !.opens = Append(mid.opens, opening)]
      BY Zenon DEF OpenForward, mid
  <2>2. Typed(mid)
      BY <1>1 DEF Sound
  <2> HIDE DEF next, opening, n
  <2> QED BY <2>1, <2>2, Zenon DEF Typed
<1>4. /\ chan \in Chans /\ chan.target = mid.chans[c].target /\ chan.child = mid.chans[c].child
      /\ chan.forwarded = mid.chans[c].forwarded /\ chan.forwarding = n
    BY <1>0, <1>2, Zenon DEF Chans
<1>5. opening \in Openings /\ opening.chan = c
    BY <1>2 DEF Openings
<1>6. next = [mid EXCEPT !.chans[c].forwarding = n, !.opens = Append(mid.opens, opening)]
    BY Zenon DEF OpenForward, mid
<1> HIDE DEF chan, opening, next
<1>7. /\ next.chans \in Seq(Chans) /\ Len(next.chans) = Len(mid.chans)
      /\ DOMAIN next.chans = DOMAIN mid.chans
    BY <1>2, <1>3, <1>4, Replaced
<1>8. /\ next.opens \in Seq(Openings) /\ Len(next.opens) = n /\ next.opens[n] = opening
      /\ \A k \in DOMAIN mid.opens : next.opens[k] = mid.opens[k]
    BY <1>2, <1>3, <1>5, AppendProperties
<1>9. Typed(next)
  <2>1. Typed(mid)
      BY <1>1 DEF Sound
  <2> HIDE DEF n
  <2> QED BY <2>1, <1>3, <1>6, <1>7, <1>8, Zenon DEF Typed
<1>10. /\ DOMAIN next.opens = 1..n /\ DOMAIN mid.opens = 1..Len(mid.opens) /\ Len(mid.opens) \in Nat
       /\ \A d \in DOMAIN mid.chans \ {c} : next.chans[d] = mid.chans[d]
       /\ next.chans[c] = chan
    BY <1>2, <1>3, <1>8
<1>11. ASSUME NEW d \in DOMAIN next.chans
       PROVE  LET seen == next.chans[d]
              IN  /\ seen.child <= Len(next.opens)
                  /\ seen.forwarding <= Len(next.opens)
                  /\ seen.forwarding # 0 => next.opens[seen.forwarding].chan = d
                  /\ seen.forwarded <= Len(next.opens)
                  /\ seen.forwarded # 0 => next.opens[seen.forwarded].chan = d
  <2>1. /\ mid.chans[d].child <= Len(mid.opens)
        /\ mid.chans[d].forwarding <= Len(mid.opens)
        /\ mid.chans[d].forwarding # 0 => mid.opens[mid.chans[d].forwarding].chan = d
        /\ mid.chans[d].forwarded <= Len(mid.opens)
        /\ mid.chans[d].forwarded # 0 => mid.opens[mid.chans[d].forwarded].chan = d
      BY <1>1, <1>7 DEF Sound, Linked
  <2>2. /\ mid.chans[d].child \in Nat /\ mid.chans[d].forwarding \in Nat
        /\ mid.chans[d].forwarded \in Nat
    <3>1. mid.chans[d] \in Chans
        BY <1>2, <1>7
    <3> QED BY <3>1 DEF Chans
  <2>3. \A j \in Nat : j # 0 /\ j <= Len(mid.opens) => next.opens[j].chan = mid.opens[j].chan
      BY <1>8, <1>10
  <2>4. Len(next.opens) = Len(mid.opens) + 1 /\ Len(mid.opens) \in Nat /\ Len(next.opens) = n
      BY <1>2, <1>8, <1>10
  <2>5. /\ next.chans[d].child = mid.chans[d].child
        /\ next.chans[d].forwarded = mid.chans[d].forwarded
        /\ \/ next.chans[d].forwarding = mid.chans[d].forwarding
           \/ d = c /\ next.chans[d].forwarding = n /\ next.opens[n].chan = c
      BY <1>4, <1>5, <1>7, <1>8, <1>10
  <2>6. /\ next.chans[d].child <= Len(next.opens)
        /\ next.chans[d].forwarded <= Len(next.opens)
        /\ next.chans[d].forwarding <= Len(next.opens)
      BY <2>1, <2>2, <2>4, <2>5
  <2>7. /\ next.chans[d].forwarding # 0 => next.opens[next.chans[d].forwarding].chan = d
        /\ next.chans[d].forwarded # 0 => next.opens[next.chans[d].forwarded].chan = d
      BY <2>1, <2>2, <2>3, <2>5
  <2> QED BY <2>6, <2>7
<1>12. ASSUME NEW k \in DOMAIN next.opens
       PROVE  /\ next.opens[k].chan \in DOMAIN next.chans
              /\ InProgress(next, k) => next.chans[next.opens[k].chan].forwarding = k
  <2>1. CASE k = n
      BY <2>1, <1>2, <1>4, <1>5, <1>7, <1>8, <1>10
  <2>2. CASE k \in DOMAIN mid.opens
    <3>1. /\ mid.opens[k].chan \in DOMAIN mid.chans
          /\ InProgress(mid, k) => mid.chans[mid.opens[k].chan].forwarding = k
        BY <2>2, <1>1 DEF Sound, Linked
    <3>2. next.opens[k] = mid.opens[k] /\ k # 0
        BY <2>2, <1>8, <1>10
    <3>3. InProgress(next, k) => mid.opens[k].chan # c
        BY <3>1, <3>2, <1>2 DEF InProgress
    <3> QED BY <3>1, <3>2, <3>3, <1>7, <1>10 DEF InProgress
  <2> QED BY <2>1, <2>2, <1>2, <1>10
<1>13. Linked(next)
    BY <1>2, <1>3, <1>7, <1>11, <1>12 DEF Linked
<1>14. Grown(mid, next)
  <2>1. Len(mid.chans) <= Len(next.chans) /\ Len(mid.opens) <= Len(next.opens)
      BY <1>2, <1>7, <1>8
  <2>2. \A d \in DOMAIN mid.chans : next.chans[d].target = mid.chans[d].target
      BY <1>4, <1>10
  <2> QED BY <2>1, <2>2, <1>8 DEF Grown
<1>15. Sound(next) /\ Grown(t, next)
    BY <1>1, <1>9, <1>13, <1>14, GrownTwice DEF Sound
<1>16. Len(next.opens) \in DOMAIN next.opens /\ next.opens[Len(next.opens)].chan = c
    BY <1>2, <1>5, <1>8, <1>10
<1> QED BY <1>15, <1>16 DEF next

\* An opening in progress ends, and its channel opens nothing any more.
LEMMA SettledIsSound ==
    ASSUME NEW t, Sound(t), NEW k \in DOMAIN t.opens, InProgress(t, k), NEW stage \in {"done", "failed"}
    PROVE  LET next == Settled(t, k, stage)
           IN  Sound(next) /\ Grown(t, next) /\ next.opens[k].stage = stage
<1> DEFINE next == Settled(t, k, stage)
           c    == t.opens[k].chan
           o    == [t.opens[k] EXCEPT !.stage = stage]
           chan == [t.chans[c] EXCEPT !.forwarding = 0]
<1>1. /\ t.chans \in Seq(Chans) /\ t.opens \in Seq(Openings) /\ t.active \in Nat
      /\ t.active <= Len(t.chans) /\ c \in DOMAIN t.chans /\ t.chans[c].forwarding = k
    BY DEF Sound, Typed, Linked
<1>2. t.chans[c] \in Chans /\ t.opens[k] \in Openings /\ 0 \in Nat
    BY <1>1
<1>3. /\ chan \in Chans /\ chan.target = t.chans[c].target /\ chan.child = t.chans[c].child
      /\ chan.forwarded = t.chans[c].forwarded /\ chan.forwarding = 0
    BY <1>2, Zenon DEF Chans
<1>4. o \in Openings /\ o.chan = c /\ o.stage = stage
    BY <1>2, Zenon DEF Openings
<1>5. /\ next.chans = [t.chans EXCEPT ![c] = chan] /\ next.opens = [t.opens EXCEPT ![k] = o]
      /\ next.active = t.active
    BY Zenon DEF Settled, Sound, Typed
<1> HIDE DEF chan, o, next
<1>6. /\ next.chans \in Seq(Chans) /\ Len(next.chans) = Len(t.chans)
      /\ next.opens \in Seq(Openings) /\ Len(next.opens) = Len(t.opens)
    BY <1>1, <1>3, <1>4, <1>5, Replaced
<1>7. Typed(next)
    BY <1>5, <1>6, Zenon DEF Settled, Sound, Typed, next
<1>8. ASSUME NEW d \in DOMAIN t.chans
      PROVE  /\ next.chans[d].target = t.chans[d].target
             /\ next.chans[d].child <= Len(t.opens)
             /\ next.chans[d].forwarding \in {0, t.chans[d].forwarding}
             /\ next.chans[d].forwarded \in {0, t.chans[d].forwarded}
  <2>1. t.chans[d].child <= Len(t.opens)
      BY DEF Sound, Linked
  <2>2. CASE d = c
      BY <2>1, <2>2, <1>1, <1>3, <1>5
  <2>3. CASE d # c
      BY <2>1, <2>3, <1>1, <1>5
  <2> QED BY <2>2, <2>3
<1>9. ASSUME NEW j \in DOMAIN t.opens
      PROVE  /\ next.opens[j].chan = t.opens[j].chan
             /\ InProgress(next, j) => next.chans[t.opens[j].chan].forwarding = j
  <2>1. CASE j = k
      BY <2>1, <1>1, <1>4, <1>5 DEF InProgress
  <2>2. CASE j # k
    <3>1. next.opens[j] = t.opens[j]
        BY <2>2, <1>1, <1>5
    <3>2. InProgress(t, j) => t.chans[t.opens[j].chan].forwarding = j
        BY DEF Sound, Linked
    <3>3. t.opens[j].chan \in DOMAIN t.chans
        BY DEF Sound, Linked
    <3>4. InProgress(t, j) => t.opens[j].chan # c
        BY <2>2, <3>2, <1>1
    <3> QED BY <3>1, <3>2, <3>3, <3>4, <1>1, <1>5 DEF InProgress
  <2> QED BY <2>1, <2>2
<1>10. Sound(next) /\ Grown(t, next)
    BY <1>1, <1>5, <1>6, <1>7, <1>8, <1>9, SameShape
<1>11. next.opens[k].stage = stage
    BY <1>1, <1>4, <1>5
<1> QED BY <1>10, <1>11 DEF next

LEMMA FailsIsSound ==
    ASSUME NEW t, Sound(t), NEW k \in DOMAIN t.opens, InProgress(t, k)
    PROVE  Sound(Fails(t, k)) /\ Grown(t, Fails(t, k))
<1> DEFINE mid == Close(t, t.opens[k].chan, "failed", k)
<1>1. t.opens[k].chan \in DOMAIN t.chans /\ k \in Nat /\ "failed" \in {"left", "start", "failed"}
    BY DEF Sound, Typed, Linked
<1>2. /\ Sound(mid) /\ Grown(t, mid) /\ Len(mid.opens) = Len(t.opens)
      /\ mid.opens[k].stage = t.opens[k].stage
    BY <1>1, CloseIsSound
<1> HIDE DEF mid
<1>3. k \in DOMAIN mid.opens /\ InProgress(mid, k)
    BY <1>2 DEF Sound, Typed, InProgress
<1>4. Sound(Settled(mid, k, "failed")) /\ Grown(mid, Settled(mid, k, "failed"))
    BY <1>2, <1>3, SettledIsSound
<1>5. Fails(t, k) = Settled(mid, k, "failed")
    BY DEF Fails, mid
<1> QED BY <1>2, <1>4, <1>5, GrownTwice

\* The ports of openings change, and the exits on their way.
LEMMA PortsAreSound ==
    ASSUME NEW t, Sound(t), NEW next, Typed(next), next.active = t.active, next.chans = t.chans,
           Len(next.opens) = Len(t.opens),
           \A k \in DOMAIN t.opens : next.opens[k].chan = t.opens[k].chan,
           \A k \in DOMAIN t.opens : InProgress(next, k) => InProgress(t, k)
    PROVE  Sound(next) /\ Grown(t, next)
<1>1. /\ t.active <= Len(t.chans)
      /\ \A d \in DOMAIN t.chans : t.chans[d].child <= Len(t.opens)
      /\ \A k \in DOMAIN t.opens : InProgress(t, k) => t.chans[t.opens[k].chan].forwarding = k
    BY DEF Sound, Linked
<1> QED BY <1>1, SameShape

-----------------------------------------------------------------------------
(* The calls *)

PCs == {"idle", "read", "checking", "waiting", "got", "failed", "crashed", "closed"}

Calls == [pc : PCs, target : Targets \union {NoRow}, endpoint : Endpoints \union {NoRow},
          chan : Nat, tunnel : Nat]

\* A call has read a row; its channel is of the account it has read, and the tunnel it
\* waits for, checks or was given is one of its channel.
Served(t, r) ==
    /\ r.pc \in {"read", "checking", "waiting", "got", "failed"} =>
           r.target \in Targets /\ r.endpoint \in Endpoints
    /\ r.pc \in {"checking", "waiting", "got", "failed"} =>
           r.chan \in DOMAIN t.chans /\ t.chans[r.chan].target = r.target
    /\ r.pc \in {"checking", "waiting", "got"} =>
           r.tunnel \in DOMAIN t.opens /\ t.opens[r.tunnel].chan = r.chan

RowTyped == row \in [target : Targets, endpoint : Endpoints] \union {NoRow}
CallsInv == call \in [Users -> Calls] /\ \A u \in Users : Served(ssh, call[u])

TunnelIInv == RowTyped /\ Sound(ssh) /\ CallsInv

LEMMA ServedStays ==
    ASSUME NEW t, NEW next, Sound(t), Sound(next), Grown(t, next), NEW r, Served(t, r)
    PROVE  Served(next, r)
<1>1. /\ DOMAIN t.chans \subseteq DOMAIN next.chans /\ DOMAIN t.opens \subseteq DOMAIN next.opens
    BY DEF Sound, Typed, Grown
<1> QED BY <1>1 DEF Served, Grown

LEMMA CallsStay ==
    ASSUME Sound(ssh), CallsInv, Sound(ssh'), Grown(ssh, ssh'), UNCHANGED call
    PROVE  CallsInv'
BY ServedStays DEF CallsInv

LEMMA OneCall ==
    ASSUME Sound(ssh), CallsInv, Sound(ssh'), Grown(ssh, ssh'), NEW u \in Users,
           NEW r \in Calls, Served(ssh', r), call' = [call EXCEPT ![u] = r]
    PROVE  CallsInv'
<1>1. call' \in [Users -> Calls] /\ call'[u] = r /\ \A v \in Users \ {u} : call'[v] = call[v]
    BY DEF CallsInv
<1>2. \A v \in Users : Served(ssh', call[v])
    BY ServedStays DEF CallsInv
<1> QED BY <1>1, <1>2 DEF CallsInv

LEMMA CallTyped == CallsInv => \A u \in Users : call[u] \in Calls /\ Served(ssh, call[u])
BY DEF CallsInv

LEMMA SshSame == ASSUME Sound(ssh) PROVE Grown(ssh, ssh)
BY DEF Sound, Typed, Grown

\* What a call needs to wait for a tunnel of its channel.
LEMMA WaitsIsSafe ==
    ASSUME Sound(ssh), CallsInv, Sound(ssh'), Grown(ssh, ssh'), NEW u \in Users,
           call[u].target \in Targets, call[u].endpoint \in Endpoints,
           NEW pc \in {"checking", "waiting"}, NEW c \in DOMAIN ssh'.chans,
           ssh'.chans[c].target = call[u].target,
           NEW k \in DOMAIN ssh'.opens, ssh'.opens[k].chan = c,
           call' = [call EXCEPT ![u].pc = pc, ![u].chan = c, ![u].tunnel = k]
    PROVE  CallsInv'
<1> DEFINE w == [call[u] EXCEPT !.pc = pc, !.chan = c, !.tunnel = k]
<1>1. c \in Nat /\ k \in Nat /\ pc \in PCs
    BY DEF Sound, Typed, PCs
<1>2. /\ w \in Calls /\ w.pc = pc /\ w.chan = c /\ w.tunnel = k
      /\ w.target = call[u].target /\ w.endpoint = call[u].endpoint
  <2>1. call[u] \in Calls
      BY CallTyped
  <2> QED BY <1>1, <2>1, Zenon DEF Calls
<1>3. call' = [call EXCEPT ![u] = w]
    BY Zenon DEF CallsInv
<1> HIDE DEF w
<1>4. Served(ssh', w)
    BY <1>2 DEF Served
<1> QED BY <1>2, <1>3, <1>4, OneCall

\* The opening that a channel has, or the tunnel, is one of its own.
LEMMA OwnTunnel ==
    ASSUME NEW t, Sound(t), NEW c \in DOMAIN t.chans
    PROVE  /\ t.chans[c].forwarding # 0 =>
                  t.chans[c].forwarding \in DOMAIN t.opens /\ t.opens[t.chans[c].forwarding].chan = c
           /\ t.chans[c].forwarded # 0 =>
                  t.chans[c].forwarded \in DOMAIN t.opens /\ t.opens[t.chans[c].forwarded].chan = c
<1>1. t.chans[c] \in Chans /\ DOMAIN t.opens = 1..Len(t.opens) /\ Len(t.opens) \in Nat
    BY DEF Sound, Typed
<1>2. t.chans[c].forwarding \in Nat /\ t.chans[c].forwarded \in Nat
    BY <1>1 DEF Chans
<1>3. /\ t.chans[c].forwarding <= Len(t.opens)
      /\ t.chans[c].forwarding # 0 => t.opens[t.chans[c].forwarding].chan = c
      /\ t.chans[c].forwarded <= Len(t.opens)
      /\ t.chans[c].forwarded # 0 => t.opens[t.chans[c].forwarded].chan = c
    BY DEF Sound, Linked
<1> QED BY <1>1, <1>2, <1>3

LEMMA OpensIsSafe ==
    ASSUME Sound(ssh), CallsInv, NEW u \in Users, call[u].target \in Targets, call[u].endpoint \in Endpoints,
           NEW t, Sound(t), Grown(ssh, t), NEW c \in DOMAIN t.chans, t.chans[c].forwarding = 0,
           t.chans[c].target = call[u].target, Opens(u, t, c)
    PROVE  Sound(ssh') /\ CallsInv'
<1>1. ssh' = OpenForward(t, c, call[u].endpoint)
    BY DEF Opens
<1>2. /\ Sound(ssh') /\ Grown(t, ssh')
      /\ Len(ssh'.opens) \in DOMAIN ssh'.opens /\ ssh'.opens[Len(ssh'.opens)].chan = c
    BY <1>1, OpenForwardIsSound
<1>3. Grown(ssh, ssh')
    BY <1>2, GrownTwice
<1>4. c \in DOMAIN ssh'.chans /\ ssh'.chans[c].target = call[u].target
    BY <1>2 DEF Sound, Typed, Grown
<1>5. call' = [call EXCEPT ![u].pc = "waiting", ![u].chan = c, ![u].tunnel = Len(ssh'.opens)]
    BY DEF Opens
<1> QED BY <1>2, <1>3, <1>4, <1>5, WaitsIsSafe

\* A call goes on with the channel and the tunnel it has.
LEMMA GoesOn ==
    ASSUME Sound(ssh), CallsInv, Sound(ssh'), Grown(ssh, ssh'), NEW u \in Users, NEW pc \in PCs,
           call' = [call EXCEPT ![u].pc = pc], Served(ssh, [call[u] EXCEPT !.pc = pc])
    PROVE  CallsInv'
<1>1. call[u] \in Calls
    BY CallTyped
<1>2. [call[u] EXCEPT !.pc = pc] \in Calls
    BY <1>1, Zenon DEF Calls
<1>3. call' = [call EXCEPT ![u] = [call[u] EXCEPT !.pc = pc]]
    BY Zenon DEF CallsInv
<1> QED BY <1>2, <1>3, ServedStays, OneCall

LEMMA ReadsIsSafe == ASSUME TunnelIInv, NEW u \in Callers, Reads(u) PROVE TunnelIInv'
<1> DEFINE r == [call[u] EXCEPT !.pc = "read", !.target = row.target, !.endpoint = row.endpoint]
<1>1. u \in Users /\ call[u] \in Calls /\ row.target \in Targets /\ row.endpoint \in Endpoints
    BY CallTyped DEF TunnelIInv, Reads, RowTyped, Users
<1>2. r \in Calls /\ r.pc = "read" /\ r.target \in Targets /\ r.endpoint \in Endpoints
    BY <1>1, Zenon DEF Calls, PCs
<1>3. call' = [call EXCEPT ![u] = r] /\ UNCHANGED <<row, ssh>>
    BY DEF Reads
<1> HIDE DEF r
<1>4. Served(ssh, r)
    BY <1>2 DEF Served
<1>5. Sound(ssh') /\ Grown(ssh, ssh') /\ Served(ssh', r) /\ RowTyped'
    BY <1>3, <1>4, SshSame DEF TunnelIInv, RowTyped
<1> QED BY <1>1, <1>2, <1>3, <1>5, OneCall DEF TunnelIInv

LEMMA AsksIsSafe == ASSUME TunnelIInv, NEW u \in Callers, Asks(u) PROVE TunnelIInv'
<1> DEFINE t    == GetChannel(ssh, call[u].target)
           chan == t.chans[t.active]
<1>1. u \in Users /\ call[u].target \in Targets /\ call[u].endpoint \in Endpoints /\ Sound(ssh) /\ CallsInv
    BY CallTyped DEF TunnelIInv, Asks, At, Users, Served
<1>2. /\ Sound(t) /\ Grown(ssh, t)
      /\ t.active \in DOMAIN t.chans /\ chan.target = call[u].target
    BY <1>1, GetChannelIsSound
<1>3. \/ chan.forwarding # 0 /\ ssh' = t /\ Waits(u, t.active, chan.forwarding)
      \/ /\ chan.forwarded # 0 /\ ssh' = t
         /\ call' = [call EXCEPT ![u].pc = "checking", ![u].chan = t.active, ![u].tunnel = chan.forwarded]
      \/ chan.forwarding = 0 /\ Opens(u, t, t.active)
    BY DEF Asks
<1> HIDE DEF t
<1>4. ASSUME chan.forwarding # 0 /\ ssh' = t /\ Waits(u, t.active, chan.forwarding)
      PROVE  Sound(ssh') /\ CallsInv'
  <2>1. chan.forwarding \in DOMAIN t.opens /\ t.opens[chan.forwarding].chan = t.active
      BY <1>2, <1>4, OwnTunnel
  <2> QED BY <1>1, <1>2, <1>4, <2>1, WaitsIsSafe DEF Waits
<1>5. ASSUME /\ chan.forwarded # 0 /\ ssh' = t
             /\ call' = [call EXCEPT ![u].pc = "checking", ![u].chan = t.active, ![u].tunnel = chan.forwarded]
      PROVE  Sound(ssh') /\ CallsInv'
  <2>1. chan.forwarded \in DOMAIN t.opens /\ t.opens[chan.forwarded].chan = t.active
      BY <1>2, <1>5, OwnTunnel
  <2> QED BY <1>1, <1>2, <1>5, <2>1, WaitsIsSafe
<1>6. ASSUME chan.forwarding = 0 /\ Opens(u, t, t.active)
      PROVE  Sound(ssh') /\ CallsInv'
    BY <1>1, <1>2, <1>6, OpensIsSafe
<1>7. Sound(ssh') /\ CallsInv'
    BY <1>2, <1>3, <1>4, <1>5, <1>6
<1> QED BY <1>7 DEF TunnelIInv, RowTyped, Asks

LEMMA CheckedIsSafe == ASSUME TunnelIInv, NEW u \in Users, Checked(u) PROVE TunnelIInv'
<1> DEFINE c    == call[u].chan
           chan == ssh.chans[c]
<1>1. Sound(ssh) /\ CallsInv /\ Grown(ssh, ssh) /\ call[u].pc = "checking"
    BY SshSame DEF TunnelIInv, Checked, At
<1>2. /\ call[u] \in Calls /\ call[u].target \in Targets /\ call[u].endpoint \in Endpoints
      /\ c \in DOMAIN ssh.chans /\ chan.target = call[u].target
    BY <1>1, CallTyped DEF Served
<1>3. ASSUME /\ call' = [call EXCEPT ![u].pc = IF chan.forwarded = 0 THEN "crashed" ELSE "got",
                                   ![u].tunnel = chan.forwarded]
           /\ UNCHANGED ssh
      PROVE  Sound(ssh') /\ CallsInv'
  <2> DEFINE pc == IF chan.forwarded = 0 THEN "crashed" ELSE "got"
             w  == [call[u] EXCEPT !.pc = pc, !.tunnel = chan.forwarded]
  <2>1. chan.forwarded \in Nat
    <3>1. ssh.chans[c] \in Chans
        BY <1>1, <1>2 DEF Sound, Typed
    <3> QED BY <3>1 DEF Chans
  <2>2. pc \in PCs /\ (pc = "got" => chan.forwarded # 0) /\ pc \in {"crashed", "got"}
      BY DEF PCs
  <2>3. call' = [call EXCEPT ![u] = w]
      BY <1>1, <1>3, Zenon DEF CallsInv
  <2> HIDE DEF pc
  <2>4. /\ w \in Calls /\ w.pc = pc /\ w.chan = c /\ w.tunnel = chan.forwarded
        /\ w.target = call[u].target /\ w.endpoint = call[u].endpoint
      BY <1>2, <2>1, <2>2, Zenon DEF Calls
  <2> HIDE DEF w
  <2>5. Served(ssh, w)
      BY <1>1, <1>2, <2>2, <2>4, OwnTunnel DEF Served
  <2> QED BY <1>1, <1>3, <2>3, <2>4, <2>5, OneCall
<1>4. ASSUME Joins(c) /\ Waits(u, c, chan.forwarding) /\ UNCHANGED ssh
      PROVE  Sound(ssh') /\ CallsInv'
  <2>1. chan.forwarding \in DOMAIN ssh.opens /\ ssh.opens[chan.forwarding].chan = c
      BY <1>1, <1>2, <1>4, OwnTunnel DEF Joins
  <2> QED BY <1>1, <1>2, <1>4, <2>1, WaitsIsSafe DEF Waits
<1>5. ASSUME ~Joins(c) /\ Opens(u, ssh, c)
      PROVE  Sound(ssh') /\ CallsInv'
    BY <1>1, <1>2, <1>5, OpensIsSafe DEF Joins
<1>6. Sound(ssh') /\ CallsInv'
    BY <1>1, <1>3, <1>4, <1>5 DEF Checked
<1> QED BY <1>6 DEF TunnelIInv, RowTyped, Checked

LEMMA CallGoesOn ==
    ASSUME TunnelIInv, NEW u \in Users,
           Resumes(u) \/ (u \in Callers /\ Leaves(u)) \/ (u \in Probes /\ ProbeEnds(u))
    PROVE  TunnelIInv'
<1>1. Sound(ssh) /\ CallsInv /\ Grown(ssh, ssh) /\ call[u] \in Calls /\ Served(ssh, call[u]) /\ RowTyped'
    BY SshSame, CallTyped DEF TunnelIInv, RowTyped, Resumes, Leaves, ProbeEnds
<1>2. CASE Resumes(u)
  <2>1. PICK pc \in {"got", "failed"} : call' = [call EXCEPT ![u].pc = pc]
      BY <1>2 DEF Resumes
  <2> DEFINE w == [call[u] EXCEPT !.pc = pc]
  <2>2. pc \in PCs
      BY DEF PCs
  <2>3. /\ w.pc = pc /\ w.chan = call[u].chan /\ w.tunnel = call[u].tunnel
        /\ w.target = call[u].target /\ w.endpoint = call[u].endpoint
      BY <1>1, <2>2, Zenon DEF Calls
  <2>4. call[u].pc = "waiting" /\ UNCHANGED ssh
      BY <1>2 DEF Resumes, At
  <2> HIDE DEF w
  <2>5. Served(ssh, w)
      BY <1>1, <2>3, <2>4 DEF Served
  <2> QED BY <1>1, <2>1, <2>2, <2>4, <2>5, GoesOn DEF w, TunnelIInv
<1>3. CASE u \in Callers /\ Leaves(u)
  <2>1. Idle \in Calls /\ Served(ssh, Idle)
      BY DEF Idle, Calls, PCs, Served
  <2> QED BY <1>1, <1>3, <2>1, OneCall DEF TunnelIInv, Leaves
<1>4. CASE u \in Probes /\ ProbeEnds(u)
  <2> DEFINE w == [call[u] EXCEPT !.pc = "closed"]
  <2>1. "closed" \in PCs /\ "left" \in {"left", "start", "failed"} /\ 0 \in Nat
      BY DEF PCs
  <2>2. call[u].chan \in DOMAIN ssh.chans
      BY <1>1, <1>4 DEF ProbeEnds, Served
  <2>3. Sound(ssh') /\ Grown(ssh, ssh')
      BY <1>1, <1>4, <2>1, <2>2, CloseIsSound DEF ProbeEnds
  <2>4. w.pc = "closed"
      BY <1>1, <2>1, Zenon DEF Calls
  <2> HIDE DEF w
  <2>5. Served(ssh, w)
      BY <2>4 DEF Served
  <2> QED BY <1>1, <1>4, <2>1, <2>3, <2>5, GoesOn DEF w, TunnelIInv, ProbeEnds
<1> QED BY <1>2, <1>3, <1>4

LEMMA ProbeBeginsIsSafe == ASSUME TunnelIInv, NEW p \in Probes, ProbeBegins(p) PROVE TunnelIInv'
<1>1. p \in Users /\ Sound(ssh) /\ CallsInv
    BY DEF TunnelIInv, Users
<1>2. PICK target \in Targets, endpoint \in Endpoints :
          LET c == Len(ssh.chans) + 1
              t == [ssh EXCEPT !.chans = Append(@, NewChannel(target))]
          IN  /\ ssh' = OpenForward(t, c, endpoint)
              /\ call' = [call EXCEPT ![p] = [pc |-> "waiting", target |-> target,
                             endpoint |-> endpoint, chan |-> c, tunnel |-> Len(ssh'.opens)]]
    BY DEF ProbeBegins
<1> DEFINE c == Len(ssh.chans) + 1
           t == [ssh EXCEPT !.chans = Append(ssh.chans, NewChannel(target))]
           r == [pc |-> "waiting", target |-> target, endpoint |-> endpoint, chan |-> c,
                 tunnel |-> Len(ssh'.opens)]
<1>3. t = [ssh EXCEPT !.chans = Append(ssh.chans, NewChannel(target)), !.active = ssh.active]
    BY <1>1, Zenon DEF Sound, Typed
<1>4. ssh' = OpenForward(t, c, endpoint) /\ call' = [call EXCEPT ![p] = r]
    BY <1>2
<1> HIDE DEF t
<1>5. /\ Sound(t) /\ Grown(ssh, t) /\ Len(t.chans) = c /\ t.chans[c] = NewChannel(target)
    BY <1>1, <1>3, AddedChannel
<1>6. c \in DOMAIN t.chans /\ c \in Nat /\ t.chans[c].forwarding = 0 /\ t.chans[c].target = target
    BY <1>1, <1>5 DEF Sound, Typed, NewChannel
<1>7. /\ Sound(ssh') /\ Grown(t, ssh')
      /\ Len(ssh'.opens) \in DOMAIN ssh'.opens /\ ssh'.opens[Len(ssh'.opens)].chan = c
    BY <1>4, <1>5, <1>6, OpenForwardIsSound
<1>8. /\ Grown(ssh, ssh') /\ Len(ssh'.opens) \in Nat
      /\ c \in DOMAIN ssh'.chans /\ ssh'.chans[c].target = target
  <2>1. Grown(ssh, ssh')
      BY <1>1, <1>5, <1>7, GrownTwice
  <2>2. /\ DOMAIN t.chans = 1..Len(t.chans) /\ DOMAIN ssh'.chans = 1..Len(ssh'.chans)
        /\ Len(t.chans) \in Nat /\ Len(ssh'.chans) \in Nat /\ Len(ssh'.opens) \in Nat
      BY <1>5, <1>7 DEF Sound, Typed
  <2> QED BY <2>1, <2>2, <1>6, <1>7 DEF Grown
<1>9. r \in Calls /\ Served(ssh', r)
    BY <1>6, <1>7, <1>8 DEF Calls, PCs, Served
<1> HIDE DEF r
<1>10. CallsInv'
    BY <1>1, <1>4, <1>7, <1>8, <1>9, OneCall
<1> QED BY <1>7, <1>10 DEF TunnelIInv, RowTyped, ProbeBegins

-----------------------------------------------------------------------------
(* The runs of openForward, and the processes of ssh *)

\* One opening changes, and keeps its channel and its place in the order of its stages.
LEMMA OneOpeningChanges ==
    ASSUME Sound(ssh), NEW k \in DOMAIN ssh.opens, NEW o \in Openings, o.chan = ssh.opens[k].chan,
           o.stage \in {"reserve", "wait", "probe"} => InProgress(ssh, k),
           NEW next, next = [ssh EXCEPT !.opens = [ssh.opens EXCEPT ![k] = o]]
    PROVE  Sound(next) /\ Grown(ssh, next)
<1>0. ssh.opens \in Seq(Openings)
    BY DEF Sound, Typed
<1>1. next.opens = [ssh.opens EXCEPT ![k] = o] /\ next.chans = ssh.chans /\ next.active = ssh.active
    BY Zenon DEF Sound, Typed
<1>2. next.opens \in Seq(Openings) /\ Len(next.opens) = Len(ssh.opens)
    BY <1>0, <1>1, Replaced
<1>3. Typed(next)
    BY <1>1, <1>2, Zenon DEF Sound, Typed
<1>4. \A j \in DOMAIN ssh.opens : next.opens[j].chan = ssh.opens[j].chan
    BY <1>0, <1>1
<1>5. \A j \in DOMAIN ssh.opens : InProgress(next, j) => InProgress(ssh, j)
    BY <1>0, <1>1 DEF InProgress
<1> QED BY <1>1, <1>2, <1>3, <1>4, <1>5, PortsAreSound

\* A channel takes an opening of its own for its child, or for the tunnel it has.
LEMMA ChildIsSound ==
    ASSUME NEW t, Sound(t), NEW c \in DOMAIN t.chans, NEW k \in DOMAIN t.opens, t.opens[k].chan = c,
           NEW chan \in Chans, chan.target = t.chans[c].target, chan.forwarding = t.chans[c].forwarding,
           chan.child \in {t.chans[c].child, k}, chan.forwarded \in {t.chans[c].forwarded, k},
           NEW next, next = [t EXCEPT !.chans = [t.chans EXCEPT ![c] = chan]]
    PROVE  Sound(next) /\ Grown(t, next)
<1>0. /\ t.chans \in Seq(Chans) /\ t.opens \in Seq(Openings) /\ t.active <= Len(t.chans)
      /\ k <= Len(t.opens)
    BY DEF Sound, Typed, Linked
<1>1. next.chans = [t.chans EXCEPT ![c] = chan] /\ next.opens = t.opens /\ next.active = t.active
    BY Zenon DEF Sound, Typed
<1>2. next.chans \in Seq(Chans) /\ Len(next.chans) = Len(t.chans)
    BY <1>0, <1>1, Replaced
<1>3. Typed(next)
    BY <1>1, <1>2, Zenon DEF Sound, Typed
<1>4. ASSUME NEW d \in DOMAIN t.chans
      PROVE  /\ next.chans[d].target = t.chans[d].target
             /\ next.chans[d].child <= Len(t.opens)
             /\ next.chans[d].forwarding = t.chans[d].forwarding
             /\ \/ next.chans[d].forwarded = t.chans[d].forwarded
                \/ next.chans[d].forwarded = k /\ t.opens[k].chan = d
  <2>1. t.chans[d].child <= Len(t.opens)
      BY DEF Sound, Linked
  <2>2. CASE d = c
      BY <2>1, <2>2, <1>0, <1>1
  <2>3. CASE d # c
      BY <2>1, <2>3, <1>0, <1>1
  <2> QED BY <2>2, <2>3
<1>5. ASSUME NEW j \in DOMAIN t.opens
      PROVE  /\ next.opens[j].chan = t.opens[j].chan
             /\ InProgress(next, j) => next.chans[t.opens[j].chan].forwarding = j
    BY <1>1, <1>4 DEF Sound, Linked, InProgress
<1>6. /\ next.active <= Len(next.chans) /\ Len(next.opens) = Len(t.opens)
      /\ \A d \in DOMAIN t.chans :
             \/ next.chans[d].forwarded \in {0, t.chans[d].forwarded}
             \/ next.chans[d].forwarded <= Len(t.opens) /\ t.opens[next.chans[d].forwarded].chan = d
    BY <1>0, <1>1, <1>2, <1>4
<1> QED BY <1>2, <1>3, <1>4, <1>5, <1>6, SameShape

LEMMA OpeningFacts ==
    ASSUME Sound(ssh), NEW k \in DOMAIN ssh.opens
    PROVE  /\ ssh.opens[k] \in Openings /\ ssh.opens[k].chan \in DOMAIN ssh.chans
           /\ ssh.chans[ssh.opens[k].chan] \in Chans /\ k \in Nat
BY DEF Sound, Typed, Linked

LEMMA ReservesIsSafe ==
    ASSUME Sound(ssh), NEW k \in DOMAIN ssh.opens, Reserves(k)
    PROVE  Sound(ssh') /\ Grown(ssh, ssh')
<1> DEFINE c    == ssh.opens[k].chan
           o    == [ssh.opens[k] EXCEPT !.stage = "wait", !.port = "starting"]
           chan == [ssh.chans[c] EXCEPT !.child = k]
           mid  == [ssh EXCEPT !.opens = [ssh.opens EXCEPT ![k] = o]]
           next == [ssh EXCEPT !.opens[k].stage = "wait", !.opens[k].port = "starting",
                               !.chans[c].child = k]
<1>1. InProgress(ssh, k) /\ ssh.opens[k] \in Openings /\ c \in DOMAIN ssh.chans /\ ssh.chans[c] \in Chans /\ k \in Nat
    BY OpeningFacts DEF Reserves, InProgress
<1>2. CASE ssh' = Settled(ssh, k, "failed")
    BY <1>1, <1>2, SettledIsSound
<1>3. ASSUME ssh' = next
      PROVE  Sound(ssh') /\ Grown(ssh, ssh')
  <2>1. o \in Openings /\ o.chan = c /\ o.stage = "wait"
      BY <1>1, Zenon DEF Openings
  <2>2. /\ chan \in Chans /\ chan.target = ssh.chans[c].target /\ chan.child = k
        /\ chan.forwarding = ssh.chans[c].forwarding /\ chan.forwarded = ssh.chans[c].forwarded
      BY <1>1, Zenon DEF Chans
  <2>3. mid.chans = ssh.chans /\ mid.opens = [ssh.opens EXCEPT ![k] = o]
      BY Zenon DEF Sound, Typed
  <2>4. next = [mid EXCEPT !.chans = [mid.chans EXCEPT ![c] = chan]]
      BY <1>1, <2>3, Zenon DEF Sound, Typed
  <2> HIDE DEF o, chan, mid, next
  <2>5. Sound(mid) /\ Grown(ssh, mid)
      BY <1>1, <2>1, OneOpeningChanges DEF mid
  <2>6. /\ c \in DOMAIN mid.chans /\ k \in DOMAIN mid.opens /\ mid.opens[k].chan = c
        /\ mid.chans[c] = ssh.chans[c]
      BY <1>1, <2>1, <2>3
  <2>7. Sound(next) /\ Grown(mid, next)
      BY <2>2, <2>4, <2>5, <2>6, ChildIsSound
  <2> QED BY <1>3, <2>5, <2>7, GrownTwice
<1> QED BY <1>2, <1>3 DEF Reserves

LEMMA WaitedIsSafe ==
    ASSUME Sound(ssh), NEW k \in DOMAIN ssh.opens, Waited(k)
    PROVE  Sound(ssh') /\ Grown(ssh, ssh')
<1>1. InProgress(ssh, k) /\ ssh.opens[k] \in Openings
    BY OpeningFacts DEF Waited, InProgress
<1>2. CASE ssh' = Fails(ssh, k)
    BY <1>1, <1>2, FailsIsSound
<1>3. CASE ssh' = [ssh EXCEPT !.opens[k].stage = "probe"]
  <2> DEFINE o == [ssh.opens[k] EXCEPT !.stage = "probe"]
  <2>1. o \in Openings /\ o.chan = ssh.opens[k].chan
      BY <1>1, Zenon DEF Openings
  <2>2. ssh' = [ssh EXCEPT !.opens = [ssh.opens EXCEPT ![k] = o]]
      BY <1>3, Zenon DEF Sound, Typed
  <2> HIDE DEF o
  <2> QED BY <1>1, <2>1, <2>2, OneOpeningChanges
<1> QED BY <1>2, <1>3 DEF Waited

LEMMA ProbedIsSafe ==
    ASSUME Sound(ssh), NEW k \in DOMAIN ssh.opens, Probed(k)
    PROVE  Sound(ssh') /\ Grown(ssh, ssh')
<1> DEFINE c   == ssh.opens[k].chan
           mid == Settled(ssh, k, "done")
           chan == [mid.chans[c] EXCEPT !.forwarded = k]
<1>1. InProgress(ssh, k) /\ c \in DOMAIN ssh.chans /\ k \in Nat
    BY OpeningFacts DEF Probed, InProgress
<1>2. CASE ssh' = Fails(ssh, k)
    BY <1>1, <1>2, FailsIsSound
<1>3. CASE ssh' = [mid EXCEPT !.chans[c].forwarded = k]
  <2>1. Sound(mid) /\ Grown(ssh, mid)
      BY <1>1, SettledIsSound
  <2> HIDE DEF mid
  <2>2. /\ c \in DOMAIN mid.chans /\ k \in DOMAIN mid.opens /\ mid.opens[k].chan = c
        /\ mid.chans[c] \in Chans
      BY <1>1, <2>1 DEF Sound, Typed, Grown
  <2>3. /\ chan \in Chans /\ chan.target = mid.chans[c].target /\ chan.child = mid.chans[c].child
        /\ chan.forwarding = mid.chans[c].forwarding /\ chan.forwarded = k
      BY <1>1, <2>2, Zenon DEF Chans
  <2>4. ssh' = [mid EXCEPT !.chans = [mid.chans EXCEPT ![c] = chan]]
      BY <1>3, <2>1, Zenon DEF Sound, Typed
  <2> HIDE DEF chan
  <2>5. Sound(ssh') /\ Grown(mid, ssh')
      BY <2>1, <2>2, <2>3, <2>4, ChildIsSound
  <2> QED BY <2>1, <2>5, GrownTwice
<1> QED BY <1>2, <1>3 DEF Probed

LEMMA DetachesIsSafe ==
    ASSUME Sound(ssh), NEW k \in DOMAIN ssh.opens, Detaches(k)
    PROVE  Sound(ssh') /\ Grown(ssh, ssh')
<1>1. PICK port \in {"up", "down"} : ssh' = [ssh EXCEPT !.opens[k].port = port]
    BY DEF Detaches
<1> DEFINE o == [ssh.opens[k] EXCEPT !.port = port]
<1>2. ssh.opens[k] \in Openings
    BY OpeningFacts
<1>3. o \in Openings /\ o.chan = ssh.opens[k].chan /\ o.stage = ssh.opens[k].stage
    BY <1>2, Zenon DEF Openings
<1>4. ssh' = [ssh EXCEPT !.opens = [ssh.opens EXCEPT ![k] = o]]
    BY <1>1, Zenon DEF Sound, Typed
<1> HIDE DEF o
<1> QED BY <1>3, <1>4, OneOpeningChanges DEF InProgress

LEMMA MasterEnds ==
    ASSUME Sound(ssh), NEW c, NEW exits \in SUBSET ssh.exits,
           ssh' = [ssh EXCEPT !.opens = WithoutMaster(c), !.exits = exits]
    PROVE  Sound(ssh') /\ Grown(ssh, ssh')
<1>0. ssh.opens \in Seq(Openings) /\ ssh.chans \in Seq(Chans)
    BY DEF Sound, Typed
<1>1. /\ WithoutMaster(c) \in [DOMAIN ssh.opens -> Openings]
      /\ \A k \in DOMAIN ssh.opens : /\ WithoutMaster(c)[k].chan = ssh.opens[k].chan
                                     /\ WithoutMaster(c)[k].stage = ssh.opens[k].stage
  <2>1. \A k \in DOMAIN ssh.opens : ssh.opens[k] \in Openings
      BY <1>0
  <2> QED BY <2>1, Stopped DEF WithoutMaster
<1>2. /\ ssh'.opens = WithoutMaster(c) /\ ssh'.chans = ssh.chans /\ ssh'.active = ssh.active
      /\ ssh'.exits = exits
    BY Zenon DEF Sound, Typed
<1>3. ssh'.opens \in Seq(Openings) /\ Len(ssh'.opens) = Len(ssh.opens)
    BY <1>0, <1>1, <1>2, SequenceOf
<1>4. exits \in SUBSET [chan : Nat, why : {"left", "start", "failed"}, of : Nat]
    BY DEF Sound, Typed
<1>5. Typed(ssh')
    BY <1>2, <1>3, <1>4, Zenon DEF Sound, Typed
<1>6. \A k \in DOMAIN ssh.opens : InProgress(ssh', k) => InProgress(ssh, k)
    BY <1>1, <1>2 DEF InProgress
<1> QED BY <1>1, <1>2, <1>3, <1>5, <1>6, PortsAreSound

LEMMA TransportIsSafe ==
    ASSUME TunnelIInv,
           \/ \E k \in DOMAIN ssh.opens : Reserves(k) \/ Waited(k) \/ Probed(k) \/ Detaches(k)
           \/ ExitLands \/ ConnectionIsLost \/ CloseDeleted
    PROVE  TunnelIInv'
<1>1. Sound(ssh) /\ CallsInv
    BY DEF TunnelIInv
<1>2. RowTyped' /\ UNCHANGED call
    BY DEF TunnelIInv, RowTyped, Reserves, Waited, Probed, Detaches, ExitLands, ConnectionIsLost,
           CloseDeleted, KeepsCalls
<1>3. Sound(ssh') /\ Grown(ssh, ssh')
  <2>1. CASE \E k \in DOMAIN ssh.opens : Reserves(k) \/ Waited(k) \/ Probed(k) \/ Detaches(k)
      BY <1>1, <2>1, ReservesIsSafe, WaitedIsSafe, ProbedIsSafe, DetachesIsSafe
  <2>2. CASE ExitLands
    <3>1. PICK e \in ssh.exits : ssh' = [ssh EXCEPT !.opens = WithoutMaster(e.chan), !.exits = @ \ {e}]
        BY <2>2 DEF ExitLands
    <3> QED BY <1>1, <3>1, MasterEnds
  <2>3. CASE ConnectionIsLost
    <3>1. PICK k \in DOMAIN ssh.opens : ssh' = [ssh EXCEPT !.opens = WithoutMaster(ssh.opens[k].chan)]
        BY <2>3 DEF ConnectionIsLost
    <3>2. ssh' = [ssh EXCEPT !.opens = WithoutMaster(ssh.opens[k].chan), !.exits = ssh.exits]
        BY <1>1, <3>1, Zenon DEF Sound, Typed
    <3> QED BY <1>1, <3>2, MasterEnds
  <2>4. CASE CloseDeleted
      BY <1>1, <2>4, CloseChannelIsSound DEF CloseDeleted
  <2> QED BY <2>1, <2>2, <2>3, <2>4
<1> QED BY <1>1, <1>2, <1>3, CallsStay DEF TunnelIInv

-----------------------------------------------------------------------------
(* The invariant *)

LEMMA TunnelInit == Init => TunnelIInv
<1> SUFFICES ASSUME Init PROVE TunnelIInv
    OBVIOUS
<1>1. Sound(ssh)
    BY DEF Init, Sound, Typed, Linked, InProgress
<1>2. Idle \in Calls /\ Served(ssh, Idle)
    BY DEF Idle, Calls, PCs, Served
<1>3. CallsInv
    BY <1>2 DEF Init, CallsInv
<1> QED BY <1>1, <1>3 DEF Init, TunnelIInv, RowTyped

LEMMA TunnelNext == TunnelIInv /\ [Next]_vars => TunnelIInv'
<1> SUFFICES ASSUME TunnelIInv, [Next]_vars PROVE TunnelIInv'
    OBVIOUS
<1>1. CASE \E u \in Callers : Reads(u) \/ Asks(u) \/ Leaves(u)
    BY <1>1, ReadsIsSafe, AsksIsSafe, CallGoesOn DEF Users
<1>2. CASE \E u \in Users : Checked(u) \/ Resumes(u)
    BY <1>2, CheckedIsSafe, CallGoesOn
<1>3. CASE \E p \in Probes : ProbeBegins(p) \/ ProbeEnds(p)
    BY <1>3, ProbeBeginsIsSafe, CallGoesOn DEF Users
<1>4. CASE \/ \E k \in DOMAIN ssh.opens : Reserves(k) \/ Waited(k) \/ Probed(k) \/ Detaches(k)
           \/ ExitLands \/ ConnectionIsLost \/ CloseDeleted
    BY <1>4, TransportIsSafe
<1>5. CASE Save \/ Delete
    BY <1>5 DEF TunnelIInv, RowTyped, CallsInv, Save, Delete
<1>6. CASE UNCHANGED vars
    BY <1>6 DEF TunnelIInv, RowTyped, CallsInv, vars
<1> QED BY <1>1, <1>2, <1>3, <1>4, <1>5, <1>6 DEF Next

LEMMA TunnelSafe == TunnelIInv => TunnelInvariant
<1> SUFFICES ASSUME TunnelIInv PROVE TunnelInvariant
    OBVIOUS
<1>1. /\ ssh.chans \in Seq(Chans) /\ ssh.opens \in Seq(Openings)
      /\ ssh.active \in Nat /\ ssh.active <= Len(ssh.chans) /\ Len(ssh.chans) \in Nat
    BY DEF TunnelIInv, Sound, Typed, Linked
<1>2. ASSUME NEW c \in DOMAIN ssh.chans
      PROVE  LET chan == ssh.chans[c]
             IN  /\ chan.target \in Targets
                 /\ {chan.forwarded, chan.forwarding, chan.child} \subseteq 0..Len(ssh.opens)
  <2>1. ssh.chans[c] \in Chans
      BY <1>1
  <2> QED BY <2>1 DEF TunnelIInv, Sound, Linked, Chans
<1>3. ASSUME NEW k \in DOMAIN ssh.opens
      PROVE  /\ ssh.opens[k].chan \in DOMAIN ssh.chans /\ ssh.opens[k].endpoint \in Endpoints
             /\ ssh.opens[k].stage \in {"reserve", "wait", "probe", "done", "failed"}
             /\ ssh.opens[k].port \in {"none", "starting", "up", "down"}
  <2>1. ssh.opens[k] \in Openings
      BY <1>1
  <2> QED BY <2>1 DEF TunnelIInv, Sound, Linked, Openings
<1>4. \A u \in Users : call[u].pc \in PCs
    BY CallTyped DEF TunnelIInv, Calls
<1>5. TypeOK
    BY <1>1, <1>2, <1>3, <1>4 DEF TypeOK, TunnelIInv, RowTyped, PCs
<1>6. OneOpening
    BY DEF OneOpening, UnderWay, TunnelIInv, Sound, Linked, InProgress
<1>7. RightAccount
    BY CallTyped DEF RightAccount, At, TunnelIInv, Served
<1> QED BY <1>5, <1>6, <1>7 DEF TunnelInvariant

\* system-ssh.ts:131 and index.ts:27 : a channel never opens two tunnels at once, so no
\* opening cuts another's, and the URL a call is given leads to the account it has read,
\* however calls, probes, saves, deletions and failures of ssh interleave.
THEOREM TunnelsAreOneAtATime == Spec => []TunnelInvariant
<1>1. Init => TunnelIInv
    BY TunnelInit
<1>2. TunnelIInv /\ [Next]_vars => TunnelIInv'
    BY TunnelNext
<1>3. TunnelIInv => TunnelInvariant
    BY TunnelSafe
<1> QED BY <1>1, <1>2, <1>3, PTL DEF Spec

-----------------------------------------------------------------------------
(* What stops a tunnel, and what becomes of the channel of an operation.    *)
(* Neither is inductive.  That a late exit only stops what was given up     *)
(* needs the order of the openings of a channel: one that is replaced while *)
(* it listens was refused or is for another endpoint.  And that order needs *)
(* that a call which checks a tunnel checks the last one of its channel.    *)


\* The tunnel k of t was refused, or its channel was asked for another endpoint since.
Dropped(t, k, upto) ==
    \/ t.opens[k].stage = "failed"
    \/ \E j \in (k + 1)..upto : /\ t.opens[j].chan = t.opens[k].chan
                                /\ t.opens[j].endpoint # t.opens[k].endpoint

LastOf(t, k) == \A j \in DOMAIN t.opens : t.opens[j].chan = t.opens[k].chan => j <= k

\* The port of an opening is about to listen as long as its child is that of the channel.
ChildListens(t, k) ==
    /\ t.opens[k].stage = "reserve" => t.opens[k].port = "none"
    /\ t.opens[k].port = "starting" =>
           t.opens[k].stage = "wait" /\ t.chans[t.opens[k].chan].child = k

\* The last tunnel of the shared channel is the one that it gives to the calls.
ActiveHasLast(t, k) ==
    t.opens[k].stage = "done" /\ LastOf(t, k) /\ t.opens[k].chan = t.active =>
        t.chans[t.active].forwarded = k

ReplacedAfter(t, k) ==
    \A j \in DOMAIN t.opens :
        k < j /\ t.opens[j].chan = t.opens[k].chan /\ t.opens[k].port = "up" => Dropped(t, k, j)

OpeningKept(t, k) ==
    /\ ChildListens(t, k) /\ ActiveHasLast(t, k) /\ ReplacedAfter(t, k)
    /\ InProgress(t, k) => LastOf(t, k)

ExitIsOf(t, e) == e.why # "left" => e.of \in DOMAIN t.opens /\ t.opens[e.of].chan = e.chan

Kept(t) ==
    /\ \A k \in DOMAIN t.opens : OpeningKept(t, k)
    /\ \A c \in DOMAIN t.chans : t.chans[c].forwarded # 0 => LastOf(t, t.chans[c].forwarded)
    /\ \A e \in t.exits : ExitIsOf(t, e)

\* What a step may do to the openings there are.
OpeningFollows(t, next, k) ==
    /\ next.opens[k].chan = t.opens[k].chan /\ next.opens[k].endpoint = t.opens[k].endpoint
    /\ ~InProgress(t, k) => next.opens[k].stage = t.opens[k].stage
    /\ next.opens[k].port = "up" => t.opens[k].port = "up" \/ InProgress(t, k)

Follows(t, next) ==
    /\ DOMAIN t.opens \subseteq DOMAIN next.opens
    /\ \A k \in DOMAIN t.opens : OpeningFollows(t, next, k)

\* A step that stops no tunnel that listens.
Gentle(t, next) ==
    /\ Follows(t, next)
    /\ t.exits \subseteq next.exits
    /\ \A k \in DOMAIN t.opens : t.opens[k].port = "up" => next.opens[k].port = "up"

\* A step that adds nothing, and after which no more openings have succeeded.
EndsNone(t, next) ==
    /\ DOMAIN next.opens = DOMAIN t.opens /\ DOMAIN next.chans = DOMAIN t.chans
    /\ next.active = t.active
    /\ \A j \in DOMAIN t.opens : next.opens[j].stage = "done" => t.opens[j].stage = "done"

LEMMA GentleTwice ==
    ASSUME NEW t, NEW mid, NEW next, Gentle(t, mid), Gentle(mid, next)
    PROVE  Gentle(t, next)
<1>1. ASSUME NEW k \in DOMAIN t.opens
      PROVE  OpeningFollows(t, next, k) /\ (t.opens[k].port = "up" => next.opens[k].port = "up")
  <2>1. /\ k \in DOMAIN mid.opens /\ OpeningFollows(t, mid, k) /\ OpeningFollows(mid, next, k)
        /\ t.opens[k].port = "up" => mid.opens[k].port = "up"
        /\ mid.opens[k].port = "up" => next.opens[k].port = "up"
      BY DEF Gentle, Follows
  <2>2. InProgress(mid, k) => InProgress(t, k)
      BY <2>1 DEF OpeningFollows, InProgress
  <2> QED BY <2>1, <2>2 DEF OpeningFollows
<1> QED BY <1>1 DEF Gentle, Follows

LEMMA GentleSame == ASSUME NEW t PROVE Gentle(t, t)
BY DEF Gentle, Follows, OpeningFollows

LEMMA Numbers ==
    ASSUME NEW t, Sound(t)
    PROVE  /\ Len(t.opens) \in Nat /\ DOMAIN t.opens = 1..Len(t.opens)
           /\ Len(t.chans) \in Nat /\ DOMAIN t.chans = 1..Len(t.chans)
           /\ t.active \in Nat /\ t.active <= Len(t.chans)
           /\ \A k \in DOMAIN t.opens : t.opens[k].chan \in DOMAIN t.chans
           /\ \A k \in DOMAIN t.opens : InProgress(t, k) => t.chans[t.opens[k].chan].forwarding = k
           /\ \A k \in DOMAIN t.opens : t.opens[k] \in Openings
           /\ \A c \in DOMAIN t.chans : t.chans[c] \in Chans
BY DEF Sound, Typed, Linked

\* Going on with the openings there are, the tunnel given up stays so.
LEMMA DroppedStays ==
    ASSUME NEW t, Sound(t), NEW next, Follows(t, next), NEW k \in DOMAIN t.opens, NEW upto \in Nat,
           upto <= Len(t.opens), Dropped(t, k, upto)
    PROVE  Dropped(next, k, upto)
<1>1. CASE t.opens[k].stage = "failed"
    BY <1>1 DEF Follows, OpeningFollows, InProgress, Dropped
<1>2. CASE \E j \in (k + 1)..upto : /\ t.opens[j].chan = t.opens[k].chan
                                    /\ t.opens[j].endpoint # t.opens[k].endpoint
  <2>1. PICK j \in (k + 1)..upto : /\ t.opens[j].chan = t.opens[k].chan
                                   /\ t.opens[j].endpoint # t.opens[k].endpoint
      BY <1>2
  <2>2. j \in DOMAIN t.opens
      BY <2>1, Numbers
  <2>3. OpeningFollows(t, next, j) /\ OpeningFollows(t, next, k)
      BY <2>2 DEF Follows
  <2> QED BY <2>1, <2>3 DEF OpeningFollows, Dropped
<1> QED BY <1>1, <1>2 DEF Dropped

LEMMA LastStays ==
    ASSUME NEW t, NEW next, Follows(t, next), DOMAIN next.opens = DOMAIN t.opens, NEW k \in DOMAIN t.opens
    PROVE  LastOf(next, k) <=> LastOf(t, k)
BY DEF Follows, OpeningFollows, LastOf

\* What keeps the openings there are, each with its child; leaves no channel a tunnel but
\* the one it had or one that was in progress; and lets the shared channel forget its last
\* tunnel only when that one is not a tunnel any more.
LEMMA KeptStays ==
    ASSUME NEW t, Sound(t), Kept(t), NEW next, Sound(next),
           Follows(t, next), DOMAIN next.opens = DOMAIN t.opens,
           \A k \in DOMAIN t.opens : ChildListens(next, k),
           \A k \in DOMAIN t.opens : LastOf(t, k) => ActiveHasLast(next, k),
           \A c \in DOMAIN next.chans :
               \/ next.chans[c].forwarded = 0
               \/ c \in DOMAIN t.chans /\ next.chans[c].forwarded = t.chans[c].forwarded
               \/ /\ next.chans[c].forwarded \in DOMAIN t.opens
                  /\ InProgress(t, next.chans[c].forwarded),
           \A e \in next.exits : ExitIsOf(next, e)
    PROVE  Kept(next)
<1>1. ASSUME NEW k \in DOMAIN next.opens
      PROVE  OpeningKept(next, k)
  <2>1. k \in DOMAIN t.opens /\ OpeningKept(t, k) /\ OpeningFollows(t, next, k)
      BY DEF Kept, Follows
  <2>2. LastOf(next, k) <=> LastOf(t, k)
      BY <2>1, LastStays
  <2>3. ActiveHasLast(next, k)
      BY <2>1, <2>2 DEF ActiveHasLast
  <2>4. InProgress(next, k) => LastOf(next, k)
      BY <2>1, <2>2 DEF OpeningFollows, OpeningKept, InProgress
  <2>5. ASSUME NEW j \in DOMAIN next.opens, k < j, next.opens[j].chan = next.opens[k].chan,
               next.opens[k].port = "up"
        PROVE  Dropped(next, k, j)
    <3>1. j \in DOMAIN t.opens /\ OpeningFollows(t, next, j) /\ j \in Nat /\ k \in Nat /\ j <= Len(t.opens)
        BY <2>1, Numbers DEF Follows
    <3>2. t.opens[j].chan = t.opens[k].chan
        BY <2>1, <2>5, <3>1 DEF OpeningFollows
    <3>3. ~InProgress(t, k)
        BY <2>1, <2>5, <3>1, <3>2 DEF OpeningKept, LastOf
    <3>4. t.opens[k].port = "up"
        BY <2>1, <2>5, <3>3 DEF OpeningFollows
    <3>5. Dropped(t, k, j)
        BY <2>1, <2>5, <3>1, <3>2, <3>4 DEF OpeningKept, ReplacedAfter
    <3> QED BY <2>1, <3>1, <3>5, DroppedStays
  <2> QED BY <2>1, <2>3, <2>4, <2>5 DEF OpeningKept, ReplacedAfter
<1>2. ASSUME NEW c \in DOMAIN next.chans, next.chans[c].forwarded # 0
      PROVE  LastOf(next, next.chans[c].forwarded)
  <2> DEFINE f == next.chans[c].forwarded
  <2>1. f \in DOMAIN next.opens
      BY <1>2, OwnTunnel
  <2>2. LastOf(t, f)
      BY <1>2, <2>1 DEF Kept, OpeningKept
  <2> QED BY <2>1, <2>2, LastStays
<1> QED BY <1>1, <1>2 DEF Kept

\* close(), step by step.
LEMMA CloseEffects ==
    ASSUME NEW t, Sound(t), NEW c \in DOMAIN t.chans, NEW why \in {"left", "start", "failed"},
           NEW of \in Nat, NEW next, next = Close(t, c, why, of)
    PROVE  /\ Sound(next) /\ next.active = t.active
           /\ DOMAIN next.chans = DOMAIN t.chans /\ DOMAIN next.opens = DOMAIN t.opens
           /\ next.chans[c].forwarded = 0 /\ next.chans[c].forwarding = t.chans[c].forwarding
           /\ \A d \in DOMAIN t.chans : d # c => next.chans[d] = t.chans[d]
           /\ \A k \in DOMAIN t.opens :
                  /\ next.opens[k].chan = t.opens[k].chan
                  /\ next.opens[k].endpoint = t.opens[k].endpoint
                  /\ next.opens[k].stage = t.opens[k].stage
                  /\ next.opens[k].port = IF k = t.chans[c].child /\ t.opens[k].port = "starting"
                                          THEN "down" ELSE t.opens[k].port
           /\ next.exits = t.exits \union {[chan |-> c, why |-> why, of |-> of]}
<1> DEFINE chan == [t.chans[c] EXCEPT !.forwarded = 0, !.child = 0]
           Port(k) == IF k = t.chans[c].child /\ t.opens[k].port = "starting"
                      THEN [t.opens[k] EXCEPT !.port = "down"] ELSE t.opens[k]
<1>1. /\ next.active = t.active
      /\ next.chans = [t.chans EXCEPT ![c] = chan]
      /\ next.opens = [k \in DOMAIN t.opens |-> Port(k)]
      /\ next.exits = t.exits \union {[chan |-> c, why |-> why, of |-> of]}
    BY DEF Close, Sound, Typed
<1>2. chan.forwarded = 0 /\ chan.forwarding = t.chans[c].forwarding
    BY Emptied, Numbers
<1>3. ASSUME NEW k \in DOMAIN t.opens
      PROVE  /\ Port(k).chan = t.opens[k].chan /\ Port(k).endpoint = t.opens[k].endpoint
             /\ Port(k).stage = t.opens[k].stage
             /\ Port(k).port = IF k = t.chans[c].child /\ t.opens[k].port = "starting"
                               THEN "down" ELSE t.opens[k].port
  <2>1. t.opens[k] \in Openings
      BY Numbers
  <2> QED BY <2>1 DEF Openings
<1> HIDE DEF chan, Port
<1>4. Sound(next)
    BY CloseIsSound
<1>5. t.chans \in Seq(Chans)
    BY DEF Sound, Typed
<1>6. /\ DOMAIN next.chans = DOMAIN t.chans /\ DOMAIN next.opens = DOMAIN t.opens
      /\ next.chans[c] = chan /\ \A d \in DOMAIN t.chans : d # c => next.chans[d] = t.chans[d]
      /\ \A k \in DOMAIN t.opens : next.opens[k] = Port(k)
    BY <1>1, <1>5
<1> QED BY <1>1, <1>2, <1>3, <1>4, <1>6

\* close() stops no tunnel that listens; the child of the channel does not become one.
LEMMA CloseIsGentle ==
    ASSUME NEW t, Sound(t), NEW c \in DOMAIN t.chans, NEW why \in {"left", "start", "failed"},
           NEW of \in Nat, NEW next, next = Close(t, c, why, of)
    PROVE  Gentle(t, next)
<1>1. /\ DOMAIN next.opens = DOMAIN t.opens /\ t.exits \subseteq next.exits
      /\ \A k \in DOMAIN t.opens :
             /\ next.opens[k].chan = t.opens[k].chan /\ next.opens[k].endpoint = t.opens[k].endpoint
             /\ next.opens[k].stage = t.opens[k].stage
             /\ next.opens[k].port = IF k = t.chans[c].child /\ t.opens[k].port = "starting"
                                     THEN "down" ELSE t.opens[k].port
    BY CloseEffects
<1> QED BY <1>1 DEF Gentle, Follows, OpeningFollows

LEMMA CloseKeepsChildren ==
    ASSUME NEW t, Sound(t), Kept(t), NEW c \in DOMAIN t.chans, NEW why \in {"left", "start", "failed"},
           NEW of \in Nat, NEW next, next = Close(t, c, why, of)
    PROVE  /\ \A k \in DOMAIN t.opens : ChildListens(next, k)
           /\ \A k \in DOMAIN t.opens : next.opens[k].chan = c => next.opens[k].port # "starting"
<1>1. ASSUME NEW k \in DOMAIN t.opens, next.opens[k].port = "starting"
      PROVE  /\ next.opens[k].chan # c
             /\ next.opens[k].stage = "wait" /\ next.chans[next.opens[k].chan].child = k
  <2>1. /\ next.opens[k].chan = t.opens[k].chan /\ next.opens[k].stage = t.opens[k].stage
        /\ next.opens[k].port = IF k = t.chans[c].child /\ t.opens[k].port = "starting"
                                THEN "down" ELSE t.opens[k].port
        /\ \A d \in DOMAIN t.chans : d # c => next.chans[d] = t.chans[d]
      BY CloseEffects
  <2>2. t.opens[k].port = "starting" /\ k # t.chans[c].child
      BY <1>1, <2>1
  <2>3. t.opens[k].stage = "wait" /\ t.chans[t.opens[k].chan].child = k
      BY <2>2 DEF Kept, OpeningKept, ChildListens
  <2>4. t.opens[k].chan # c /\ t.opens[k].chan \in DOMAIN t.chans
      BY <2>2, <2>3, Numbers
  <2> QED BY <2>1, <2>3, <2>4
<1>2. ASSUME NEW k \in DOMAIN t.opens, next.opens[k].stage = "reserve"
      PROVE  next.opens[k].port = "none"
  <2>1. /\ next.opens[k].stage = t.opens[k].stage
        /\ next.opens[k].port = IF k = t.chans[c].child /\ t.opens[k].port = "starting"
                                THEN "down" ELSE t.opens[k].port
      BY CloseEffects
  <2> QED BY <1>2, <2>1 DEF Kept, OpeningKept, ChildListens
<1> QED BY <1>1, <1>2 DEF ChildListens

\* close() of a channel that is not, or no longer, the shared one.
LEMMA LeavingKeeps ==
    ASSUME NEW t, Sound(t), Kept(t), NEW c \in DOMAIN t.chans, NEW a \in Nat, a # c, a \in {0, t.active},
           NEW next, Sound(next), next.active = a, NEW mid, mid = Close(t, c, "left", 0),
           next.chans = mid.chans, next.opens = mid.opens, next.exits = mid.exits
    PROVE  Kept(next) /\ Gentle(t, next)
<1>1. "left" \in {"left", "start", "failed"} /\ 0 \in Nat
    OBVIOUS
<1>2. /\ DOMAIN mid.chans = DOMAIN t.chans /\ DOMAIN mid.opens = DOMAIN t.opens
      /\ mid.chans[c].forwarded = 0
      /\ \A d \in DOMAIN t.chans : d # c => mid.chans[d] = t.chans[d]
      /\ mid.exits = t.exits \union {[chan |-> c, why |-> "left", of |-> 0]}
    BY <1>1, CloseEffects
<1>3. Gentle(t, next)
  <2>1. Gentle(t, mid)
      BY <1>1, CloseIsGentle
  <2> QED BY <2>1 DEF Gentle, Follows, OpeningFollows
<1>4. \A k \in DOMAIN t.opens : ChildListens(next, k)
  <2>1. \A k \in DOMAIN t.opens : ChildListens(mid, k)
      BY <1>1, CloseKeepsChildren
  <2> QED BY <2>1 DEF ChildListens
<1>5. ASSUME NEW k \in DOMAIN t.opens, LastOf(t, k)
      PROVE  ActiveHasLast(next, k)
  <2>1. ASSUME next.opens[k].stage = "done", next.opens[k].chan = a
        PROVE  next.chans[a].forwarded = k
    <3>1. t.opens[k].chan = a /\ a \in DOMAIN t.chans /\ a = t.active
        BY <1>3, <2>1, Numbers DEF Gentle, Follows, OpeningFollows
    <3>2. t.opens[k].stage = "done"
      <4>1. OpeningFollows(t, next, k)
          BY <1>3 DEF Gentle, Follows
      <4>2. mid.opens[k].stage = t.opens[k].stage
          BY <1>1, CloseEffects
      <4> QED BY <2>1, <4>2
    <3>3. t.chans[a].forwarded = k
        BY <1>5, <3>1, <3>2 DEF Kept, OpeningKept, ActiveHasLast
    <3> QED BY <1>2, <3>1, <3>3
  <2> QED BY <2>1 DEF ActiveHasLast
<1>6. \A d \in DOMAIN next.chans :
          next.chans[d].forwarded = 0
          \/ (d \in DOMAIN t.chans /\ next.chans[d].forwarded = t.chans[d].forwarded)
    BY <1>2
<1>7. \A e \in next.exits : ExitIsOf(next, e)
  <2>1. ASSUME NEW e \in t.exits PROVE ExitIsOf(next, e)
    <3>1. ExitIsOf(t, e)
        BY DEF Kept
    <3> QED BY <1>3, <3>1 DEF ExitIsOf, Gentle, Follows, OpeningFollows
  <2>2. ExitIsOf(next, [chan |-> c, why |-> "left", of |-> 0])
      BY DEF ExitIsOf
  <2> QED BY <1>2, <2>1, <2>2
<1>8. Follows(t, next) /\ DOMAIN next.opens = DOMAIN t.opens
    BY <1>2, <1>3 DEF Gentle
<1>9. Kept(next)
    BY <1>4, <1>5, <1>6, <1>7, <1>8, KeptStays
<1> QED BY <1>3, <1>9

LEMMA CloseChannelKeeps ==
    ASSUME NEW t, Sound(t), Kept(t), NEW next, next = CloseChannel(t)
    PROVE  /\ Sound(next) /\ Kept(next) /\ Gentle(t, next) /\ next.active = 0
           /\ DOMAIN next.chans = DOMAIN t.chans /\ DOMAIN next.opens = DOMAIN t.opens
<1>1. CASE t.active = 0
    BY <1>1, GentleSame DEF CloseChannel
<1>2. CASE t.active # 0
  <2> DEFINE mid == Close(t, t.active, "left", 0)
  <2>1. next = [mid EXCEPT !.active = 0]
      BY <1>2 DEF CloseChannel
  <2>2. t.active \in DOMAIN t.chans /\ 0 \in Nat /\ "left" \in {"left", "start", "failed"}
      BY <1>2, Numbers
  <2>3. Sound(mid) /\ DOMAIN mid.chans = DOMAIN t.chans /\ DOMAIN mid.opens = DOMAIN t.opens
      BY <2>2, CloseEffects
  <2>4. Sound(next)
      BY CloseChannelIsSound
  <2> HIDE DEF mid
  <2>5. /\ next.active = 0 /\ next.chans = mid.chans /\ next.opens = mid.opens
        /\ next.exits = mid.exits
      BY <2>1, <2>3, Zenon DEF Sound, Typed
  <2>6. Kept(next) /\ Gentle(t, next)
      BY <1>2, <2>2, <2>4, <2>5, LeavingKeeps DEF mid
  <2> QED BY <2>3, <2>4, <2>5, <2>6
<1> QED BY <1>1, <1>2

\* A new channel has no opening yet.
LEMMA AddingKeeps ==
    ASSUME NEW t, Sound(t), Kept(t), NEW target \in Targets, NEW a \in {t.active, Len(t.chans) + 1},
           NEW next, next = [t EXCEPT !.chans = Append(t.chans, NewChannel(target)), !.active = a]
    PROVE  Kept(next) /\ Gentle(t, next) /\ next.opens = t.opens
<1>1. /\ Sound(next) /\ Grown(t, next) /\ next.active = a /\ next.opens = t.opens
      /\ Len(next.chans) = Len(t.chans) + 1
      /\ next.chans[Len(t.chans) + 1] = NewChannel(target)
    BY AddedChannel, ZenonT(60)
<1>2. next.exits = t.exits /\ next.chans = Append(t.chans, NewChannel(target))
    BY Zenon DEF Sound, Typed
<1>3. Gentle(t, next)
    BY <1>1, <1>2 DEF Gentle, Follows, OpeningFollows
<1>4. /\ \A c \in DOMAIN t.chans : next.chans[c] = t.chans[c]
      /\ DOMAIN next.chans = DOMAIN t.chans \union {Len(t.chans) + 1}
      /\ Len(t.chans) + 1 \notin DOMAIN t.chans
  <2>1. t.chans \in Seq(Chans) /\ NewChannel(target) \in Chans
      BY DEF Sound, Typed, NewChannel, Chans
  <2> QED BY <1>2, <2>1
<1>5. \A k \in DOMAIN t.opens : t.opens[k].chan \in DOMAIN t.chans
    BY Numbers
<1>6. ASSUME NEW k \in DOMAIN t.opens
      PROVE  ChildListens(next, k) /\ (LastOf(t, k) => ActiveHasLast(next, k))
  <2>1. OpeningKept(t, k) /\ next.chans[t.opens[k].chan] = t.chans[t.opens[k].chan]
      BY <1>4, <1>5 DEF Kept
  <2>2. ChildListens(next, k)
      BY <1>1, <2>1 DEF OpeningKept, ChildListens
  <2>3. ASSUME LastOf(t, k), t.opens[k].stage = "done", t.opens[k].chan = a
        PROVE  next.chans[a].forwarded = k
    <3>1. a = t.active
        BY <1>4, <1>5, <2>3
    <3> QED BY <2>1, <2>3, <3>1 DEF OpeningKept, ActiveHasLast
  <2> QED BY <1>1, <2>2, <2>3 DEF ActiveHasLast
<1>7. \A c \in DOMAIN next.chans :
          next.chans[c].forwarded = 0
          \/ (c \in DOMAIN t.chans /\ next.chans[c].forwarded = t.chans[c].forwarded)
    BY <1>1, <1>4 DEF NewChannel
<1>8. \A e \in next.exits : ExitIsOf(next, e)
    BY <1>1, <1>2 DEF Kept, ExitIsOf
<1>9. Follows(t, next) /\ DOMAIN next.opens = DOMAIN t.opens
    BY <1>1, <1>3 DEF Gentle
<1>10. Kept(next)
    BY <1>1, <1>6, <1>7, <1>8, <1>9, KeptStays
<1> QED BY <1>1, <1>3, <1>10

LEMMA GetChannelKeeps ==
    ASSUME NEW t, Sound(t), Kept(t), NEW target \in Targets, NEW next, next = GetChannel(t, target)
    PROVE  /\ Kept(next) /\ Gentle(t, next) /\ DOMAIN next.opens = DOMAIN t.opens
           /\ \/ next = t
              \/ /\ next.active \notin DOMAIN t.chans
                 /\ \A k \in DOMAIN next.opens : next.opens[k].chan # next.active
<1>1. CASE t.active # 0 /\ t.chans[t.active].target = target
    BY <1>1, GentleSame DEF GetChannel
<1>2. CASE ~(t.active # 0 /\ t.chans[t.active].target = target)
  <2> DEFINE mid == CloseChannel(t)
  <2>1. /\ Sound(mid) /\ Kept(mid) /\ Gentle(t, mid)
        /\ DOMAIN mid.chans = DOMAIN t.chans /\ DOMAIN mid.opens = DOMAIN t.opens
      BY CloseChannelKeeps
  <2>2. Len(mid.chans) = Len(t.chans)
      BY CloseChannelIsSound
  <2>3. next = [mid EXCEPT !.chans = Append(mid.chans, NewChannel(target)), !.active = Len(mid.chans) + 1]
      BY <1>2, <2>2, Zenon DEF GetChannel
  <2> HIDE DEF mid
  <2>4. Kept(next) /\ Gentle(mid, next) /\ next.opens = mid.opens
      BY <2>1, <2>3, AddingKeeps
  <2>5. next.active = Len(mid.chans) + 1
      BY <2>1, <2>3, Zenon DEF Sound, Typed
  <2>6. /\ next.active \notin DOMAIN t.chans
        /\ \A k \in DOMAIN next.opens : next.opens[k].chan # next.active
    <3>1. Len(mid.chans) \in Nat /\ DOMAIN mid.chans = 1..Len(mid.chans)
          /\ \A k \in DOMAIN mid.opens : mid.opens[k].chan \in DOMAIN mid.chans
        BY <2>1, Numbers
    <3> QED BY <2>1, <2>4, <2>5, <3>1
  <2> QED BY <2>1, <2>4, <2>6, GentleTwice
<1> QED BY <1>1, <1>2

\* openForward, until its first await.
LEMMA OpenForwardEffects ==
    ASSUME NEW t, Sound(t), NEW c \in DOMAIN t.chans, t.chans[c].forwarding = 0, NEW endpoint \in Endpoints,
           NEW next, next = OpenForward(t, c, endpoint), NEW n, n = Len(t.opens) + 1,
           NEW mid, mid = Close(t, c, "start", n)
    PROVE  /\ Sound(next) /\ next.active = t.active /\ n \notin DOMAIN t.opens
           /\ DOMAIN next.opens = DOMAIN t.opens \union {n} /\ DOMAIN next.chans = DOMAIN t.chans
           /\ next.opens[n] = [chan |-> c, endpoint |-> endpoint, stage |-> "reserve", port |-> "none"]
           /\ \A k \in DOMAIN t.opens : next.opens[k] = mid.opens[k]
           /\ next.chans[c].forwarded = 0
           /\ \A d \in DOMAIN t.chans : /\ d # c => next.chans[d] = t.chans[d]
                                        /\ next.chans[d].child = mid.chans[d].child
           /\ next.exits = mid.exits
<1> DEFINE opening == [chan |-> c, endpoint |-> endpoint, stage |-> "reserve", port |-> "none"]
           chan == [mid.chans[c] EXCEPT !.forwarding = n]
<1>1. n \in Nat /\ n \notin DOMAIN t.opens /\ "start" \in {"left", "start", "failed"} /\ Sound(next)
    BY Numbers, OpenForwardIsSound
<1>2. /\ Sound(mid) /\ mid.active = t.active
      /\ DOMAIN mid.chans = DOMAIN t.chans /\ DOMAIN mid.opens = DOMAIN t.opens
      /\ mid.chans[c].forwarded = 0
      /\ \A d \in DOMAIN t.chans : d # c => mid.chans[d] = t.chans[d]
    BY <1>1, CloseEffects
<1>3. next = [mid EXCEPT !.chans[c].forwarding = n, !.opens = Append(mid.opens, opening)]
    BY Zenon DEF OpenForward
<1>4. /\ next.chans = [mid.chans EXCEPT ![c] = chan] /\ next.opens = Append(mid.opens, opening)
      /\ next.active = mid.active /\ next.exits = mid.exits
  <2> HIDE DEF opening
  <2>1. Typed(mid)
      BY <1>2 DEF Sound
  <2> QED BY <1>3, <2>1, Zenon DEF Typed
<1>5. chan.forwarded = 0 /\ chan.child = mid.chans[c].child
  <2>1. mid.chans[c] \in Chans
      BY <1>2, Numbers
  <2> QED BY <1>1, <1>2, <2>1, Zenon DEF Chans
<1>6. opening \in Openings
  <2>1. c \in Nat
      BY Numbers
  <2> QED BY <2>1 DEF Openings
<1> HIDE DEF opening, chan
<1>7. mid.opens \in Seq(Openings) /\ Len(mid.opens) = Len(t.opens) /\ mid.chans \in Seq(Chans)
  <2>1. mid.opens \in Seq(Openings) /\ mid.chans \in Seq(Chans)
      BY <1>2 DEF Sound, Typed
  <2>2. t.opens \in Seq(Openings)
      BY DEF Sound, Typed
  <2> QED BY <1>2, <2>1, <2>2
<1>8. /\ Len(next.opens) = n /\ next.opens[n] = opening /\ next.opens \in Seq(Openings)
      /\ \A k \in DOMAIN mid.opens : next.opens[k] = mid.opens[k]
    BY <1>4, <1>6, <1>7, AppendProperties
<1>9. DOMAIN next.opens = DOMAIN t.opens \union {n}
    BY <1>8, <1>1, Numbers
<1>10. /\ DOMAIN next.chans = DOMAIN mid.chans /\ next.chans[c] = chan
       /\ \A d \in DOMAIN mid.chans : d # c => next.chans[d] = mid.chans[d]
    BY <1>2, <1>4, <1>7
<1> QED BY <1>1, <1>2, <1>4, <1>5, <1>8, <1>9, <1>10 DEF opening

\* A channel opens another tunnel when what it has is refused or for another endpoint.
LEMMA OpeningKeeps ==
    ASSUME NEW t, Sound(t), Kept(t), NEW c \in DOMAIN t.chans, t.chans[c].forwarding = 0,
           NEW endpoint \in Endpoints, NEW next, next = OpenForward(t, c, endpoint),
           \A k \in DOMAIN t.opens :
               t.opens[k].chan = c /\ t.opens[k].port = "up" /\ t.opens[k].stage = "done" =>
                   t.opens[k].endpoint # endpoint \/ Dropped(t, k, Len(t.opens))
    PROVE  /\ Kept(next) /\ Gentle(t, next) /\ next.active = t.active
           /\ DOMAIN next.opens = DOMAIN t.opens \union {Len(t.opens) + 1}
           /\ Len(t.opens) + 1 \notin DOMAIN t.opens
           /\ next.opens[Len(t.opens) + 1].chan = c /\ next.opens[Len(t.opens) + 1].stage = "reserve"
           /\ DOMAIN next.chans = DOMAIN t.chans
           /\ \A k \in DOMAIN t.opens : next.opens[k].stage = t.opens[k].stage
<1> DEFINE n == Len(t.opens) + 1
           mid == Close(t, c, "start", n)
<1>0. n \in Nat /\ "start" \in {"left", "start", "failed"} /\ \A k \in DOMAIN t.opens : k \in Nat /\ k < n
    BY Numbers
<1>1. /\ Sound(next) /\ next.active = t.active /\ n \notin DOMAIN t.opens
      /\ DOMAIN next.opens = DOMAIN t.opens \union {n} /\ DOMAIN next.chans = DOMAIN t.chans
      /\ next.opens[n] = [chan |-> c, endpoint |-> endpoint, stage |-> "reserve", port |-> "none"]
      /\ \A k \in DOMAIN t.opens : next.opens[k] = mid.opens[k]
      /\ next.chans[c].forwarded = 0
      /\ \A d \in DOMAIN t.chans : /\ d # c => next.chans[d] = t.chans[d]
                                   /\ next.chans[d].child = mid.chans[d].child
      /\ next.exits = mid.exits
    BY OpenForwardEffects
<1>2. /\ DOMAIN mid.opens = DOMAIN t.opens
      /\ \A k \in DOMAIN t.opens :
             /\ mid.opens[k].chan = t.opens[k].chan /\ mid.opens[k].stage = t.opens[k].stage
             /\ mid.opens[k].port = "up" => t.opens[k].port = "up"
      /\ mid.exits = t.exits \union {[chan |-> c, why |-> "start", of |-> n]}
  <2>0. mid = Close(t, c, "start", n)
      OBVIOUS
  <2> HIDE DEF mid, n
  <2>1. /\ DOMAIN mid.opens = DOMAIN t.opens
        /\ \A k \in DOMAIN t.opens :
               /\ mid.opens[k].chan = t.opens[k].chan /\ mid.opens[k].stage = t.opens[k].stage
               /\ mid.opens[k].port = IF k = t.chans[c].child /\ t.opens[k].port = "starting"
                                      THEN "down" ELSE t.opens[k].port
        /\ mid.exits = t.exits \union {[chan |-> c, why |-> "start", of |-> n]}
      BY <1>0, <2>0, CloseEffects
  <2> QED BY <2>1
<1>3. Gentle(t, mid)
    BY <1>0, CloseIsGentle
<1>4. \A k \in DOMAIN t.opens : ChildListens(mid, k)
    BY <1>0, CloseKeepsChildren
<1> HIDE DEF mid, n
<1>5. Gentle(t, next)
    BY <1>1, <1>2, <1>3 DEF Gentle, Follows, OpeningFollows
<1>6. \A k \in DOMAIN t.opens : /\ next.opens[k].chan = t.opens[k].chan /\ next.opens[k].stage = t.opens[k].stage
                                /\ next.opens[k].port = "up" => t.opens[k].port = "up"
                                /\ t.opens[k].chan \in DOMAIN t.chans
    BY <1>1, <1>2, Numbers
<1>7. \A k \in DOMAIN t.opens : t.opens[k].chan = c => ~InProgress(t, k)
  <2>1. \A k \in DOMAIN t.opens : InProgress(t, k) => t.chans[t.opens[k].chan].forwarding = k
      BY Numbers
  <2> QED BY <1>0, <2>1, Numbers
<1>8. ASSUME NEW k \in DOMAIN t.opens, t.opens[k].chan # c
      PROVE  LastOf(next, k) <=> LastOf(t, k)
    BY <1>1, <1>6, <1>8 DEF LastOf
<1>9. ASSUME NEW k \in DOMAIN t.opens, t.opens[k].chan = c
      PROVE  ~LastOf(next, k)
    BY <1>0, <1>1, <1>6, <1>9 DEF LastOf
<1>10. ASSUME NEW k \in DOMAIN t.opens
       PROVE  OpeningKept(next, k)
  <2>0. OpeningKept(t, k)
      BY DEF Kept
  <2>1. ChildListens(next, k)
      BY <1>1, <1>2, <1>4, <1>6 DEF ChildListens
  <2>2. InProgress(next, k) => LastOf(next, k)
      BY <1>6, <1>7, <1>8, <2>0 DEF InProgress, OpeningKept
  <2>3. ActiveHasLast(next, k)
    <3>1. ASSUME LastOf(next, k), next.opens[k].stage = "done", next.opens[k].chan = next.active
          PROVE  next.chans[next.active].forwarded = k
      <4>1. t.opens[k].chan # c /\ LastOf(t, k)
          BY <1>8, <1>9, <3>1
      <4>2. t.chans[t.active].forwarded = k
          BY <1>1, <1>6, <2>0, <3>1, <4>1 DEF OpeningKept, ActiveHasLast
      <4> QED BY <1>1, <1>6, <3>1, <4>1, <4>2
    <3> QED BY <3>1 DEF ActiveHasLast
  <2>4. ASSUME NEW j \in DOMAIN next.opens, k < j, next.opens[j].chan = next.opens[k].chan,
               next.opens[k].port = "up"
        PROVE  Dropped(next, k, j)
    <3>0. t.opens[k].port = "up" /\ Follows(t, next)
        BY <1>5, <1>6, <2>4 DEF Gentle
    <3>1. CASE j \in DOMAIN t.opens
      <4>1. Dropped(t, k, j)
          BY <1>6, <2>0, <2>4, <3>0, <3>1 DEF OpeningKept, ReplacedAfter
      <4>2. j \in Nat /\ j <= Len(t.opens)
          BY <3>1, Numbers
      <4> QED BY <3>0, <4>1, <4>2, DroppedStays
    <3>2. CASE j = n
      <4>1. t.opens[k].chan = c
          BY <1>1, <1>6, <2>4, <3>2
      <4>2. CASE t.opens[k].stage = "done" /\ t.opens[k].endpoint # endpoint
        <5>1. /\ next.opens[n].chan = next.opens[k].chan
              /\ next.opens[n].endpoint # next.opens[k].endpoint
            BY <1>1, <1>6, <3>0, <4>1, <4>2 DEF Follows, OpeningFollows
        <5>2. n \in (k + 1)..n
            BY <1>0
        <5> QED BY <3>2, <5>1, <5>2 DEF Dropped
      <4>3. CASE Dropped(t, k, Len(t.opens))
        <5>1. Dropped(next, k, Len(t.opens))
            BY <3>0, <4>3, DroppedStays, Numbers
        <5>2. (k + 1)..Len(t.opens) \subseteq (k + 1)..n
            BY <1>0, Numbers DEF n
        <5> QED BY <3>2, <5>1, <5>2 DEF Dropped
      <4>4. CASE t.opens[k].stage = "failed"
          BY <1>6, <4>4 DEF Dropped
      <4>5. t.opens[k].stage \in {"done", "failed"}
        <5>1. t.opens[k] \in Openings
            BY Numbers
        <5> QED BY <1>7, <4>1, <5>1 DEF InProgress, Openings
      <4> QED BY <3>0, <4>1, <4>2, <4>3, <4>4, <4>5
    <3> QED BY <1>1, <3>1, <3>2
  <2> QED BY <2>1, <2>2, <2>3, <2>4 DEF OpeningKept, ReplacedAfter
<1>11. OpeningKept(next, n)
  <2>1. next.opens[n].port = "none" /\ next.opens[n].stage = "reserve"
      BY <1>1
  <2>2. LastOf(next, n)
      BY <1>0, <1>1 DEF LastOf
  <2> QED BY <2>1, <2>2 DEF OpeningKept, ChildListens, ActiveHasLast, ReplacedAfter
<1>12. ASSUME NEW d \in DOMAIN next.chans, next.chans[d].forwarded # 0
       PROVE  LastOf(next, next.chans[d].forwarded)
  <2>1. d # c /\ next.chans[d] = t.chans[d] /\ d \in DOMAIN t.chans
      BY <1>1, <1>12
  <2>2. t.chans[d].forwarded \in DOMAIN t.opens /\ t.opens[t.chans[d].forwarded].chan = d
      BY <1>12, <2>1, OwnTunnel
  <2>3. LastOf(t, t.chans[d].forwarded)
      BY <1>12, <2>1 DEF Kept
  <2> QED BY <1>8, <2>1, <2>2, <2>3
<1>13. \A e \in next.exits : ExitIsOf(next, e)
  <2>1. ASSUME NEW e \in t.exits PROVE ExitIsOf(next, e)
    <3>1. ExitIsOf(t, e)
        BY DEF Kept
    <3> QED BY <1>1, <1>6, <3>1 DEF ExitIsOf
  <2>2. ExitIsOf(next, [chan |-> c, why |-> "start", of |-> n])
      BY <1>1 DEF ExitIsOf
  <2> QED BY <1>1, <1>2, <2>1, <2>2
<1>14. Kept(next)
    BY <1>1, <1>10, <1>11, <1>12, <1>13 DEF Kept
<1> QED BY <1>1, <1>5, <1>6, <1>14 DEF n

\* An opening in progress fails, whose child is not about to listen.
LEMMA SettledEffects ==
    ASSUME NEW t, Sound(t), NEW k \in DOMAIN t.opens, InProgress(t, k), NEW stage \in {"done", "failed"},
           NEW next, next = Settled(t, k, stage)
    PROVE  /\ Sound(next) /\ next.active = t.active /\ next.exits = t.exits
           /\ DOMAIN next.opens = DOMAIN t.opens /\ DOMAIN next.chans = DOMAIN t.chans
           /\ \A j \in DOMAIN t.opens : j # k => next.opens[j] = t.opens[j]
           /\ next.opens[k].stage = stage /\ next.opens[k].port = t.opens[k].port
           /\ next.opens[k].chan = t.opens[k].chan /\ next.opens[k].endpoint = t.opens[k].endpoint
           /\ \A d \in DOMAIN t.chans : /\ next.chans[d].forwarded = t.chans[d].forwarded
                                        /\ next.chans[d].child = t.chans[d].child
<1> DEFINE c    == t.opens[k].chan
           o    == [t.opens[k] EXCEPT !.stage = stage]
           chan == [t.chans[c] EXCEPT !.forwarding = 0]
<1>1. /\ t.chans \in Seq(Chans) /\ t.opens \in Seq(Openings) /\ c \in DOMAIN t.chans
      /\ t.chans[c] \in Chans /\ t.opens[k] \in Openings
    BY DEF Sound, Typed, Linked
<1>2. chan.forwarded = t.chans[c].forwarded /\ chan.child = t.chans[c].child
    BY <1>1, Zenon DEF Chans
<1>3. o.stage = stage /\ o.port = t.opens[k].port /\ o.chan = c /\ o.endpoint = t.opens[k].endpoint
    BY <1>1, Zenon DEF Openings
<1>4. /\ next.chans = [t.chans EXCEPT ![c] = chan] /\ next.opens = [t.opens EXCEPT ![k] = o]
      /\ next.active = t.active /\ next.exits = t.exits
    BY Zenon DEF Settled, Sound, Typed
<1>5. Sound(next)
    BY SettledIsSound
<1> HIDE DEF chan, o
<1> QED BY <1>1, <1>2, <1>3, <1>4, <1>5

\* Two openings in progress, or the last of a channel and one in progress, are the same.
LEMMA OneLast ==
    ASSUME NEW t, Sound(t), Kept(t), NEW k \in DOMAIN t.opens, InProgress(t, k),
           NEW j \in DOMAIN t.opens, t.opens[j].chan = t.opens[k].chan, LastOf(t, j) \/ InProgress(t, j)
    PROVE  j = k
<1>1. LastOf(t, k) /\ LastOf(t, j)
    BY DEF Kept, OpeningKept
<1>2. j <= k /\ k <= j /\ j \in Nat /\ k \in Nat
    BY <1>1, Numbers DEF LastOf
<1> QED BY <1>2

\* Nothing changes but one opening in progress, that stays so, and the child of its channel.
LEMMA ProgressKeeps ==
    ASSUME NEW t, Sound(t), Kept(t), NEW k \in DOMAIN t.opens, InProgress(t, k), NEW next, Sound(next),
           next.active = t.active, next.exits = t.exits,
           DOMAIN next.opens = DOMAIN t.opens, DOMAIN next.chans = DOMAIN t.chans,
           \A j \in DOMAIN t.opens : j # k => next.opens[j] = t.opens[j],
           next.opens[k].chan = t.opens[k].chan, next.opens[k].endpoint = t.opens[k].endpoint,
           InProgress(next, k), t.opens[k].port = "up" => next.opens[k].port = "up",
           \A d \in DOMAIN t.chans :
               /\ next.chans[d].forwarded = t.chans[d].forwarded
               /\ next.chans[d].child = t.chans[d].child \/ d = t.opens[k].chan,
           ChildListens(next, k)
    PROVE  Kept(next) /\ Gentle(t, next) /\ EndsNone(t, next)
<1>1. Gentle(t, next)
    BY DEF Gentle, Follows, OpeningFollows, InProgress
<1>2. ASSUME NEW j \in DOMAIN t.opens
      PROVE  ChildListens(next, j) /\ (LastOf(t, j) => ActiveHasLast(next, j))
  <2>1. CASE j = k
      BY <2>1 DEF ActiveHasLast, InProgress
  <2>2. CASE j # k
    <3>1. OpeningKept(t, j) /\ next.opens[j] = t.opens[j] /\ t.opens[j].chan \in DOMAIN t.chans
        BY <2>2, Numbers DEF Kept
    <3>2. ASSUME next.opens[j].port = "starting"
          PROVE  next.opens[j].stage = "wait" /\ next.chans[next.opens[j].chan].child = j
      <4>1. t.opens[j].stage = "wait" /\ t.chans[t.opens[j].chan].child = j
          BY <3>1, <3>2 DEF OpeningKept, ChildListens
      <4>2. t.opens[j].chan # t.opens[k].chan
          BY <2>2, <4>1, OneLast DEF InProgress
      <4> QED BY <3>1, <4>1, <4>2
    <3>3. LastOf(t, j) => ActiveHasLast(next, j)
        BY <3>1 DEF OpeningKept, ActiveHasLast
    <3>4. next.opens[j].stage = "reserve" => next.opens[j].port = "none"
        BY <3>1 DEF OpeningKept, ChildListens
    <3> QED BY <3>2, <3>3, <3>4 DEF ChildListens
  <2> QED BY <2>1, <2>2
<1>3. \A e \in next.exits : ExitIsOf(next, e)
  <2>1. ASSUME NEW e \in t.exits PROVE ExitIsOf(next, e)
    <3>1. ExitIsOf(t, e)
        BY DEF Kept
    <3> QED BY <1>1, <3>1 DEF ExitIsOf, Gentle, Follows, OpeningFollows
  <2> QED BY <2>1
<1>4. Kept(next)
    BY <1>1, <1>2, <1>3, KeptStays DEF Gentle
<1>5. EndsNone(t, next)
    BY DEF EndsNone, InProgress
<1> QED BY <1>1, <1>4, <1>5

\* An opening in progress fails, after the close of its channel or without it.
LEMMA SettlingKeeps ==
    ASSUME NEW t, Sound(t), Kept(t), NEW k \in DOMAIN t.opens, InProgress(t, k), NEW mid, Sound(mid),
           Gentle(t, mid), mid.active = t.active,
           DOMAIN mid.opens = DOMAIN t.opens, DOMAIN mid.chans = DOMAIN t.chans,
           \A j \in DOMAIN t.opens : mid.opens[j].stage = t.opens[j].stage,
           \A j \in DOMAIN t.opens : ChildListens(mid, j),
           mid.opens[k].port # "starting",
           \A d \in DOMAIN t.chans : \/ mid.chans[d].forwarded = t.chans[d].forwarded
                                     \/ d = t.opens[k].chan /\ mid.chans[d].forwarded = 0,
           \A e \in mid.exits : ExitIsOf(mid, e),
           NEW next, next = Settled(mid, k, "failed")
    PROVE  Kept(next) /\ Gentle(t, next) /\ EndsNone(t, next)
<1>1. InProgress(mid, k) /\ k \in DOMAIN mid.opens /\ "failed" \in {"done", "failed"}
    BY DEF InProgress
<1>2. /\ Sound(next) /\ next.active = mid.active /\ next.exits = mid.exits
      /\ DOMAIN next.opens = DOMAIN mid.opens /\ DOMAIN next.chans = DOMAIN mid.chans
      /\ \A j \in DOMAIN mid.opens : j # k => next.opens[j] = mid.opens[j]
      /\ next.opens[k].stage = "failed" /\ next.opens[k].port = mid.opens[k].port
      /\ next.opens[k].chan = mid.opens[k].chan /\ next.opens[k].endpoint = mid.opens[k].endpoint
      /\ \A d \in DOMAIN mid.chans : /\ next.chans[d].forwarded = mid.chans[d].forwarded
                                     /\ next.chans[d].child = mid.chans[d].child
    BY <1>1, SettledEffects
<1>3. Gentle(mid, next)
    BY <1>1, <1>2 DEF Gentle, Follows, OpeningFollows
<1>4. Gentle(t, next)
    BY <1>3, GentleTwice
<1>5. \A j \in DOMAIN t.opens : mid.opens[j].chan = t.opens[j].chan /\ mid.opens[j].chan \in DOMAIN mid.chans
    BY Numbers DEF Gentle, Follows, OpeningFollows
<1>6. ASSUME NEW j \in DOMAIN t.opens
      PROVE  ChildListens(next, j)
    BY <1>2, <1>5 DEF ChildListens
<1>7. ASSUME NEW j \in DOMAIN t.opens, LastOf(t, j)
      PROVE  ActiveHasLast(next, j)
  <2>1. CASE j = k
      BY <1>2, <2>1 DEF ActiveHasLast
  <2>2. CASE j # k
    <3>1. t.opens[j].chan # t.opens[k].chan
        BY <1>7, <2>2, OneLast
    <3>2. next.opens[j].chan = t.opens[j].chan /\ next.opens[j].stage = t.opens[j].stage
        BY <1>2, <1>5, <2>2
    <3>3. t.opens[j].chan \in DOMAIN t.chans /\ ActiveHasLast(t, j)
        BY Numbers DEF Kept, OpeningKept
    <3> QED BY <1>2, <1>7, <3>1, <3>2, <3>3 DEF ActiveHasLast
  <2> QED BY <2>1, <2>2
<1>8. \A d \in DOMAIN next.chans :
          next.chans[d].forwarded = 0
          \/ (d \in DOMAIN t.chans /\ next.chans[d].forwarded = t.chans[d].forwarded)
    BY <1>2
<1>9. \A e \in next.exits : ExitIsOf(next, e)
  <2>1. \A j \in DOMAIN mid.opens : next.opens[j].chan = mid.opens[j].chan
      BY <1>2
  <2> QED BY <1>2, <2>1 DEF ExitIsOf
<1>10. Kept(next)
    BY <1>2, <1>4, <1>6, <1>7, <1>8, <1>9, KeptStays DEF Gentle
<1>11. EndsNone(t, next)
    BY <1>2 DEF EndsNone
<1> QED BY <1>4, <1>10, <1>11

LEMMA FailsKeeps ==
    ASSUME NEW t, Sound(t), Kept(t), NEW k \in DOMAIN t.opens, InProgress(t, k), NEW next, next = Fails(t, k)
    PROVE  Kept(next) /\ Gentle(t, next) /\ EndsNone(t, next)
<1> DEFINE c   == t.opens[k].chan
           mid == Close(t, c, "failed", k)
<1>0. mid = Close(t, c, "failed", k) /\ next = Settled(mid, k, "failed")
    BY DEF Fails
<1> HIDE DEF mid
<1>1. c \in DOMAIN t.chans /\ k \in Nat /\ "failed" \in {"left", "start", "failed"}
    BY Numbers
<1>2. /\ Sound(mid) /\ mid.active = t.active
      /\ DOMAIN mid.chans = DOMAIN t.chans /\ DOMAIN mid.opens = DOMAIN t.opens
      /\ mid.chans[c].forwarded = 0
      /\ \A d \in DOMAIN t.chans : d # c => mid.chans[d] = t.chans[d]
      /\ \A j \in DOMAIN t.opens : mid.opens[j].chan = t.opens[j].chan /\ mid.opens[j].stage = t.opens[j].stage
      /\ mid.exits = t.exits \union {[chan |-> c, why |-> "failed", of |-> k]}
    BY <1>0, <1>1, CloseEffects
<1>3. Gentle(t, mid)
    BY <1>0, <1>1, CloseIsGentle
<1>4. /\ \A j \in DOMAIN t.opens : ChildListens(mid, j)
      /\ mid.opens[k].port # "starting"
    BY <1>0, <1>1, <1>2, CloseKeepsChildren
<1>5. \A e \in mid.exits : ExitIsOf(mid, e)
  <2>1. ASSUME NEW e \in t.exits PROVE ExitIsOf(mid, e)
    <3>1. ExitIsOf(t, e)
        BY DEF Kept
    <3> QED BY <1>2, <3>1 DEF ExitIsOf
  <2>2. ExitIsOf(mid, [chan |-> c, why |-> "failed", of |-> k])
      BY <1>2 DEF ExitIsOf
  <2> QED BY <1>2, <2>1, <2>2
<1>6. \A d \in DOMAIN t.chans : \/ mid.chans[d].forwarded = t.chans[d].forwarded
                                \/ d = t.opens[k].chan /\ mid.chans[d].forwarded = 0
    BY <1>2
<1>7. \A j \in DOMAIN t.opens : mid.opens[j].stage = t.opens[j].stage
    BY <1>2
<1> HIDE DEF c
<1> QED BY <1>0, <1>2, <1>3, <1>4, <1>5, <1>6, <1>7, SettlingKeeps

LEMMA ReservesKeeps ==
    ASSUME Sound(ssh), Kept(ssh), NEW k \in DOMAIN ssh.opens, Reserves(k)
    PROVE  Kept(ssh') /\ Gentle(ssh, ssh') /\ EndsNone(ssh, ssh')
<1> DEFINE c    == ssh.opens[k].chan
           o    == [ssh.opens[k] EXCEPT !.stage = "wait", !.port = "starting"]
           chan == [ssh.chans[c] EXCEPT !.child = k]
           next == [ssh EXCEPT !.opens[k].stage = "wait", !.opens[k].port = "starting",
                               !.chans[c].child = k]
<1>1. /\ InProgress(ssh, k) /\ ssh.opens[k].stage = "reserve" /\ c \in DOMAIN ssh.chans /\ k \in Nat
      /\ ssh.opens[k] \in Openings /\ ssh.chans[c] \in Chans
    BY OpeningFacts DEF Reserves, InProgress
<1>2. ssh.opens[k].port # "starting" /\ \A j \in DOMAIN ssh.opens : ChildListens(ssh, j)
    BY <1>1 DEF Kept, OpeningKept, ChildListens
<1>3. CASE ssh' = Settled(ssh, k, "failed")
  <2>1. \A e \in ssh.exits : ExitIsOf(ssh, e)
      BY DEF Kept
  <2> QED BY <1>1, <1>2, <1>3, <2>1, GentleSame, SettlingKeeps
<1>4. ASSUME ssh' = next
      PROVE  Kept(ssh') /\ Gentle(ssh, ssh') /\ EndsNone(ssh, ssh')
  <2>1. o.stage = "wait" /\ o.port = "starting" /\ o.chan = c /\ o.endpoint = ssh.opens[k].endpoint
      BY <1>1, Zenon DEF Openings
  <2>2. chan.child = k /\ chan.forwarded = ssh.chans[c].forwarded
      BY <1>1, Zenon DEF Chans
  <2>3. /\ ssh'.opens = [ssh.opens EXCEPT ![k] = o] /\ ssh'.chans = [ssh.chans EXCEPT ![c] = chan]
        /\ ssh'.active = ssh.active /\ ssh'.exits = ssh.exits
      BY <1>1, <1>4, Zenon DEF Sound, Typed
  <2> HIDE DEF o, chan, next
  <2>4. Sound(ssh')
      BY ReservesIsSafe
  <2>5. ssh.opens \in Seq(Openings) /\ ssh.chans \in Seq(Chans)
      BY DEF Sound, Typed
  <2>6. /\ DOMAIN ssh'.opens = DOMAIN ssh.opens /\ DOMAIN ssh'.chans = DOMAIN ssh.chans
        /\ ssh'.opens[k] = o /\ ssh'.chans[c] = chan
        /\ \A j \in DOMAIN ssh.opens : j # k => ssh'.opens[j] = ssh.opens[j]
        /\ \A d \in DOMAIN ssh.chans : d # c => ssh'.chans[d] = ssh.chans[d]
      BY <1>1, <2>3, <2>5
  <2>7. /\ InProgress(ssh', k) /\ ChildListens(ssh', k)
        /\ ssh'.opens[k].chan = ssh.opens[k].chan /\ ssh'.opens[k].endpoint = ssh.opens[k].endpoint
      BY <2>1, <2>2, <2>6 DEF InProgress, ChildListens
  <2>8. \A d \in DOMAIN ssh.chans : /\ ssh'.chans[d].forwarded = ssh.chans[d].forwarded
                                    /\ ssh'.chans[d].child = ssh.chans[d].child \/ d = ssh.opens[k].chan
      BY <2>2, <2>6
  <2>9. ssh.opens[k].port # "up"
      BY <1>1, <1>2 DEF ChildListens
  <2> QED BY <1>1, <2>3, <2>4, <2>6, <2>7, <2>8, <2>9, ProgressKeeps
<1> QED BY <1>3, <1>4 DEF Reserves

LEMMA OpeningChanges ==
    ASSUME Sound(ssh), NEW k \in DOMAIN ssh.opens, NEW o,
           NEW next, next = [ssh EXCEPT !.opens = [ssh.opens EXCEPT ![k] = o]]
    PROVE  /\ next.active = ssh.active /\ next.exits = ssh.exits /\ next.chans = ssh.chans
           /\ DOMAIN next.opens = DOMAIN ssh.opens /\ next.opens[k] = o
           /\ \A j \in DOMAIN ssh.opens : j # k => next.opens[j] = ssh.opens[j]
<1>1. /\ next.opens = [ssh.opens EXCEPT ![k] = o] /\ next.chans = ssh.chans
      /\ next.active = ssh.active /\ next.exits = ssh.exits
    BY Zenon DEF Sound, Typed
<1>2. ssh.opens \in Seq(Openings)
    BY DEF Sound, Typed
<1> QED BY <1>1, <1>2

LEMMA WaitedKeeps ==
    ASSUME Sound(ssh), Kept(ssh), NEW k \in DOMAIN ssh.opens, Waited(k)
    PROVE  Kept(ssh') /\ Gentle(ssh, ssh') /\ EndsNone(ssh, ssh')
<1>1. InProgress(ssh, k) /\ ssh.opens[k] \in Openings /\ Sound(ssh')
    BY OpeningFacts, WaitedIsSafe DEF Waited, InProgress
<1>2. CASE ssh' = Fails(ssh, k)
    BY <1>1, <1>2, FailsKeeps
<1>3. CASE ssh.opens[k].port = "up" /\ ssh' = [ssh EXCEPT !.opens[k].stage = "probe"]
  <2> DEFINE o == [ssh.opens[k] EXCEPT !.stage = "probe"]
  <2>1. o.stage = "probe" /\ o.port = "up" /\ o.chan = ssh.opens[k].chan /\ o.endpoint = ssh.opens[k].endpoint
      BY <1>1, <1>3, Zenon DEF Openings
  <2>2. ssh' = [ssh EXCEPT !.opens = [ssh.opens EXCEPT ![k] = o]]
      BY <1>3, Zenon DEF Sound, Typed
  <2> HIDE DEF o
  <2>3. /\ ssh'.active = ssh.active /\ ssh'.exits = ssh.exits /\ ssh'.chans = ssh.chans
        /\ DOMAIN ssh'.opens = DOMAIN ssh.opens /\ ssh'.opens[k] = o
        /\ \A j \in DOMAIN ssh.opens : j # k => ssh'.opens[j] = ssh.opens[j]
      BY <2>2, OpeningChanges
  <2>4. InProgress(ssh', k) /\ ChildListens(ssh', k)
      BY <2>1, <2>3 DEF InProgress, ChildListens
  <2> QED BY <1>1, <2>1, <2>3, <2>4, ProgressKeeps
<1> QED BY <1>2, <1>3 DEF Waited

LEMMA DetachesKeeps ==
    ASSUME Sound(ssh), Kept(ssh), NEW k \in DOMAIN ssh.opens, Detaches(k)
    PROVE  Kept(ssh') /\ Gentle(ssh, ssh') /\ EndsNone(ssh, ssh')
<1>1. PICK port \in {"up", "down"} : ssh' = [ssh EXCEPT !.opens[k].port = port]
    BY DEF Detaches
<1> DEFINE o == [ssh.opens[k] EXCEPT !.port = port]
<1>2. ssh.opens[k] \in Openings /\ ssh.opens[k].port = "starting" /\ Sound(ssh')
    BY OpeningFacts, DetachesIsSafe DEF Detaches
<1>3. ssh.opens[k].stage = "wait" /\ InProgress(ssh, k)
    BY <1>2 DEF Kept, OpeningKept, ChildListens, InProgress
<1>4. o.port = port /\ o.chan = ssh.opens[k].chan /\ o.stage = "wait" /\ o.endpoint = ssh.opens[k].endpoint
    BY <1>2, <1>3, Zenon DEF Openings
<1>5. ssh' = [ssh EXCEPT !.opens = [ssh.opens EXCEPT ![k] = o]]
    BY <1>1, Zenon DEF Sound, Typed
<1> HIDE DEF o
<1>6. /\ ssh'.active = ssh.active /\ ssh'.exits = ssh.exits /\ ssh'.chans = ssh.chans
      /\ DOMAIN ssh'.opens = DOMAIN ssh.opens /\ ssh'.opens[k] = o
      /\ \A j \in DOMAIN ssh.opens : j # k => ssh'.opens[j] = ssh.opens[j]
    BY <1>5, OpeningChanges
<1>7. InProgress(ssh', k) /\ ChildListens(ssh', k)
    BY <1>4, <1>6 DEF InProgress, ChildListens
<1> QED BY <1>2, <1>3, <1>4, <1>6, <1>7, ProgressKeeps

\* probeForward ends: the tunnel is the one that the channel gives.
LEMMA ProbedKeeps ==
    ASSUME Sound(ssh), Kept(ssh), NEW k \in DOMAIN ssh.opens, Probed(k)
    PROVE  /\ Kept(ssh') /\ Gentle(ssh, ssh') /\ ssh'.active = ssh.active
           /\ DOMAIN ssh'.opens = DOMAIN ssh.opens /\ DOMAIN ssh'.chans = DOMAIN ssh.chans
           /\ \A j \in DOMAIN ssh.opens :
                  ssh'.opens[j].stage = "done" =>
                      ssh.opens[j].stage = "done" \/ ChecksAreShort(ssh.opens[j].chan)
<1> DEFINE c    == ssh.opens[k].chan
           mid  == Settled(ssh, k, "done")
           chan == [mid.chans[c] EXCEPT !.forwarded = k]
<1>1. /\ InProgress(ssh, k) /\ ssh.opens[k].stage = "probe" /\ c \in DOMAIN ssh.chans /\ k \in Nat
      /\ Sound(ssh')
    BY OpeningFacts, ProbedIsSafe DEF Probed, InProgress
<1>2. CASE ssh' = Fails(ssh, k)
  <2>1. Kept(ssh') /\ Gentle(ssh, ssh') /\ EndsNone(ssh, ssh')
      BY <1>1, <1>2, FailsKeeps
  <2> QED BY <2>1 DEF EndsNone
<1>3. CASE ssh' = [mid EXCEPT !.chans[c].forwarded = k]
  <2>1. /\ Sound(mid) /\ mid.active = ssh.active /\ mid.exits = ssh.exits
        /\ DOMAIN mid.opens = DOMAIN ssh.opens /\ DOMAIN mid.chans = DOMAIN ssh.chans
        /\ \A j \in DOMAIN ssh.opens : j # k => mid.opens[j] = ssh.opens[j]
        /\ mid.opens[k].stage = "done" /\ mid.opens[k].port = ssh.opens[k].port
        /\ mid.opens[k].chan = ssh.opens[k].chan /\ mid.opens[k].endpoint = ssh.opens[k].endpoint
        /\ \A d \in DOMAIN ssh.chans : /\ mid.chans[d].forwarded = ssh.chans[d].forwarded
                                       /\ mid.chans[d].child = ssh.chans[d].child
      BY <1>1, SettledEffects
  <2> HIDE DEF mid
  <2>2. mid.chans \in Seq(Chans) /\ mid.chans[c] \in Chans
      BY <1>1, <2>1 DEF Sound, Typed
  <2>3. chan.child = mid.chans[c].child /\ chan.forwarded = k
      BY <1>1, <2>2, Zenon DEF Chans
  <2>4. /\ ssh'.chans = [mid.chans EXCEPT ![c] = chan] /\ ssh'.opens = mid.opens
        /\ ssh'.active = mid.active /\ ssh'.exits = mid.exits
      BY <1>3, <2>1, Zenon DEF Sound, Typed
  <2> HIDE DEF chan
  <2>5. /\ DOMAIN ssh'.chans = DOMAIN ssh.chans /\ ssh'.chans[c] = chan
        /\ \A d \in DOMAIN ssh.chans : d # c => ssh'.chans[d] = mid.chans[d]
      BY <1>1, <2>1, <2>2, <2>4
  <2>6. Gentle(ssh, ssh')
      BY <1>1, <2>1, <2>4 DEF Gentle, Follows, OpeningFollows
  <2>7. ASSUME NEW j \in DOMAIN ssh.opens
        PROVE  ChildListens(ssh', j) /\ (LastOf(ssh, j) => ActiveHasLast(ssh', j))
    <3>1. OpeningKept(ssh, j) /\ OpeningKept(ssh, k) /\ ssh.opens[j].chan \in DOMAIN ssh.chans
        BY Numbers DEF Kept
    <3>2. ssh'.opens[j].chan = ssh.opens[j].chan
          /\ ssh'.chans[ssh.opens[j].chan].child = ssh.chans[ssh.opens[j].chan].child
        BY <2>1, <2>3, <2>4, <2>5, <3>1
    <3>3. CASE j = k
      <4>1. ssh'.opens[k].port # "starting" /\ ssh'.opens[k].stage = "done"
          BY <1>1, <2>1, <2>4, <3>1 DEF OpeningKept, ChildListens
      <4> QED BY <2>1, <2>3, <2>4, <2>5, <3>3, <4>1 DEF ChildListens, ActiveHasLast
    <3>4. CASE j # k
      <4>1. ChildListens(ssh', j)
          BY <2>1, <2>4, <3>1, <3>2, <3>4 DEF OpeningKept, ChildListens
      <4>2. ASSUME LastOf(ssh, j)
            PROVE  ActiveHasLast(ssh', j)
        <5>1. ssh.opens[j].chan # c
            BY <1>1, <3>4, <4>2, OneLast
        <5>2. ssh'.chans[ssh.opens[j].chan] = mid.chans[ssh.opens[j].chan]
            BY <2>5, <3>1, <5>1
        <5> QED BY <2>1, <2>4, <3>1, <3>4, <4>2, <5>2 DEF OpeningKept, ActiveHasLast
      <4> QED BY <4>1, <4>2
    <3> QED BY <3>3, <3>4
  <2>8. \A d \in DOMAIN ssh'.chans :
            \/ d \in DOMAIN ssh.chans /\ ssh'.chans[d].forwarded = ssh.chans[d].forwarded
            \/ ssh'.chans[d].forwarded = k
      BY <2>1, <2>3, <2>5
  <2>9. \A e \in ssh'.exits : ExitIsOf(ssh', e)
    <3>1. ASSUME NEW e \in ssh.exits PROVE ExitIsOf(ssh', e)
      <4>1. ExitIsOf(ssh, e)
          BY DEF Kept
      <4> QED BY <2>6, <4>1 DEF ExitIsOf, Gentle, Follows, OpeningFollows
    <3> QED BY <2>1, <2>4, <3>1
  <2>10. DOMAIN ssh'.opens = DOMAIN ssh.opens
      BY <2>1, <2>4
  <2>11. Kept(ssh')
      BY <1>1, <2>6, <2>7, <2>8, <2>9, <2>10, KeptStays DEF Gentle
  <2>12. ChecksAreShort(ssh.opens[k].chan)
      BY DEF Probed
  <2> QED BY <2>1, <2>4, <2>5, <2>6, <2>10, <2>11, <2>12
<1> QED BY <1>2, <1>3 DEF Probed

\* The ports of a channel close with its master, those of the others do not.
LEMMA MasterKeeps ==
    ASSUME Sound(ssh), Kept(ssh), NEW c, NEW exits \in SUBSET ssh.exits,
           ssh' = [ssh EXCEPT !.opens = WithoutMaster(c), !.exits = exits]
    PROVE  /\ Kept(ssh') /\ Follows(ssh, ssh') /\ DOMAIN ssh'.opens = DOMAIN ssh.opens
           /\ ssh'.chans = ssh.chans /\ ssh'.active = ssh.active /\ ssh'.exits = exits
           /\ \A k \in DOMAIN ssh.opens :
                  /\ ssh'.opens[k].stage = ssh.opens[k].stage
                  /\ ssh'.opens[k].port = IF ssh.opens[k].port = "up" /\ ssh.opens[k].chan = c
                                          THEN "down" ELSE ssh.opens[k].port
<1>0. Sound(ssh')
    BY MasterEnds
<1>1. /\ ssh'.opens = WithoutMaster(c) /\ ssh'.chans = ssh.chans /\ ssh'.active = ssh.active
      /\ ssh'.exits = exits
    BY Zenon DEF Sound, Typed
<1>2. DOMAIN ssh'.opens = DOMAIN ssh.opens
    BY <1>1 DEF WithoutMaster
<1>3. ASSUME NEW k \in DOMAIN ssh.opens
      PROVE  /\ ssh'.opens[k].chan = ssh.opens[k].chan /\ ssh'.opens[k].endpoint = ssh.opens[k].endpoint
             /\ ssh'.opens[k].stage = ssh.opens[k].stage
             /\ ssh'.opens[k].port = IF ssh.opens[k].port = "up" /\ ssh.opens[k].chan = c
                                     THEN "down" ELSE ssh.opens[k].port
  <2>1. ssh.opens[k] \in Openings
      BY OpeningFacts
  <2>2. ControlPath(ssh, ssh.opens[k].chan) = ControlPath(ssh, c) <=> ssh.opens[k].chan = c
      BY DEF ControlPath
  <2>3. ssh'.opens[k] = IF ssh.opens[k].port = "up" /\ ssh.opens[k].chan = c
                        THEN [ssh.opens[k] EXCEPT !.port = "down"] ELSE ssh.opens[k]
      BY <1>1, <2>2 DEF WithoutMaster
  <2> QED BY <2>1, <2>3 DEF Openings
<1>4. Follows(ssh, ssh')
    BY <1>2, <1>3 DEF Follows, OpeningFollows
<1>5. ASSUME NEW k \in DOMAIN ssh.opens
      PROVE  ChildListens(ssh', k) /\ (LastOf(ssh, k) => ActiveHasLast(ssh', k))
  <2>1. OpeningKept(ssh, k)
      BY DEF Kept
  <2> QED BY <1>1, <1>3, <2>1 DEF OpeningKept, ChildListens, ActiveHasLast
<1>6. \A e \in ssh'.exits : ExitIsOf(ssh', e)
  <2>1. ASSUME NEW e \in ssh.exits PROVE ExitIsOf(ssh', e)
    <3>1. ExitIsOf(ssh, e)
        BY DEF Kept
    <3> QED BY <1>2, <1>3, <3>1 DEF ExitIsOf
  <2> QED BY <1>1, <2>1
<1>7. \A d \in DOMAIN ssh'.chans : d \in DOMAIN ssh.chans /\ ssh'.chans[d].forwarded = ssh.chans[d].forwarded
    BY <1>1
<1>8. Kept(ssh')
    BY <1>0, <1>2, <1>4, <1>5, <1>6, <1>7, KeptStays
<1> QED BY <1>1, <1>2, <1>3, <1>4, <1>8

-----------------------------------------------------------------------------
(* The calls, and the steps that go on with them *)

\* What a call checks is the last tunnel of its channel.
ChecksLast(t, r) ==
    r.pc = "checking" =>
        \A k \in DOMAIN t.opens :
            t.opens[k].chan = r.chan /\ t.opens[k].stage = "done" => k <= r.tunnel

\* The channel of an operation is never the shared one, and opens one tunnel, which is
\* over when the operation is.
HasItsOwn(t, r) ==
    /\ r.pc \in {"idle", "waiting", "got", "failed", "closed"}
    /\ r.pc # "idle" => r.chan \in DOMAIN t.chans /\ r.chan # t.active
    /\ \A k \in DOMAIN t.opens :
           r.pc # "idle" /\ t.opens[k].chan = r.chan =>
               /\ k = r.tunnel
               /\ r.pc # "waiting" => t.opens[k].stage \in {"done", "failed"}
               /\ r.pc = "closed" /\ t.opens[k].port = "up" => \E e \in t.exits : e.chan = r.chan

\* Calls of the shared channel check no tunnel of an operation.
Apart(r, own) == r.pc = "checking" /\ own.pc # "idle" => r.chan # own.chan

CallsKept ==
    /\ \A u \in Users : ChecksLast(ssh, call[u])
    /\ \A p \in Probes : HasItsOwn(ssh, call[p]) /\ \A u \in Users : Apart(call[u], call[p])

\* What a step may do beside the calls: a new opening is not of a channel of an
\* operation, a probe ends only when nobody checks, and an exit that has landed has
\* stopped what it was for.
GoesOnBeside ==
    /\ Follows(ssh, ssh') /\ DOMAIN ssh.chans \subseteq DOMAIN ssh'.chans
    /\ ssh'.active \in {0, ssh.active} \/ ssh'.active \notin DOMAIN ssh.chans
    /\ \A k \in DOMAIN ssh'.opens \ DOMAIN ssh.opens :
           /\ ssh'.opens[k].stage = "reserve"
           /\ \A p \in Probes : call[p].pc # "idle" => ssh'.opens[k].chan # call[p].chan
    /\ \A k \in DOMAIN ssh.opens :
           ssh'.opens[k].stage = "done" =>
               ssh.opens[k].stage = "done" \/ ChecksAreShort(ssh.opens[k].chan)
    /\ \A e \in ssh.exits :
           \/ e \in ssh'.exits
           \/ \A k \in DOMAIN ssh'.opens : ssh'.opens[k].chan = e.chan => ssh'.opens[k].port # "up"

LEMMA ChecksStay ==
    ASSUME CallsKept, GoesOnBeside, NEW u \in Users
    PROVE  ChecksLast(ssh', call[u])
<1> SUFFICES ASSUME call[u].pc = "checking", NEW k \in DOMAIN ssh'.opens,
                    ssh'.opens[k].chan = call[u].chan, ssh'.opens[k].stage = "done"
             PROVE  k <= call[u].tunnel
    BY DEF ChecksLast
<1>1. k \in DOMAIN ssh.opens
    BY DEF GoesOnBeside
<1>2. ssh.opens[k].chan = call[u].chan
    BY <1>1 DEF GoesOnBeside, Follows, OpeningFollows
<1>3. ~ChecksAreShort(ssh.opens[k].chan)
    BY <1>2 DEF ChecksAreShort, At
<1>4. ssh.opens[k].stage = "done"
    BY <1>1, <1>3 DEF GoesOnBeside
<1> QED BY <1>1, <1>2, <1>4 DEF CallsKept, ChecksLast

LEMMA OwnStays ==
    ASSUME Sound(ssh), CallsKept, GoesOnBeside, NEW p \in Probes
    PROVE  HasItsOwn(ssh', call[p])
<1>1. HasItsOwn(ssh, call[p])
    BY DEF CallsKept
<1>2. call[p].pc # "idle" => call[p].chan \in DOMAIN ssh'.chans /\ call[p].chan # ssh'.active
  <2>1. \A c \in DOMAIN ssh.chans : c # 0
      BY Numbers
  <2> QED BY <1>1, <2>1 DEF HasItsOwn, GoesOnBeside
<1>3. ASSUME NEW k \in DOMAIN ssh'.opens, call[p].pc # "idle", ssh'.opens[k].chan = call[p].chan
      PROVE  /\ k = call[p].tunnel
             /\ call[p].pc # "waiting" => ssh'.opens[k].stage \in {"done", "failed"}
             /\ call[p].pc = "closed" /\ ssh'.opens[k].port = "up" =>
                    \E e \in ssh'.exits : e.chan = call[p].chan
  <2>1. k \in DOMAIN ssh.opens
      BY <1>3 DEF GoesOnBeside
  <2>2. OpeningFollows(ssh, ssh', k)
      BY <2>1 DEF GoesOnBeside, Follows
  <2>3. ssh.opens[k].chan = call[p].chan
      BY <1>3, <2>2 DEF OpeningFollows
  <2>4. /\ k = call[p].tunnel
        /\ call[p].pc # "waiting" => ssh.opens[k].stage \in {"done", "failed"}
        /\ call[p].pc = "closed" /\ ssh.opens[k].port = "up" => \E e \in ssh.exits : e.chan = call[p].chan
      BY <1>1, <1>3, <2>1, <2>3 DEF HasItsOwn
  <2>5. call[p].pc # "waiting" => ~InProgress(ssh, k) /\ ssh'.opens[k].stage \in {"done", "failed"}
      BY <2>2, <2>4 DEF InProgress, OpeningFollows
  <2>6. ASSUME call[p].pc = "closed", ssh'.opens[k].port = "up"
        PROVE  \E e \in ssh'.exits : e.chan = call[p].chan
    <3>1. ssh.opens[k].port = "up"
        BY <2>2, <2>5, <2>6 DEF OpeningFollows
    <3>2. PICK e \in ssh.exits : e.chan = call[p].chan
        BY <2>4, <2>6, <3>1
    <3> QED BY <1>3, <2>6, <3>2 DEF GoesOnBeside
  <2> QED BY <2>4, <2>5, <2>6
<1> QED BY <1>1, <1>2, <1>3 DEF HasItsOwn

LEMMA CallsAreKept ==
    ASSUME Sound(ssh), CallsKept, GoesOnBeside, UNCHANGED call
    PROVE  CallsKept'
BY ChecksStay, OwnStays DEF CallsKept

\* One call, or one operation, goes on.
LEMMA CallIsKept ==
    ASSUME Sound(ssh), CallsKept, GoesOnBeside, NEW u \in Callers, NEW r,
           call' = [call EXCEPT ![u] = r], DOMAIN call = Users,
           ChecksLast(ssh', r), \A p \in Probes : Apart(r, call[p])
    PROVE  CallsKept'
<1>1. u \in Users /\ u \notin Probes /\ Probes \subseteq Users
    BY TransportAssumption DEF Users
<1>2. call'[u] = r /\ \A v \in Users : v # u => call'[v] = call[v]
    BY <1>1
<1>3. \A v \in Users : ChecksLast(ssh', call'[v])
    BY <1>2, ChecksStay
<1>4. \A p \in Probes : HasItsOwn(ssh', call'[p])
    BY <1>1, <1>2, OwnStays
<1>5. \A p \in Probes, v \in Users : Apart(call'[v], call'[p])
    BY <1>1, <1>2 DEF CallsKept
<1> QED BY <1>3, <1>4, <1>5 DEF CallsKept

LEMMA ProbeIsKept ==
    ASSUME Sound(ssh), CallsKept, GoesOnBeside, NEW p \in Probes, NEW r,
           call' = [call EXCEPT ![p] = r], DOMAIN call = Users,
           HasItsOwn(ssh', r), \A u \in Users : Apart(call[u], r)
    PROVE  CallsKept'
<1>1. p \in Users /\ Probes \subseteq Users /\ r.pc # "checking"
    BY DEF Users, HasItsOwn
<1>2. call'[p] = r /\ \A v \in Users : v # p => call'[v] = call[v]
    BY <1>1
<1>3. \A v \in Users : ChecksLast(ssh', call'[v])
    BY <1>1, <1>2, ChecksStay DEF ChecksLast
<1>4. \A q \in Probes : HasItsOwn(ssh', call'[q])
    BY <1>1, <1>2, OwnStays
<1>5. \A q \in Probes, v \in Users : Apart(call'[v], call'[q])
    BY <1>1, <1>2 DEF CallsKept, Apart
<1> QED BY <1>3, <1>4, <1>5 DEF CallsKept

\* A step that opens nothing and forgets no exit.
LEMMA BesideIsGentle ==
    ASSUME Gentle(ssh, ssh'), DOMAIN ssh'.opens = DOMAIN ssh.opens,
           DOMAIN ssh.chans \subseteq DOMAIN ssh'.chans,
           ssh'.active \in {0, ssh.active} \/ ssh'.active \notin DOMAIN ssh.chans,
           \A k \in DOMAIN ssh.opens :
               ssh'.opens[k].stage = "done" =>
                   ssh.opens[k].stage = "done" \/ ChecksAreShort(ssh.opens[k].chan)
    PROVE  GoesOnBeside
BY DEF GoesOnBeside, Gentle

LEMMA BesideNothing == ASSUME UNCHANGED ssh PROVE GoesOnBeside
BY DEF GoesOnBeside, Follows, OpeningFollows

\* The other tunnels of a channel that listen are given up when it opens another.
LEMMA OthersAreDropped ==
    ASSUME NEW t, Sound(t), Kept(t), NEW j \in DOMAIN t.opens, NEW k \in DOMAIN t.opens, k < j,
           t.opens[k].chan = t.opens[j].chan, t.opens[k].port = "up"
    PROVE  Dropped(t, k, Len(t.opens))
<1>1. Dropped(t, k, j)
    BY DEF Kept, OpeningKept, ReplacedAfter
<1>2. j <= Len(t.opens) /\ j \in Nat /\ k \in Nat /\ Len(t.opens) \in Nat
    BY Numbers
<1>3. (k + 1)..j \subseteq (k + 1)..Len(t.opens)
    BY <1>2
<1> QED BY <1>1, <1>3 DEF Dropped

\* A call for a tunnel, when what the channel has is for another endpoint, or there is none.
LEMMA NoneOfMine ==
    ASSUME NEW t, Sound(t), Kept(t), NEW endpoint, t.active \in DOMAIN t.chans,
           LET f == t.chans[t.active].forwarded IN ~(f # 0 /\ t.opens[f].endpoint = endpoint),
           NEW k \in DOMAIN t.opens, t.opens[k].chan = t.active, t.opens[k].port = "up",
           t.opens[k].stage = "done"
    PROVE  t.opens[k].endpoint # endpoint \/ Dropped(t, k, Len(t.opens))
<1>1. CASE LastOf(t, k)
  <2>1. t.chans[t.active].forwarded = k /\ k # 0
      BY <1>1, Numbers DEF Kept, OpeningKept, ActiveHasLast
  <2> QED BY <2>1
<1>2. CASE ~LastOf(t, k)
  <2>1. PICK j \in DOMAIN t.opens : t.opens[j].chan = t.opens[k].chan /\ ~(j <= k)
      BY <1>2 DEF LastOf
  <2>2. k < j
      BY <2>1, Numbers
  <2> QED BY <2>1, <2>2, OthersAreDropped
<1> QED BY <1>1, <1>2

\* getChannel and closeChannel end no opening.
LEMMA CloseChannelEndsNone ==
    ASSUME NEW t, Sound(t), NEW next, next = CloseChannel(t), NEW k \in DOMAIN t.opens
    PROVE  next.opens[k].stage = t.opens[k].stage
<1>1. CASE t.active = 0
    BY <1>1 DEF CloseChannel
<1>2. CASE t.active # 0
  <2> DEFINE gone == Close(t, t.active, "left", 0)
  <2>1. t.active \in DOMAIN t.chans /\ 0 \in Nat /\ "left" \in {"left", "start", "failed"}
      BY <1>2, Numbers
  <2>2. Sound(gone) /\ gone.opens[k].stage = t.opens[k].stage
      BY <2>1, CloseEffects
  <2>3. next = [gone EXCEPT !.active = 0]
      BY <1>2 DEF CloseChannel
  <2> HIDE DEF gone
  <2>4. next.opens = gone.opens
      BY <2>2, <2>3, Zenon DEF Sound, Typed
  <2> QED BY <2>2, <2>4
<1> QED BY <1>1, <1>2

LEMMA GetChannelEndsNone ==
    ASSUME NEW t, Sound(t), NEW target \in Targets, NEW next, next = GetChannel(t, target),
           NEW k \in DOMAIN t.opens
    PROVE  next.opens[k].stage = t.opens[k].stage
<1>1. CASE t.active # 0 /\ t.chans[t.active].target = target
    BY <1>1 DEF GetChannel
<1>2. CASE ~(t.active # 0 /\ t.chans[t.active].target = target)
  <2> DEFINE mid == CloseChannel(t)
  <2>1. Sound(mid)
      BY CloseChannelIsSound
  <2>2. next = [mid EXCEPT !.chans = Append(mid.chans, NewChannel(target)), !.active = Len(t.chans) + 1]
      BY <1>2, Zenon DEF GetChannel
  <2>3. mid.opens[k].stage = t.opens[k].stage
      BY CloseChannelEndsNone
  <2> HIDE DEF mid
  <2>4. next.opens = mid.opens
      BY <2>1, <2>2, Zenon DEF Sound, Typed
  <2> QED BY <2>3, <2>4
<1> QED BY <1>1, <1>2

\* An opening for a call, on the channel it was given or the one it checks.
LEMMA OpeningIsBeside ==
    ASSUME Sound(ssh), CallsKept, NEW t, Sound(t), Kept(t), Gentle(ssh, t), DOMAIN t.opens = DOMAIN ssh.opens,
           DOMAIN ssh.chans \subseteq DOMAIN t.chans,
           t.active = ssh.active \/ t.active \notin DOMAIN ssh.chans,
           \A k \in DOMAIN ssh.opens : t.opens[k].stage = "done" => ssh.opens[k].stage = "done",
           NEW c \in DOMAIN t.chans, t.chans[c].forwarding = 0,
           \A p \in Probes : call[p].pc # "idle" => c # call[p].chan,
           NEW endpoint \in Endpoints, ssh' = OpenForward(t, c, endpoint),
           \A k \in DOMAIN t.opens :
               t.opens[k].chan = c /\ t.opens[k].port = "up" /\ t.opens[k].stage = "done" =>
                   t.opens[k].endpoint # endpoint \/ Dropped(t, k, Len(t.opens))
    PROVE  Kept(ssh') /\ Gentle(ssh, ssh') /\ GoesOnBeside
<1> DEFINE n == Len(t.opens) + 1
<1>1. /\ Kept(ssh') /\ Gentle(t, ssh') /\ ssh'.active = t.active
      /\ DOMAIN ssh'.opens = DOMAIN t.opens \union {n}
      /\ ssh'.opens[n].chan = c /\ ssh'.opens[n].stage = "reserve"
      /\ DOMAIN ssh'.chans = DOMAIN t.chans
      /\ \A k \in DOMAIN t.opens : ssh'.opens[k].stage = t.opens[k].stage
    BY OpeningKeeps
<1>2. Gentle(ssh, ssh')
    BY <1>1, GentleTwice
<1>3. ASSUME NEW k \in DOMAIN ssh.opens, ssh'.opens[k].stage = "done"
      PROVE  ssh.opens[k].stage = "done"
    BY <1>1, <1>3
<1> HIDE DEF n
<1>4. GoesOnBeside
    BY <1>1, <1>2, <1>3 DEF GoesOnBeside, Gentle
<1> QED BY <1>1, <1>2, <1>4

\* A call has a channel and a tunnel of it, to wait for or to check.
LEMMA CallWithIsKept ==
    ASSUME Sound(ssh), CallsInv, CallsKept, GoesOnBeside, NEW u \in Callers,
           NEW pc \in {"checking", "waiting"}, NEW c \in Nat, NEW k \in Nat,
           call' = [call EXCEPT ![u].pc = pc, ![u].chan = c, ![u].tunnel = k],
           pc = "checking" =>
               /\ \A j \in DOMAIN ssh'.opens :
                      ssh'.opens[j].chan = c /\ ssh'.opens[j].stage = "done" => j <= k
               /\ \A p \in Probes : call[p].pc # "idle" => c # call[p].chan
    PROVE  CallsKept'
<1> DEFINE r == [call[u] EXCEPT !.pc = pc, !.chan = c, !.tunnel = k]
<1>1. u \in Users /\ DOMAIN call = Users /\ call[u] \in Calls
    BY CallTyped DEF Users, CallsInv
<1>2. r.pc = pc /\ r.chan = c /\ r.tunnel = k
    BY <1>1, Zenon DEF Calls
<1>3. call' = [call EXCEPT ![u] = r]
    BY Zenon DEF CallsInv
<1> HIDE DEF r
<1>4. ChecksLast(ssh', r) /\ \A p \in Probes : Apart(r, call[p])
    BY <1>2 DEF ChecksLast, Apart
<1> QED BY <1>1, <1>3, <1>4, CallIsKept

LEMMA AsksKeeps ==
    ASSUME TunnelIInv, Kept(ssh), CallsKept, NEW u \in Callers, Asks(u)
    PROVE  Kept(ssh') /\ Gentle(ssh, ssh') /\ CallsKept'
<1> DEFINE t    == GetChannel(ssh, call[u].target)
           chan == t.chans[t.active]
           mine == chan.forwarded # 0 /\ t.opens[chan.forwarded].endpoint = call[u].endpoint
<1>1. u \in Users /\ call[u].target \in Targets /\ call[u].endpoint \in Endpoints /\ Sound(ssh) /\ CallsInv
    BY CallTyped DEF TunnelIInv, Asks, At, Users, Served
<1>2. /\ Sound(t) /\ t.active \in DOMAIN t.chans /\ DOMAIN ssh.chans \subseteq DOMAIN t.chans
      /\ Kept(t) /\ Gentle(ssh, t) /\ DOMAIN t.opens = DOMAIN ssh.opens
      /\ t.active = ssh.active \/ t.active \notin DOMAIN ssh.chans
      /\ \A k \in DOMAIN ssh.opens : t.opens[k].stage = ssh.opens[k].stage
  <2>0. t = GetChannel(ssh, call[u].target)
      OBVIOUS
  <2>1. Sound(t) /\ Grown(ssh, t) /\ t.active \in DOMAIN t.chans
      BY <1>1, GetChannelIsSound
  <2> HIDE DEF t
  <2>2. /\ Kept(t) /\ Gentle(ssh, t) /\ DOMAIN t.opens = DOMAIN ssh.opens
        /\ \/ t = ssh
           \/ /\ t.active \notin DOMAIN ssh.chans
              /\ \A k \in DOMAIN t.opens : t.opens[k].chan # t.active
      BY <1>1, <2>0, GetChannelKeeps
  <2>3. \A k \in DOMAIN ssh.opens : t.opens[k].stage = ssh.opens[k].stage
      BY <1>1, <2>0, GetChannelEndsNone
  <2>4. DOMAIN ssh.chans \subseteq DOMAIN t.chans
      BY <1>1, <2>1, Numbers DEF Grown
  <2> QED BY <2>1, <2>2, <2>3, <2>4
<1>3. \/ chan.forwarding # 0 /\ ssh' = t /\ Waits(u, t.active, chan.forwarding)
      \/ /\ chan.forwarded # 0 /\ ssh' = t
         /\ call' = [call EXCEPT ![u].pc = "checking", ![u].chan = t.active, ![u].tunnel = chan.forwarded]
      \/ chan.forwarding = 0 /\ ~mine /\ Opens(u, t, t.active)
    BY DEF Asks
<1> HIDE DEF t
<1>4. \A p \in Probes : call[p].pc # "idle" => t.active # call[p].chan
    BY <1>2 DEF CallsKept, HasItsOwn
<1>5. ASSUME ssh' = t
      PROVE  Kept(ssh') /\ Gentle(ssh, ssh') /\ GoesOnBeside
    BY <1>2, <1>5, BesideIsGentle
<1>6. CASE chan.forwarding # 0 /\ ssh' = t /\ Waits(u, t.active, chan.forwarding)
  <2>1. t.active \in Nat /\ chan.forwarding \in Nat
      BY <1>2, <1>6, OwnTunnel, Numbers
  <2>2. call' = [call EXCEPT ![u].pc = "waiting", ![u].chan = t.active, ![u].tunnel = chan.forwarding]
      BY <1>6 DEF Waits
  <2> QED BY <1>1, <1>5, <1>6, <2>1, <2>2, CallWithIsKept
<1>7. CASE /\ chan.forwarded # 0 /\ ssh' = t
           /\ call' = [call EXCEPT ![u].pc = "checking", ![u].chan = t.active, ![u].tunnel = chan.forwarded]
  <2>1. t.active \in Nat /\ chan.forwarded \in Nat
      BY <1>2, <1>7, OwnTunnel, Numbers
  <2>2. LastOf(t, chan.forwarded) /\ t.opens[chan.forwarded].chan = t.active
      BY <1>2, <1>7, OwnTunnel DEF Kept
  <2>3. \A j \in DOMAIN ssh'.opens :
            ssh'.opens[j].chan = t.active /\ ssh'.opens[j].stage = "done" => j <= chan.forwarded
      BY <1>7, <2>2 DEF LastOf
  <2> QED BY <1>1, <1>4, <1>5, <1>7, <2>1, <2>3, CallWithIsKept
<1>8. CASE chan.forwarding = 0 /\ ~mine /\ Opens(u, t, t.active)
  <2>1. ssh' = OpenForward(t, t.active, call[u].endpoint)
      BY <1>8 DEF Opens
  <2>2. \A k \in DOMAIN t.opens :
            t.opens[k].chan = t.active /\ t.opens[k].port = "up" /\ t.opens[k].stage = "done" =>
                t.opens[k].endpoint # call[u].endpoint \/ Dropped(t, k, Len(t.opens))
      BY <1>2, <1>8, NoneOfMine
  <2>3. Kept(ssh') /\ Gentle(ssh, ssh') /\ GoesOnBeside
      BY <1>1, <1>2, <1>4, <1>8, <2>1, <2>2, OpeningIsBeside
  <2>4. t.active \in Nat /\ Len(ssh'.opens) \in Nat
    <3>1. Sound(ssh')
        BY <1>1, <1>2, <1>8, <2>1, OpenForwardIsSound
    <3> QED BY <1>2, <3>1, Numbers
  <2>5. call' = [call EXCEPT ![u].pc = "waiting", ![u].chan = t.active, ![u].tunnel = Len(ssh'.opens)]
      BY <1>8 DEF Opens
  <2> QED BY <1>1, <2>3, <2>4, <2>5, CallWithIsKept
<1> QED BY <1>3, <1>6, <1>7, <1>8

\* A tunnel that is refused when it is checked is the last one of its channel, or nothing
\* listens of the channel that was not given up.
LEMMA CheckedKeeps ==
    ASSUME TunnelIInv, Kept(ssh), CallsKept, NEW u \in Users, Checked(u)
    PROVE  Kept(ssh') /\ Gentle(ssh, ssh') /\ CallsKept'
<1> DEFINE c    == call[u].chan
           m    == call[u].tunnel
           chan == ssh.chans[c]
<1>1. Sound(ssh) /\ CallsInv /\ call[u].pc = "checking"
    BY DEF TunnelIInv, Checked, At
<1>2. u \in Callers
    BY <1>1 DEF CallsKept, HasItsOwn, Users
<1>3. /\ call[u] \in Calls /\ call[u].endpoint \in Endpoints /\ c \in DOMAIN ssh.chans
      /\ m \in DOMAIN ssh.opens /\ ssh.opens[m].chan = c
    BY <1>1, CallTyped DEF Served
<1>4. ASSUME UNCHANGED ssh
      PROVE  Kept(ssh') /\ Gentle(ssh, ssh') /\ GoesOnBeside
    BY <1>4, GentleSame, BesideNothing
<1>5. ASSUME call' = [call EXCEPT ![u].pc = IF chan.forwarded = 0 THEN "crashed" ELSE "got",
                                  ![u].tunnel = chan.forwarded],
             UNCHANGED ssh
      PROVE  CallsKept'
  <2> DEFINE pc == IF chan.forwarded = 0 THEN "crashed" ELSE "got"
             r  == [call[u] EXCEPT !.pc = pc, !.tunnel = chan.forwarded]
  <2>1. call' = [call EXCEPT ![u] = r] /\ DOMAIN call = Users
      BY <1>1, <1>5, Zenon DEF CallsInv
  <2>2. pc # "checking"
      OBVIOUS
  <2> HIDE DEF pc
  <2>3. r.pc = pc
      BY <1>3, Zenon DEF Calls
  <2> HIDE DEF r
  <2>4. ChecksLast(ssh', r) /\ \A p \in Probes : Apart(r, call[p])
      BY <2>2, <2>3 DEF ChecksLast, Apart
  <2> QED BY <1>1, <1>2, <1>4, <1>5, <2>1, <2>4, CallIsKept
<1>6. ASSUME Joins(c), Waits(u, c, chan.forwarding), UNCHANGED ssh
      PROVE  CallsKept'
  <2>1. c \in Nat /\ chan.forwarding \in Nat
      BY <1>1, <1>3, <1>6, OwnTunnel, Numbers DEF Joins
  <2>2. call' = [call EXCEPT ![u].pc = "waiting", ![u].chan = c, ![u].tunnel = chan.forwarding]
      BY <1>6 DEF Waits
  <2> QED BY <1>1, <1>2, <1>4, <1>6, <2>1, <2>2, CallWithIsKept
<1>7. ASSUME ssh.opens[m].port # "up", ~Joins(c), Opens(u, ssh, c)
      PROVE  Kept(ssh') /\ Gentle(ssh, ssh') /\ CallsKept'
  <2>1. ssh' = OpenForward(ssh, c, call[u].endpoint) /\ chan.forwarding = 0
      BY <1>7 DEF Opens, Joins
  <2>2. ASSUME NEW k \in DOMAIN ssh.opens, ssh.opens[k].chan = c, ssh.opens[k].port = "up",
               ssh.opens[k].stage = "done"
        PROVE  Dropped(ssh, k, Len(ssh.opens))
    <3>1. k <= m
        BY <1>1, <2>2 DEF CallsKept, ChecksLast
    <3>2. k < m
        BY <1>1, <1>3, <1>7, <2>2, <3>1, Numbers
    <3> QED BY <1>1, <1>3, <2>2, <3>2, OthersAreDropped
  <2>3. \A p \in Probes : call[p].pc # "idle" => c # call[p].chan
      BY <1>1 DEF CallsKept, Apart
  <2>4. \A k \in DOMAIN ssh.opens :
            ssh.opens[k].chan = c /\ ssh.opens[k].port = "up" /\ ssh.opens[k].stage = "done" =>
                ssh.opens[k].endpoint # call[u].endpoint \/ Dropped(ssh, k, Len(ssh.opens))
      BY <2>2
  <2>5. Gentle(ssh, ssh)
      BY GentleSame
  <2>6. Kept(ssh') /\ Gentle(ssh, ssh') /\ GoesOnBeside
      BY <1>1, <1>3, <2>1, <2>3, <2>4, <2>5, OpeningIsBeside
  <2>7. c \in Nat /\ Len(ssh'.opens) \in Nat
    <3>1. Sound(ssh')
        BY <1>1, <1>3, <2>1, OpenForwardIsSound
    <3> QED BY <1>1, <1>3, <3>1, Numbers
  <2>8. call' = [call EXCEPT ![u].pc = "waiting", ![u].chan = c, ![u].tunnel = Len(ssh'.opens)]
      BY <1>7 DEF Opens
  <2> QED BY <1>1, <1>2, <2>6, <2>7, <2>8, CallWithIsKept
<1> QED BY <1>4, <1>5, <1>6, <1>7 DEF Checked

LEMMA CallGoesOnKeeps ==
    ASSUME TunnelIInv, Kept(ssh), CallsKept, NEW u \in Users,
           (u \in Callers /\ (Reads(u) \/ Leaves(u))) \/ Resumes(u)
    PROVE  Kept(ssh') /\ Gentle(ssh, ssh') /\ CallsKept'
<1>1. Sound(ssh) /\ CallsInv /\ DOMAIN call = Users /\ UNCHANGED ssh /\ call[u] \in Calls
    BY CallTyped DEF TunnelIInv, CallsInv, Reads, Leaves, Resumes
<1>2. Kept(ssh') /\ Gentle(ssh, ssh') /\ GoesOnBeside
    BY <1>1, GentleSame, BesideNothing
<1>3. ASSUME NEW r, u \in Callers, call' = [call EXCEPT ![u] = r], r.pc # "checking"
      PROVE  CallsKept'
  <2>1. ChecksLast(ssh', r) /\ \A p \in Probes : Apart(r, call[p])
      BY <1>3 DEF ChecksLast, Apart
  <2> QED BY <1>1, <1>2, <1>3, <2>1, CallIsKept
<1>4. CASE u \in Callers /\ Reads(u)
  <2> DEFINE r == [call[u] EXCEPT !.pc = "read", !.target = row.target, !.endpoint = row.endpoint]
  <2>1. call' = [call EXCEPT ![u] = r] /\ r.pc = "read"
      BY <1>1, <1>4, Zenon DEF Reads, Calls
  <2> HIDE DEF r
  <2> QED BY <1>2, <1>3, <1>4, <2>1
<1>5. CASE u \in Callers /\ Leaves(u)
  <2>1. call' = [call EXCEPT ![u] = Idle] /\ Idle.pc # "checking"
      BY <1>5 DEF Leaves, Idle
  <2> QED BY <1>2, <1>3, <1>5, <2>1
<1>6. CASE Resumes(u)
  <2>1. PICK pc \in {"got", "failed"} : call' = [call EXCEPT ![u].pc = pc]
      BY <1>6 DEF Resumes
  <2> DEFINE r == [call[u] EXCEPT !.pc = pc]
  <2>2. r.pc = pc /\ r.chan = call[u].chan /\ r.tunnel = call[u].tunnel
      BY <1>1, Zenon DEF Calls
  <2>3. call' = [call EXCEPT ![u] = r]
      BY <1>1, <2>1, Zenon
  <2> HIDE DEF r
  <2>4. CASE u \in Callers
      BY <1>2, <1>3, <2>2, <2>3, <2>4
  <2>5. CASE u \in Probes
    <3>1. call[u].pc = "waiting" /\ ssh.opens[call[u].tunnel].stage \in {"done", "failed"}
        BY <1>6 DEF Resumes, At
    <3>2. HasItsOwn(ssh, call[u])
        BY <2>5 DEF CallsKept
    <3>3. HasItsOwn(ssh', r)
        BY <1>1, <2>2, <3>1, <3>2 DEF HasItsOwn
    <3>4. \A v \in Users : Apart(call[v], r)
        BY <2>2, <2>5, <3>1 DEF CallsKept, Apart
    <3> QED BY <1>1, <1>2, <2>3, <2>5, <3>3, <3>4, ProbeIsKept
  <2> QED BY <2>4, <2>5 DEF Users
<1> QED BY <1>4, <1>5, <1>6

\* withEphemeralSshChannel : a channel that nobody else has, closed when it ends.
LEMMA ProbeBeginsKeeps ==
    ASSUME TunnelIInv, Kept(ssh), CallsKept, NEW p \in Probes, ProbeBegins(p)
    PROVE  Kept(ssh') /\ Gentle(ssh, ssh') /\ CallsKept'
<1>1. Sound(ssh) /\ CallsInv /\ DOMAIN call = Users
    BY DEF TunnelIInv, CallsInv
<1>2. PICK target \in Targets, endpoint \in Endpoints :
          LET c == Len(ssh.chans) + 1
              t == [ssh EXCEPT !.chans = Append(@, NewChannel(target))]
          IN  /\ ssh' = OpenForward(t, c, endpoint)
              /\ call' = [call EXCEPT ![p] = [pc |-> "waiting", target |-> target,
                             endpoint |-> endpoint, chan |-> c, tunnel |-> Len(ssh'.opens)]]
    BY DEF ProbeBegins
<1> DEFINE c == Len(ssh.chans) + 1
           t == [ssh EXCEPT !.chans = Append(ssh.chans, NewChannel(target))]
           n == Len(ssh.opens) + 1
           r == [pc |-> "waiting", target |-> target, endpoint |-> endpoint, chan |-> c,
                 tunnel |-> Len(ssh'.opens)]
<1>3. t = [ssh EXCEPT !.chans = Append(ssh.chans, NewChannel(target)), !.active = ssh.active]
    BY <1>1, Zenon DEF Sound, Typed
<1>4. ssh' = OpenForward(t, c, endpoint) /\ call' = [call EXCEPT ![p] = r]
    BY <1>2
<1> HIDE DEF t
<1>5. /\ Sound(t) /\ Grown(ssh, t) /\ t.active = ssh.active /\ t.opens = ssh.opens
      /\ Len(t.chans) = Len(ssh.chans) + 1
      /\ t.chans[Len(ssh.chans) + 1] = NewChannel(target)
  <2>1. Sound(ssh) /\ ssh.active \in {ssh.active, Len(ssh.chans) + 1}
      BY <1>1
  <2> QED BY <1>3, <2>1, AddedChannel, ZenonT(60)
<1>6. Kept(t) /\ Gentle(ssh, t)
    BY <1>1, <1>3, AddingKeeps
<1>7. /\ c \in DOMAIN t.chans /\ c \notin DOMAIN ssh.chans /\ DOMAIN ssh.chans \subseteq DOMAIN t.chans
      /\ t.chans[c].forwarding = 0 /\ c # ssh.active
    BY <1>1, <1>5, Numbers DEF NewChannel
<1>8. \A k \in DOMAIN t.opens : t.opens[k].chan # c
    BY <1>1, <1>5, <1>7, Numbers
<1>9. \A q \in Probes : call[q].pc # "idle" => c # call[q].chan
    BY <1>7 DEF CallsKept, HasItsOwn
<1>10. Kept(ssh') /\ Gentle(ssh, ssh') /\ GoesOnBeside
    BY <1>1, <1>4, <1>5, <1>6, <1>7, <1>8, <1>9, OpeningIsBeside
<1>11. /\ ssh'.active = ssh.active /\ DOMAIN ssh'.opens = DOMAIN ssh.opens \union {n}
       /\ n \notin DOMAIN ssh.opens /\ DOMAIN ssh'.chans = DOMAIN t.chans
       /\ \A k \in DOMAIN ssh.opens : ssh'.opens[k].chan = ssh.opens[k].chan
  <2>1. /\ Kept(ssh') /\ Gentle(t, ssh') /\ ssh'.active = t.active
        /\ DOMAIN ssh'.opens = DOMAIN t.opens \union {Len(t.opens) + 1}
        /\ Len(t.opens) + 1 \notin DOMAIN t.opens
        /\ ssh'.opens[Len(t.opens) + 1].chan = c /\ ssh'.opens[Len(t.opens) + 1].stage = "reserve"
        /\ DOMAIN ssh'.chans = DOMAIN t.chans
        /\ \A k \in DOMAIN t.opens : ssh'.opens[k].stage = t.opens[k].stage
      BY <1>4, <1>5, <1>6, <1>7, <1>8, OpeningKeeps
  <2> QED BY <1>5, <2>1 DEF Gentle, Follows, OpeningFollows
<1>12. Len(ssh'.opens) = n
  <2>1. Sound(ssh')
      BY <1>4, <1>5, <1>7, OpenForwardIsSound
  <2>2. Len(ssh'.opens) \in Nat /\ DOMAIN ssh'.opens = 1..Len(ssh'.opens)
        /\ Len(ssh.opens) \in Nat /\ DOMAIN ssh.opens = 1..Len(ssh.opens)
      BY <1>1, <2>1, Numbers
  <2>3. n \in 1..Len(ssh'.opens) /\ \A k \in 1..Len(ssh'.opens) : k <= n
      BY <1>11, <2>2
  <2>4. n <= Len(ssh'.opens) /\ (1 <= Len(ssh'.opens) => Len(ssh'.opens) <= n)
      BY <2>2, <2>3
  <2> QED BY <2>2, <2>4
<1>13. r.pc = "waiting" /\ r.chan = c /\ r.tunnel = n
    BY <1>12
<1> HIDE DEF r
<1>14. HasItsOwn(ssh', r)
    BY <1>5, <1>7, <1>8, <1>11, <1>13 DEF HasItsOwn
<1>15. \A u \in Users : Apart(call[u], r)
  <2>1. \A u \in Users : call[u].pc = "checking" => call[u].chan \in DOMAIN ssh.chans
      BY <1>1, CallTyped DEF Served
  <2> QED BY <1>7, <1>13, <2>1 DEF Apart
<1> QED BY <1>1, <1>4, <1>10, <1>14, <1>15, ProbeIsKept

LEMMA ProbeEndsKeeps ==
    ASSUME TunnelIInv, Kept(ssh), CallsKept, NEW p \in Probes, ProbeEnds(p)
    PROVE  Kept(ssh') /\ Gentle(ssh, ssh') /\ CallsKept'
<1> DEFINE c == call[p].chan
<1>1. Sound(ssh) /\ CallsInv /\ DOMAIN call = Users /\ p \in Users /\ call[p] \in Calls
    BY CallTyped DEF TunnelIInv, CallsInv, Users
<1>2. /\ call[p].pc \in {"got", "failed"} /\ HasItsOwn(ssh, call[p])
      /\ ssh' = Close(ssh, c, "left", 0) /\ call' = [call EXCEPT ![p].pc = "closed"]
    BY DEF ProbeEnds, CallsKept
<1>3. c \in DOMAIN ssh.chans /\ c # ssh.active /\ "left" \in {"left", "start", "failed"} /\ 0 \in Nat
    BY <1>2 DEF HasItsOwn
<1>4. /\ Sound(ssh') /\ ssh'.active = ssh.active
      /\ DOMAIN ssh'.chans = DOMAIN ssh.chans /\ DOMAIN ssh'.opens = DOMAIN ssh.opens
      /\ \A k \in DOMAIN ssh.opens : /\ ssh'.opens[k].chan = ssh.opens[k].chan
                                     /\ ssh'.opens[k].stage = ssh.opens[k].stage
      /\ [chan |-> c, why |-> "left", of |-> 0] \in ssh'.exits
  <2>1. /\ Sound(ssh') /\ ssh'.active = ssh.active
        /\ DOMAIN ssh'.chans = DOMAIN ssh.chans /\ DOMAIN ssh'.opens = DOMAIN ssh.opens
        /\ \A k \in DOMAIN ssh.opens : /\ ssh'.opens[k].chan = ssh.opens[k].chan
                                       /\ ssh'.opens[k].stage = ssh.opens[k].stage
        /\ ssh'.exits = ssh.exits \union {[chan |-> c, why |-> "left", of |-> 0]}
      BY <1>1, <1>2, <1>3, CloseEffects
  <2> QED BY <2>1
<1>5. ssh.active \in Nat
    BY <1>1, Numbers
<1>6. Kept(ssh') /\ Gentle(ssh, ssh')
    BY <1>1, <1>2, <1>3, <1>4, <1>5, LeavingKeeps
<1>7. GoesOnBeside
    BY <1>4, <1>6, BesideIsGentle
<1> DEFINE r == [call[p] EXCEPT !.pc = "closed"]
<1>8. r.pc = "closed" /\ r.chan = c /\ r.tunnel = call[p].tunnel
    BY <1>1, Zenon DEF Calls
<1>9. call' = [call EXCEPT ![p] = r]
    BY <1>1, <1>2, Zenon
<1> HIDE DEF r
<1>10. HasItsOwn(ssh', r)
  <2>1. \E e \in ssh'.exits : e.chan = c
      BY <1>4
  <2> QED BY <1>2, <1>4, <1>8, <2>1 DEF HasItsOwn
<1>11. \A u \in Users : Apart(call[u], r)
    BY <1>2, <1>8 DEF CallsKept, Apart
<1> QED BY <1>1, <1>6, <1>7, <1>9, <1>10, <1>11, ProbeIsKept

\* The steps of openForward and of closeChannel.
LEMMA OpeningGoesOnKeeps ==
    ASSUME TunnelIInv, Kept(ssh), CallsKept,
           \/ \E k \in DOMAIN ssh.opens : Reserves(k) \/ Waited(k) \/ Probed(k) \/ Detaches(k)
           \/ CloseDeleted
    PROVE  Kept(ssh') /\ Gentle(ssh, ssh') /\ CallsKept'
<1>1. Sound(ssh) /\ UNCHANGED call
    BY DEF TunnelIInv, Reserves, Waited, Probed, Detaches, CloseDeleted, KeepsCalls
<1>2. ASSUME Kept(ssh'), Gentle(ssh, ssh'), GoesOnBeside
      PROVE  Kept(ssh') /\ Gentle(ssh, ssh') /\ CallsKept'
    BY <1>1, <1>2, CallsAreKept
<1>3. CASE CloseDeleted
  <2>1. ssh' = CloseChannel(ssh)
      BY <1>3 DEF CloseDeleted
  <2>2. /\ Sound(ssh') /\ Kept(ssh') /\ Gentle(ssh, ssh') /\ ssh'.active = 0
        /\ DOMAIN ssh'.chans = DOMAIN ssh.chans /\ DOMAIN ssh'.opens = DOMAIN ssh.opens
      BY <1>1, <2>1, CloseChannelKeeps
  <2>3. \A k \in DOMAIN ssh.opens : ssh'.opens[k].stage = ssh.opens[k].stage
      BY <1>1, <2>1, CloseChannelEndsNone
  <2>4. GoesOnBeside
      BY <2>2, <2>3, BesideIsGentle
  <2> QED BY <1>2, <2>2, <2>4
<1>4. ASSUME NEW k \in DOMAIN ssh.opens, Reserves(k) \/ Waited(k) \/ Detaches(k)
      PROVE  Kept(ssh') /\ Gentle(ssh, ssh') /\ CallsKept'
  <2>1. Kept(ssh') /\ Gentle(ssh, ssh') /\ EndsNone(ssh, ssh')
      BY <1>1, <1>4, ReservesKeeps, WaitedKeeps, DetachesKeeps
  <2>2. GoesOnBeside
      BY <2>1, BesideIsGentle DEF EndsNone
  <2> QED BY <1>2, <2>1, <2>2
<1>5. ASSUME NEW k \in DOMAIN ssh.opens, Probed(k)
      PROVE  Kept(ssh') /\ Gentle(ssh, ssh') /\ CallsKept'
  <2>1. /\ Kept(ssh') /\ Gentle(ssh, ssh') /\ ssh'.active = ssh.active
        /\ DOMAIN ssh'.opens = DOMAIN ssh.opens /\ DOMAIN ssh'.chans = DOMAIN ssh.chans
        /\ \A j \in DOMAIN ssh.opens :
               ssh'.opens[j].stage = "done" =>
                   ssh.opens[j].stage = "done" \/ ChecksAreShort(ssh.opens[j].chan)
      BY <1>1, <1>5, ProbedKeeps
  <2>2. GoesOnBeside
      BY <2>1, BesideIsGentle
  <2> QED BY <1>2, <2>1, <2>2
<1> QED BY <1>3, <1>4, <1>5

\* A master that goes takes the ports of its channel with it, and no other.
LEMMA MasterGoesKeeps ==
    ASSUME TunnelIInv, Kept(ssh), CallsKept, ExitLands \/ ConnectionIsLost
    PROVE  Kept(ssh') /\ CallsKept'
<1>1. Sound(ssh) /\ UNCHANGED call
    BY DEF TunnelIInv, ExitLands, ConnectionIsLost, KeepsCalls
<1>2. ASSUME NEW c, NEW exits \in SUBSET ssh.exits, \A e \in ssh.exits : e \in exits \/ e.chan = c,
             ssh' = [ssh EXCEPT !.opens = WithoutMaster(c), !.exits = exits]
      PROVE  Kept(ssh') /\ CallsKept'
  <2>1. /\ Kept(ssh') /\ Follows(ssh, ssh') /\ DOMAIN ssh'.opens = DOMAIN ssh.opens
        /\ ssh'.chans = ssh.chans /\ ssh'.active = ssh.active /\ ssh'.exits = exits
        /\ \A k \in DOMAIN ssh.opens :
               /\ ssh'.opens[k].stage = ssh.opens[k].stage
               /\ ssh'.opens[k].port = IF ssh.opens[k].port = "up" /\ ssh.opens[k].chan = c
                                       THEN "down" ELSE ssh.opens[k].port
      BY <1>1, <1>2, MasterKeeps
  <2>2. \A e \in ssh.exits :
            \/ e \in ssh'.exits
            \/ \A k \in DOMAIN ssh'.opens : ssh'.opens[k].chan = e.chan => ssh'.opens[k].port # "up"
      BY <1>2, <2>1 DEF Follows, OpeningFollows
  <2>3. GoesOnBeside
      BY <2>1, <2>2 DEF GoesOnBeside
  <2> QED BY <1>1, <2>1, <2>3, CallsAreKept
<1>3. CASE ExitLands
  <2>1. PICK e \in ssh.exits : ssh' = [ssh EXCEPT !.opens = WithoutMaster(e.chan), !.exits = @ \ {e}]
      BY <1>3 DEF ExitLands
  <2>2. ssh' = [ssh EXCEPT !.opens = WithoutMaster(e.chan), !.exits = ssh.exits \ {e}]
      BY <1>1, <2>1, Zenon DEF Sound, Typed
  <2>3. ssh.exits \ {e} \in SUBSET ssh.exits /\ \A x \in ssh.exits : x \in ssh.exits \ {e} \/ x.chan = e.chan
      OBVIOUS
  <2> QED BY <1>2, <2>2, <2>3
<1>4. CASE ConnectionIsLost
  <2>1. PICK k \in DOMAIN ssh.opens : ssh' = [ssh EXCEPT !.opens = WithoutMaster(ssh.opens[k].chan)]
      BY <1>4 DEF ConnectionIsLost
  <2>2. ssh' = [ssh EXCEPT !.opens = WithoutMaster(ssh.opens[k].chan), !.exits = ssh.exits]
      BY <1>1, <2>1, Zenon DEF Sound, Typed
  <2> QED BY <1>2, <2>2
<1> QED BY <1>3, <1>4

\* The invariant of both.
KeptIInv == TunnelIInv /\ Kept(ssh) /\ CallsKept /\ faults \in Nat

LEMMA KeptInit == Init => KeptIInv
<1> SUFFICES ASSUME Init PROVE KeptIInv
    OBVIOUS
<1>1. /\ ssh.chans = <<>> /\ ssh.opens = <<>> /\ ssh.exits = {} /\ call = [u \in Users |-> Idle]
      /\ faults \in Nat /\ Probes \subseteq Users /\ Idle.pc = "idle"
    BY DEF Init, Users, Idle
<1>2. Kept(ssh)
    BY <1>1 DEF Kept
<1>3. CallsKept
    BY <1>1 DEF CallsKept, ChecksLast, HasItsOwn, Apart
<1> QED BY <1>1, <1>2, <1>3, TunnelInit DEF KeptIInv

\* Every step is gentle but those of the processes of `ssh` that a master ends with.
LEMMA StepsKeep ==
    ASSUME KeptIInv, [Next]_vars
    PROVE  /\ Kept(ssh') /\ CallsKept'
           /\ Gentle(ssh, ssh') \/ ExitLands \/ ConnectionIsLost
<1>1. TunnelIInv /\ Kept(ssh) /\ CallsKept
    BY DEF KeptIInv
<1>2. CASE \E u \in Callers : Reads(u) \/ Asks(u) \/ Leaves(u)
    BY <1>1, <1>2, AsksKeeps, CallGoesOnKeeps DEF Users
<1>3. CASE \E u \in Users : Checked(u) \/ Resumes(u)
    BY <1>1, <1>3, CheckedKeeps, CallGoesOnKeeps
<1>4. CASE \E p \in Probes : ProbeBegins(p) \/ ProbeEnds(p)
    BY <1>1, <1>4, ProbeBeginsKeeps, ProbeEndsKeeps
<1>5. CASE \/ \E k \in DOMAIN ssh.opens : Reserves(k) \/ Waited(k) \/ Probed(k) \/ Detaches(k)
           \/ CloseDeleted
    BY <1>1, <1>5, OpeningGoesOnKeeps
<1>6. CASE ExitLands \/ ConnectionIsLost
    BY <1>1, <1>6, MasterGoesKeeps
<1>7. CASE Save \/ Delete \/ UNCHANGED vars
  <2>1. UNCHANGED <<ssh, call>>
      BY <1>7 DEF Save, Delete, vars
  <2>2. Gentle(ssh, ssh')
      BY <2>1, GentleSame
  <2> QED BY <1>1, <2>1, <2>2 DEF CallsKept
<1> QED BY <1>2, <1>3, <1>4, <1>5, <1>6, <1>7 DEF Next

LEMMA FaultsCount ==
    ASSUME faults \in Nat, [Next]_vars
    PROVE  faults' \in Nat /\ (ConnectionIsLost => faults' # faults)
<1>1. CASE Next
  <2>1. faults' = faults \/ Fault
      BY <1>1 DEF Next, Reads, Asks, Leaves, Checked, Resumes, ProbeBegins, ProbeEnds, Reserves,
                  Waited, Probed, Detaches, ExitLands, ConnectionIsLost, Save, Delete, CloseDeleted
  <2>2. Fault => faults' = faults + 1
      BY DEF Fault
  <2>3. ConnectionIsLost => Fault
      BY DEF ConnectionIsLost
  <2> QED BY <2>1, <2>2, <2>3
<1>2. CASE UNCHANGED vars
    BY <1>2 DEF vars, ConnectionIsLost, Fault
<1> QED BY <1>1, <1>2

LEMMA KeptNext == KeptIInv /\ [Next]_vars => KeptIInv'
<1> SUFFICES ASSUME KeptIInv, [Next]_vars PROVE KeptIInv'
    OBVIOUS
<1> QED BY TunnelNext, StepsKeep, FaultsCount DEF KeptIInv

LEMMA KeptProbes == KeptIInv => ProbesAreClosed
<1> SUFFICES ASSUME KeptIInv, NEW p \in Probes, call[p].pc = "closed", NEW k \in DOMAIN ssh.opens,
                    ssh.opens[k].chan = call[p].chan
             PROVE  /\ ~UnderWay(k) /\ ssh.opens[k].port # "starting"
                    /\ ssh.opens[k].port = "up" => \E e \in ssh.exits : e.chan = call[p].chan
    BY DEF ProbesAreClosed, At
<1>1. /\ ssh.opens[k].stage \in {"done", "failed"}
      /\ ssh.opens[k].port = "up" => \E e \in ssh.exits : e.chan = call[p].chan
    BY DEF KeptIInv, CallsKept, HasItsOwn
<1>2. ssh.opens[k].port # "starting"
    BY <1>1 DEF KeptIInv, Kept, OpeningKept, ChildListens
<1> QED BY <1>1, <1>2 DEF UnderWay

\* What an exit that lands stops: it was for a channel that is left, for a tunnel that is
\* given up, or started before the tunnel.
LEMMA ExitStops ==
    ASSUME KeptIInv, ExitLands, NEW k \in DOMAIN ssh.opens,
           ssh.opens[k].port = "up", ssh'.opens[k].port # "up"
    PROVE  \E e \in ssh.exits \ ssh'.exits :
               e.chan = ssh.opens[k].chan /\ (e.why = "left" \/ e.of <= k \/ GivenUp(k, e.of))
<1>1. Sound(ssh) /\ Kept(ssh)
    BY DEF KeptIInv, TunnelIInv
<1>2. PICK e \in ssh.exits : ssh' = [ssh EXCEPT !.opens = WithoutMaster(e.chan), !.exits = @ \ {e}]
    BY DEF ExitLands
<1> DEFINE exits == ssh.exits \ {e}
<1>3. ssh' = [ssh EXCEPT !.opens = WithoutMaster(e.chan), !.exits = exits] /\ exits \in SUBSET ssh.exits
    BY <1>1, <1>2, Zenon DEF Sound, Typed
<1> HIDE DEF exits
<1>4. /\ Kept(ssh') /\ Follows(ssh, ssh') /\ DOMAIN ssh'.opens = DOMAIN ssh.opens
      /\ ssh'.chans = ssh.chans /\ ssh'.active = ssh.active /\ ssh'.exits = exits
      /\ \A j \in DOMAIN ssh.opens :
             /\ ssh'.opens[j].stage = ssh.opens[j].stage
             /\ ssh'.opens[j].port = IF ssh.opens[j].port = "up" /\ ssh.opens[j].chan = e.chan
                                     THEN "down" ELSE ssh.opens[j].port
    BY <1>1, <1>3, MasterKeeps
<1>5. e \in ssh.exits \ ssh'.exits /\ e.chan = ssh.opens[k].chan
    BY <1>4 DEF exits
<1>6. ASSUME e.why # "left", ~(e.of <= k)
      PROVE  GivenUp(k, e.of)
  <2>1. e.of \in DOMAIN ssh.opens /\ ssh.opens[e.of].chan = ssh.opens[k].chan
      BY <1>1, <1>5, <1>6 DEF Kept, ExitIsOf
  <2>2. k < e.of
      BY <1>1, <1>6, <2>1, Numbers
  <2>3. Dropped(ssh, k, e.of)
      BY <1>1, <2>1, <2>2 DEF Kept, OpeningKept, ReplacedAfter
  <2> QED BY <2>3 DEF Dropped, GivenUp
<1> QED BY <1>5, <1>6

\* system-ssh.ts:123 and :131 : the tunnel of a mission is cut neither by a probe nor by
\* another call for the same endpoint: a tunnel that listens stops only when the connection
\* is lost, or by an exit of its own channel that is left, for a tunnel that was refused or
\* asked for another endpoint since, or started before it.
THEOREM TunnelsAreKept == Spec => TunnelIsKept
<1>1. Init => KeptIInv
    BY KeptInit
<1>2. KeptIInv /\ [Next]_vars => KeptIInv'
    BY KeptNext
<1>3. ASSUME KeptIInv, [Next]_vars, NEW k \in DOMAIN ssh.opens,
             ssh.opens[k].port = "up" /\ ssh'.opens[k].port # "up" /\ faults' = faults
      PROVE  \E e \in ssh.exits \ ssh'.exits :
                 /\ e.chan = ssh.opens[k].chan
                 /\ e.why = "left" \/ e.of <= k \/ GivenUp(k, e.of)
  <2>1. ~ConnectionIsLost
      BY <1>3, FaultsCount DEF KeptIInv
  <2>2. ~Gentle(ssh, ssh')
      BY <1>3 DEF Gentle
  <2>3. ExitLands
      BY <1>3, <2>1, <2>2, StepsKeep
  <2> QED BY <1>3, <2>3, ExitStops
<1>4. KeptIInv /\ [Next]_vars =>
          [\A k \in DOMAIN ssh.opens :
              ssh.opens[k].port = "up" /\ ssh'.opens[k].port # "up" /\ faults' = faults =>
                  \E e \in ssh.exits \ ssh'.exits :
                      /\ e.chan = ssh.opens[k].chan
                      /\ e.why = "left" \/ e.of <= k \/ GivenUp(k, e.of)]_vars
    BY <1>3
<1> QED BY <1>1, <1>2, <1>4, PTL DEF Spec, TunnelIsKept

\* index.ts:41 : the operation that has a channel of its own leaves nothing that listens
\* untold to stop, and nothing about to listen, however it ends.
THEOREM ProbesLeaveNothing == Spec => []ProbesAreClosed
<1>1. Init => KeptIInv
    BY KeptInit
<1>2. KeptIInv /\ [Next]_vars => KeptIInv'
    BY KeptNext
<1>3. KeptIInv => ProbesAreClosed
    BY KeptProbes
<1> QED BY <1>1, <1>2, <1>3, PTL DEF Spec

-----------------------------------------------------------------------------
(* The channel by password *)

States == {"connecting", "ready", "ended", "lost", "closed"}

Servers == [conn : Nat, endpoint : Remotes, up : BOOLEAN]

PasswordCalls == [pc : {"idle", "connecting", "testing", "listening", "running",
                "got", "failed", "zero", "nonzero"},
          asks : Remotes \union {Command}, on : Nat]

OneOfTwo == client = 0 \/ connecting = 0

\* What is known of the connections, then TypeOK's other parts.
ConnsInv ==
    /\ conns \in Seq(States) /\ client \in 0..Len(conns) /\ connecting \in 0..Len(conns)
    /\ ConnectionsAreOwned /\ OneOfTwo
ServersTyped == servers \in Seq(Servers) /\ server \in 0..Len(servers) /\ forwarded \in 0..Len(servers)
CallsTyped ==
    /\ ask \in [Askers -> PasswordCalls]
    /\ \A u \in Askers : ask[u].pc = "testing" => ask[u].asks # Command
RestTyped == left \in BOOLEAN /\ losses \in Nat

\* A user who waits for a server to listen has one.
ListensToOne == \A u \in Askers : ask[u].pc = "listening" => ask[u].on \in 1..Len(servers)

Parts == ConnsInv /\ ServersTyped /\ CallsTyped /\ RestTyped

PasswordIInv == Parts /\ ListensToOne

-----------------------------------------------------------------------------
(* The connections *)

\* What leaves the connections alone leaves their ownership alone.
LEMMA SameConnections == ConnsInv /\ UNCHANGED <<conns, client, connecting>> => ConnsInv'
BY DEF ConnsInv, ConnectionsAreOwned, OneOfTwo

\* A call finds the connection in use, waits for the one attempted, or starts one.
LEMMA ConnectIsSafe ==
    ASSUME ConnsInv, CallsTyped, NEW u \in Askers, NEW asks \in Remotes \union {Command},
           Connect(u, asks), UNCHANGED client
    PROVE  ConnsInv' /\ CallsTyped'
<1> USE DEF CallsTyped, PasswordCalls
<1>1. CASE client = 0 /\ connecting = 0 /\ Attempt(u, asks)
  <2>1. /\ conns' \in Seq(States) /\ Len(conns') = Len(conns) + 1
        /\ \A n \in 1..Len(conns) : conns'[n] = conns[n]
        /\ conns'[Len(conns) + 1] = "connecting"
      BY <1>1 DEF Attempt, ConnsInv, States
  <2>2. connecting' = Len(conns) + 1 /\ client' = 0
      BY <1>1, <2>1 DEF Attempt
  <2>3. DOMAIN conns = 1..Len(conns) /\ DOMAIN conns' = 1..(Len(conns) + 1)
      BY <2>1 DEF ConnsInv
  <2>4. ASSUME NEW n \in DOMAIN conns'
        PROVE  (conns'[n] = "ready" => client' = n) /\ (conns'[n] = "connecting" => connecting' = n)
    <3>1. CASE n = Len(conns) + 1
        BY <3>1, <2>1, <2>2
    <3>2. CASE n \in DOMAIN conns
        BY <3>2, <2>1, <2>2, <2>3, <1>1 DEF ConnsInv, ConnectionsAreOwned
    <3> QED BY <3>1, <3>2, <2>3, <2>1 DEF ConnsInv
  <2>5. CallsTyped'
      BY <1>1, <2>1 DEF Attempt, ConnsInv
  <2> QED BY <2>1, <2>2, <2>4, <2>5 DEF ConnsInv, ConnectionsAreOwned, OneOfTwo
<1>2. CASE UNCHANGED <<connecting, conns>>
  <2>1. PICK pc \in {"connecting", Using(asks)}, n \in Nat :
            ask' = [ask EXCEPT ![u] = [pc |-> pc, asks |-> asks, on |-> n]]
      BY <1>2 DEF Connect, ConnsInv, Attempt
  <2>2. pc \in {"connecting", "testing", "running"} /\ (pc = "testing" => asks # Command)
      BY DEF Using
  <2>3. CallsTyped'
      BY <2>1, <2>2
  <2> QED BY <1>2, <2>3, SameConnections
<1>3. (client = 0 /\ connecting = 0 /\ Attempt(u, asks)) \/ UNCHANGED <<connecting, conns>>
    BY DEF Connect
<1> QED BY <1>1, <1>2, <1>3

\* A connection goes to a state in which nobody needs to own it.
LEMMA EndingIsSafe ==
    ASSUME ConnsInv, NEW n \in DOMAIN conns, NEW state \in {"ended", "lost", "closed"},
           conns' = [conns EXCEPT ![n] = state],
           client' \in {client, 0}, connecting' \in {connecting, 0},
           client' # client => client = n, connecting' # connecting => connecting = n
    PROVE  ConnsInv'
<1> USE DEF ConnsInv, States
<1>1. conns' \in Seq(States) /\ Len(conns') = Len(conns) /\ DOMAIN conns' = DOMAIN conns
    OBVIOUS
<1>2. ConnectionsAreOwned'
    BY <1>1 DEF ConnectionsAreOwned
<1> QED BY <1>1, <1>2 DEF OneOfTwo

-----------------------------------------------------------------------------
(* The servers *)

\* A server is started, or stopped.
LEMMA ServersChange ==
    ASSUME servers \in Seq(Servers), NEW f \in [DOMAIN servers -> Servers]
    PROVE  f \in Seq(Servers) /\ Len(f) = Len(servers)
OBVIOUS

LEMMA UpIsTyped ==
    ASSUME NEW r \in Servers, NEW b \in BOOLEAN
    PROVE  [r EXCEPT !.up = b] \in Servers
BY DEF Servers

LEMMA ShutIsTyped ==
    ASSUME servers \in Seq(Servers), NEW s \in DOMAIN servers
    PROVE  Shut(s) \in Seq(Servers) /\ Len(Shut(s)) = Len(servers)
<1>1. Shut(s) \in [DOMAIN servers -> Servers]
  <2>1. servers[s] \in Servers
      OBVIOUS
  <2>2. [servers[s] EXCEPT !.up = FALSE] \in Servers
      BY <2>1, UpIsTyped
  <2>3. Shut(s) = [servers EXCEPT ![s] = [servers[s] EXCEPT !.up = FALSE]]
      BY DEF Shut
  <2> QED BY <2>2, <2>3
<1> QED BY <1>1, ServersChange

\* Servers are never dropped, and Tested alone makes a user listen.
LEMMA ListensToOneStays ==
    ASSUME ListensToOne, ServersTyped, Len(servers') = Len(servers),
           \A u \in Askers : ask'[u].pc = "listening" => ask'[u] = ask[u]
    PROVE  ListensToOne'
BY DEF ListensToOne, ServersTyped

-----------------------------------------------------------------------------
(* The invariant *)

LEMMA PasswordStarts == PasswordInit => PasswordIInv
<1> SUFFICES ASSUME PasswordInit PROVE PasswordIInv
    OBVIOUS
<1>1. ConnsInv
    BY DEF PasswordInit, ConnsInv, ConnectionsAreOwned, OneOfTwo
<1>2. ServersTyped
    BY DEF PasswordInit, ServersTyped
<1>3. CallsTyped /\ RestTyped
    BY DEF PasswordInit, CallsTyped, RestTyped, PasswordCalls
<1> QED BY <1>1, <1>2, <1>3 DEF PasswordIInv, Parts, ListensToOne, PasswordInit

LEMMA PartsStep == PasswordIInv /\ [PasswordNext]_passwordVars => Parts'
<1> SUFFICES ASSUME PasswordIInv, [PasswordNext]_passwordVars PROVE Parts'
    OBVIOUS
<1> USE DEF PasswordIInv, Parts, channel
<1>1. ASSUME NEW u \in Askers, Forward(u) PROVE Parts'
  <2>1. ServersTyped' /\ RestTyped'
      BY <1>1 DEF Forward, ServersTyped, RestTyped
  <2>2. CASE \E endpoint \in Remotes : Connect(u, endpoint)
      BY <2>1, <2>2, <1>1, ConnectIsSafe DEF Forward
  <2>3. CASE \E endpoint \in Remotes :
               /\ UNCHANGED <<connecting, conns>>
               /\ ask' = [ask EXCEPT ![u] = [pc |-> "got", asks |-> endpoint, on |-> forwarded]]
    <3>1. CallsTyped'
        BY <2>3 DEF CallsTyped, PasswordCalls, ServersTyped
    <3> QED BY <2>1, <2>3, <3>1, <1>1, SameConnections DEF Forward
  <2> QED BY <1>1, <2>2, <2>3 DEF Forward
<1>2. ASSUME NEW u \in Askers, Exec(u) PROVE Parts'
    BY <1>2, ConnectIsSafe DEF Exec, ServersTyped, RestTyped
<1>3. ASSUME NEW u \in Askers, Tested(u) PROVE Parts'
  <2>1. CASE Loss /\ ask' = [ask EXCEPT ![u].pc = "failed"] /\ UNCHANGED servers
      BY <2>1, <1>3, SameConnections DEF Tested, Loss, ServersTyped, RestTyped, CallsTyped, PasswordCalls
  <2>2. CASE /\ servers' = Append(servers, [conn |-> ask[u].on, endpoint |-> ask[u].asks, up |-> FALSE])
             /\ ask' = [ask EXCEPT ![u].pc = "listening", ![u].on = Len(servers')]
    <3>1. ask[u].asks \in Remotes
        BY <1>3 DEF Tested, Now, CallsTyped, PasswordCalls
    <3>2. [conn |-> ask[u].on, endpoint |-> ask[u].asks, up |-> FALSE] \in Servers
        BY <3>1 DEF CallsTyped, PasswordCalls, Servers
    <3>3. servers' \in Seq(Servers) /\ Len(servers') = Len(servers) + 1
        BY <2>2, <3>2 DEF ServersTyped
    <3>4. ServersTyped'
        BY <3>3, <1>3 DEF Tested, ServersTyped
    <3>5. CallsTyped'
      <4>1. Len(servers') \in Nat
          BY <3>3
      <4> QED BY <2>2, <4>1 DEF CallsTyped, PasswordCalls
    <3> QED BY <3>4, <3>5, <1>3, SameConnections DEF Tested, Loss, RestTyped
  <2> QED BY <2>1, <2>2, <1>3 DEF Tested
<1>4. ASSUME NEW u \in Askers, Listens(u) PROVE Parts'
  <2>1. CallsTyped'
      BY <1>4 DEF Listens, CallsTyped, PasswordCalls
  <2>2. ASSUME UNCHANGED <<server, forwarded, servers>> PROVE ServersTyped'
      BY <2>2 DEF ServersTyped
  <2>3. ASSUME servers' = [s \in DOMAIN servers |->
                     IF s = ask[u].on THEN [servers[s] EXCEPT !.up = TRUE]
                     ELSE IF s = server THEN [servers[s] EXCEPT !.up = FALSE] ELSE servers[s]],
               server' = ask[u].on, forwarded' = ask[u].on
        PROVE  ServersTyped'
    <3>1. servers' \in [DOMAIN servers -> Servers]
      <4>1. \A s \in DOMAIN servers : servers[s] \in Servers
          BY DEF ServersTyped
      <4>2. \A s \in DOMAIN servers, b \in BOOLEAN : [servers[s] EXCEPT !.up = b] \in Servers
          BY <4>1, UpIsTyped
      <4> QED BY <2>3, <4>1, <4>2
    <3>2. servers' \in Seq(Servers) /\ Len(servers') = Len(servers)
        BY <3>1, ServersChange DEF ServersTyped
    <3>3. ask[u].on \in 0..Len(servers)
        BY <1>4 DEF Listens, Now, ListensToOne, ServersTyped
    <3> QED BY <2>3, <3>2, <3>3 DEF ServersTyped
  <2>4. ServersTyped'
      BY <2>2, <2>3, <1>4 DEF Listens
  <2> QED BY <2>1, <2>4, <1>4, SameConnections DEF Listens, Loss, RestTyped
<1>5. ASSUME NEW u \in Askers, Ends(u) PROVE Parts'
    BY <1>5, SameConnections DEF Ends, ServersTyped, RestTyped, CallsTyped, PasswordCalls
<1>6. ASSUME NEW n \in DOMAIN conns, Ready(n) PROVE Parts'
  <2>1. CallsTyped'
      BY <1>6 DEF Ready, Moved, CallsTyped, PasswordCalls
  <2>2. conns' \in Seq(States) /\ Len(conns') = Len(conns) /\ DOMAIN conns' = DOMAIN conns
      BY <1>6 DEF Ready, ConnsInv, States
  <2>3. connecting = n /\ client = 0
      BY <1>6 DEF Ready, ConnsInv, ConnectionsAreOwned, OneOfTwo
  <2>4. ConnectionsAreOwned'
      BY <2>2, <2>3, <1>6 DEF Ready, ConnsInv, ConnectionsAreOwned, States
  <2>5. ConnsInv'
      BY <2>2, <2>4, <1>6 DEF Ready, ConnsInv, OneOfTwo
  <2> QED BY <2>1, <2>5, <1>6 DEF Ready, ServersTyped, RestTyped
<1>7. ASSUME NEW n \in DOMAIN conns, Rejected(n) PROVE Parts'
  <2>1. CallsTyped'
      BY <1>7 DEF Rejected, Moved, CallsTyped, PasswordCalls
  <2>2. connecting = n
      BY <1>7 DEF Rejected, ConnsInv, ConnectionsAreOwned
  <2>3. ConnsInv'
      BY <2>2, <1>7, EndingIsSafe DEF Rejected
  <2> QED BY <2>1, <2>3, <1>7 DEF Rejected, Loss, ServersTyped, RestTyped
<1>8. ASSUME NEW n \in DOMAIN conns, IsLost(n) PROVE Parts'
  <2>1. ConnsInv'
      BY <1>8, EndingIsSafe DEF IsLost
  <2> QED BY <2>1, <1>8 DEF IsLost, Loss, ServersTyped, RestTyped, CallsTyped
<1>9. ASSUME NEW n \in DOMAIN conns, Closed(n) PROVE Parts'
  <2>1. CallsTyped'
      BY <1>9 DEF Closed, Moved, CallsTyped, PasswordCalls
  <2>2. ServersTyped'
      BY <1>9, ShutIsTyped DEF Closed, ServersTyped
  <2>3. ConnsInv'
      BY <1>9, EndingIsSafe DEF Closed
  <2> QED BY <2>1, <2>2, <2>3, <1>9 DEF Closed, RestTyped
<1>10. CASE OwnerCloses
  <2>1. ServersTyped'
      BY <1>10, ShutIsTyped DEF OwnerCloses, CloseAll, ServersTyped
  <2>2. CASE client # 0 /\ conns[client] = "ready"
    <3>1. client \in DOMAIN conns
        BY <2>2 DEF ConnsInv
    <3>2. ConnsInv'
        BY <2>2, <3>1, <1>10, EndingIsSafe DEF OwnerCloses, CloseAll
    <3> QED BY <2>1, <3>2, <1>10 DEF OwnerCloses, CloseAll, RestTyped, CallsTyped
  <2>3. CASE ~(client # 0 /\ conns[client] = "ready")
    <3>1. ConnsInv'
        BY <2>3, <1>10 DEF OwnerCloses, CloseAll, ConnsInv, ConnectionsAreOwned, OneOfTwo
    <3> QED BY <2>1, <3>1, <1>10 DEF OwnerCloses, CloseAll, RestTyped, CallsTyped
  <2> QED BY <2>2, <2>3
<1>11. CASE UNCHANGED passwordVars
    BY <1>11, SameConnections DEF passwordVars, ServersTyped, RestTyped, CallsTyped
<1> QED BY <1>1, <1>2, <1>3, <1>4, <1>5, <1>6, <1>7, <1>8, <1>9, <1>10, <1>11 DEF PasswordNext

LEMMA ListensStep == PasswordIInv /\ [PasswordNext]_passwordVars => ListensToOne'
<1> SUFFICES ASSUME PasswordIInv, [PasswordNext]_passwordVars PROVE ListensToOne'
    OBVIOUS
<1> USE DEF PasswordIInv, Parts, CallsTyped, PasswordCalls, channel
<1>1. ASSUME NEW u \in Askers, Forward(u) \/ Exec(u) \/ Ends(u) PROVE ListensToOne'
  <2>1. PICK new : new.pc # "listening" /\ ask' = [ask EXCEPT ![u] = new]
      BY <1>1 DEF Forward, Exec, Ends, Connect, Attempt, Using
  <2> QED BY <2>1, <1>1, ListensToOneStays DEF Forward, Exec, Ends
<1>2. ASSUME NEW u \in Askers, Tested(u) PROVE ListensToOne'
  <2>1. CASE ask' = [ask EXCEPT ![u].pc = "failed"] /\ UNCHANGED servers
      BY <2>1 DEF ListensToOne
  <2>2. CASE /\ servers' = Append(servers, [conn |-> ask[u].on, endpoint |-> ask[u].asks, up |-> FALSE])
             /\ ask' = [ask EXCEPT ![u].pc = "listening", ![u].on = Len(servers')]
    <3>1. Len(servers') = Len(servers) + 1 /\ Len(servers) \in Nat
        BY <2>2 DEF ServersTyped
    <3> QED BY <2>2, <3>1 DEF ListensToOne
  <2> QED BY <2>1, <2>2, <1>2 DEF Tested
<1>3. ASSUME NEW u \in Askers, Listens(u) PROVE ListensToOne'
  <2>1. Len(servers') = Len(servers)
      BY <1>3 DEF Listens, ServersTyped
  <2>2. \A v \in Askers : ask'[v].pc = "listening" => ask'[v] = ask[v]
      BY <1>3 DEF Listens
  <2> QED BY <2>1, <2>2, ListensToOneStays
<1>4. ASSUME NEW n \in DOMAIN conns, Ready(n) \/ Rejected(n) \/ Closed(n) PROVE ListensToOne'
  <2>1. Len(servers') = Len(servers)
      BY <1>4, ShutIsTyped DEF Ready, Rejected, Closed, ServersTyped
  <2>2. \A v \in Askers : ask'[v].pc = "listening" => ask'[v] = ask[v]
      BY <1>4 DEF Ready, Rejected, Closed, Moved
  <2> QED BY <2>1, <2>2, ListensToOneStays
<1>5. CASE OwnerCloses
  <2>1. Len(servers') = Len(servers)
      BY <1>5, ShutIsTyped DEF OwnerCloses, CloseAll, ServersTyped
  <2> QED BY <2>1, <1>5, ListensToOneStays DEF OwnerCloses
<1>6. CASE UNCHANGED passwordVars \/ \E n \in DOMAIN conns : IsLost(n)
    BY <1>6 DEF passwordVars, IsLost, ListensToOne
<1> QED BY <1>1, <1>2, <1>3, <1>4, <1>5, <1>6 DEF PasswordNext

LEMMA PasswordStep == PasswordIInv /\ [PasswordNext]_passwordVars => PasswordIInv'
BY PartsStep, ListensStep DEF PasswordIInv

-----------------------------------------------------------------------------
\* The typing of the channel, and every connection that is open, or attempted, is the
\* one it knows: none is left to the keepalive.
THEOREM ConnectionsHaveAnOwner == PasswordSpec => []PasswordInvariant
<1>1. PasswordIInv => PasswordInvariant
    BY DEF PasswordIInv, Parts, ConnsInv, ServersTyped, CallsTyped, RestTyped, States, Servers, PasswordCalls,
           PasswordInvariant, PasswordTypeOK
<1> QED BY PasswordStarts, PasswordStep, <1>1, PTL DEF PasswordSpec

\* Only the owner's close ends a connection that works, whatever event comes late.
THEOREM WorkingConnectionsAreKept == PasswordSpec => OnlyTheOwnerEnds
<1>1. PasswordIInv /\ [PasswordNext]_passwordVars =>
          [\A n \in DOMAIN conns : conns[n] = "ready" /\ conns'[n] = "ended" => left' # left]_passwordVars
  <2> SUFFICES ASSUME PasswordIInv, PasswordNext, NEW n \in DOMAIN conns,
                      conns[n] = "ready", conns'[n] = "ended"
               PROVE  left' # left
      OBVIOUS
  <2> USE DEF PasswordIInv, Parts, ConnsInv
  <2>1. ASSUME NEW u \in Askers, Forward(u) \/ Exec(u) \/ Tested(u) \/ Listens(u) \/ Ends(u)
        PROVE  FALSE
    <3>1. conns' = conns \/ conns' = Append(conns, "connecting")
        BY <2>1 DEF Forward, Exec, Tested, Listens, Ends, Connect, Attempt, channel
    <3> QED BY <3>1
  <2>2. ASSUME NEW m \in DOMAIN conns, Ready(m) \/ Rejected(m) \/ IsLost(m) \/ Closed(m)
        PROVE  FALSE
      BY <2>2 DEF Ready, Rejected, IsLost, Closed
  <2>3. CASE OwnerCloses
      BY <2>3 DEF OwnerCloses
  <2> QED BY <2>1, <2>2, <2>3 DEF PasswordNext
<1> QED BY PasswordStarts, PasswordStep, <1>1, PTL DEF PasswordSpec, OnlyTheOwnerEnds
=============================================================================
