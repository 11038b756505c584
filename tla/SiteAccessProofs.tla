--------------------------- MODULE SiteAccessProofs ---------------------------
(***************************************************************************)
(* The properties of SiteAccess, for every set of users, mandates,         *)
(* conversations and requests.                                             *)
(*                                                                         *)
(* The rows of the site agree because of what a transaction has locked: at *)
(* each step of its plan it holds the lock that keeps true what it has     *)
(* read so far (Knows), no two transactions hold conflicting locks         *)
(* (Exclusive), and nobody else stands between his entry in the ledger and *)
(* his commit (Appended, the lock of the site).  What one transaction      *)
(* writes therefore leaves the others what they know.                      *)
(***************************************************************************)
EXTENDS SiteAccess, FiniteSetTheorems, TLAPS

\* A request as it is kept, and what its operation says of its arguments.
Requested == [op : Ops \union {"none"}, by : Users \union {None}, role : Roles \union {"none"},
              under : Mandates \union {None}, on : Users \union Mandates \union Threads \union {None},
              to : Users \union Roles \union {None},
              stage : {"idle", "locking", "appended", "cancelling", "done"}, step : Nat,
              verdict : {"open", "denied", "missing", "void"}, targets : SUBSET Requests]

WellFormed(q) ==
    /\ q.op = "none" <=> q.stage = "idle"
    /\ q.op # "none" => q.by \in Users
    /\ q.op \in {"create", "send", "transfer"} => q.on \in Threads
    /\ q.op \in {"transfer", "assign", "unassign"} => q.to \in Users
    /\ q.op = "role" => q.on \in Users /\ q.to \in Roles
    /\ q.op \in {"mandate", "assign", "unassign", "revoke"} => q.on \in Mandates
    /\ q.op \notin {"none", "login"} => q.role \in Roles
    /\ q.under # None /\ q.verdict # "denied" => q.role = "operator"
    /\ q.verdict = "missing" => q.op \in {"send", "transfer"}

RequestsTyped == request \in [Requests -> Requested] /\ \A r \in Requests : WellFormed(request[r])

\* Who has asked for something is a member for ever, and a conversation is there
\* for ever.
Lasting(q) ==
    /\ q.op \notin {"none", "login"} => member[q.by] # "none"
    /\ q.op \in {"send", "transfer"} => thread[q.on] # None

Inhabited == \E u \in Users : member[u] # "none"

\* Two locks of an object that conflict are one transaction's.
Exclusive ==
    \A l, m \in held : l[2] = m[2] /\ Conflicts(l[3], m[3]) => l[1] = m[1]

Has(r, object, mode) == <<r, object, mode>> \in held

\* What a transaction has read and locked by the time it is at a step of its plan.
Open(q) == q.stage \in {"locking", "appended"} /\ q.verdict = "open"

CreateKnows(r, q) ==
    /\ thread[q.on] = None
    /\ q.step >= 1 => Has(r, <<"owner", q.by>>, "take") /\ member[q.by] \in OwnerRoles
    /\ q.step >= 4 => Has(r, <<"mandate", q.under>>, "share")

TransferKnows(r, q) ==
    /\ q.step >= 1 => Has(r, <<"thread", q.on>>, "take") /\ (q.role = "admin" \/ thread[q.on] = q.by)
    /\ q.step >= 4 => Has(r, <<"owner", q.to>>, "take") /\ member[q.to] \in OwnerRoles

RoleKnows(r, q) ==
    /\ q.step >= 1 => Has(r, <<"roles">>, "take")
    /\ q.step >= 4 => Has(r, <<"owner", q.on>>, "take") /\ ~Owns(q.on)

RevocationKnows(r, q) ==
    q.step >= 1 => Has(r, <<"mandate", q.on>>, "take") /\ Targets(q) \subseteq q.targets \union slipped

LoginKnows(r, q) ==
    q.step >= 1 => Has(r, <<"bootstrap">>, "take") /\ ~Inhabited

OnPlan(q) == q.step <= Len(Plan(q)) /\ (q.stage = "appended" => q.step = Len(Plan(q)))

Knows(r, q) ==
    /\ OnPlan(q)
    /\ q.op = "create" => CreateKnows(r, q)
    /\ q.op = "send" => (q.step >= 5 => Has(r, <<"mandate", q.under>>, "share"))
    /\ q.op = "transfer" => TransferKnows(r, q)
    /\ q.op = "role" => RoleKnows(r, q)
    /\ q.op \in {"revoke", "unassign"} => RevocationKnows(r, q)
    /\ q.op = "login" => LoginKnows(r, q)

\* Between the entry and the commit: the lock of the site, and the warrant that the
\* trigger has checked.
Appended(r, q) == q.stage = "appended" => Has(r, <<"site">>, "take") /\ Warranted(q) /\ Audited(q)

Sound(r, q) == Lasting(q) /\ (Open(q) => Knows(r, q)) /\ Appended(r, q)

Distinct ==
    \A r, s \in Requests : request[r].op = "create" /\ request[s].op = "create"
                           /\ request[r].on = request[s].on => r = s

Modes == {"share", "change", "take"}

RunRows == [on : Threads \union {None}, author : Users \union {None},
            under : Mandates \union {None}, status : {"none", "active", "ended"}]

Entries == [by : Users, role : Roles, under : Mandates \union {None}, op : Ops]

RowsTyped ==
    /\ member \in [Users -> Roles \union {"none"}]
    /\ mandate \in [Mandates -> {"none", "active", "revoked"}]
    /\ assigned \subseteq Mandates \X Users
    /\ thread \in [Threads -> Users \union {None}]
    /\ runs \in [Requests -> RunRows]
    /\ ledger \in Seq(Entries)
    /\ held \subseteq Requests \X Objects \X Modes
    /\ founders \subseteq Users
    /\ reader \in [Requests -> {"none", "due", "reading"}]
    /\ orphans \subseteq Requests /\ missed \subseteq Requests /\ slipped \subseteq Requests
    /\ faults \in 0 .. MaxFaults

\* The first administrator is there for ever.
Founded == OneFounder /\ (founders # {} => Inhabited)

AccessIInv ==
    /\ RowsTyped /\ RequestsTyped /\ Exclusive
    /\ \A r \in Requests, q \in Requested : request[r] = q => Sound(r, q)
    /\ Distinct /\ OwnersMayOwn /\ Founded /\ RevokedRunsAreFollowed

-----------------------------------------------------------------------------
(* The locks of a plan *)

Lock == Objects \X Modes

LEMMA ObjectsAreTyped ==
    /\ <<"site">> \in Objects /\ <<"roles">> \in Objects
    /\ <<"bootstrap">> \in Objects /\ <<"mandates">> \in Objects
    /\ \A m \in Mandates : <<"mandate", m>> \in Objects
    /\ \A t \in Threads : <<"thread", t>> \in Objects
    /\ \A u \in Users : <<"member", u>> \in Objects /\ <<"owner", u>> \in Objects
<1>1. \A u \in Users : <<"member", u>> \in Objects /\ <<"owner", u>> \in Objects
    BY DEF Objects
<1>2. \A m \in Mandates : <<"mandate", m>> \in Objects
    BY DEF Objects
<1>3. \A t \in Threads : <<"thread", t>> \in Objects
    BY DEF Objects
<1>4. /\ <<"site">> \in Objects /\ <<"roles">> \in Objects
      /\ <<"bootstrap">> \in Objects /\ <<"mandates">> \in Objects
    BY DEF Objects
<1>5. QED
    BY <1>1, <1>2, <1>3, <1>4

LEMMA LocksAreTyped ==
    ASSUME NEW object \in Objects, NEW mode \in Modes
    PROVE  <<object, mode>> \in Lock
BY DEF Lock

\* Short plans, and one plan after another.
LEMMA ShortPlans ==
    /\ <<>> \in Seq(Lock) /\ Len(<<>>) = 0
    /\ \A a \in Lock : <<a>> \in Seq(Lock) /\ Len(<<a>>) = 1 /\ <<a>>[1] = a
    /\ \A a, b \in Lock : <<a, b>> \in Seq(Lock) /\ Len(<<a, b>>) = 2 /\ <<a, b>>[1] = a
    /\ \A a, b, c \in Lock : <<a, b, c>> \in Seq(Lock) /\ Len(<<a, b, c>>) = 3 /\ <<a, b, c>>[1] = a
    /\ \A a, b, c, d \in Lock :
           /\ <<a, b, c, d>> \in Seq(Lock) /\ Len(<<a, b, c, d>>) = 4
           /\ <<a, b, c, d>>[1] = a /\ <<a, b, c, d>>[4] = d
OBVIOUS

LEMMA Joined ==
    ASSUME NEW s \in Seq(Lock), NEW t \in Seq(Lock)
    PROVE  /\ s \o t \in Seq(Lock) /\ Len(s \o t) = Len(s) + Len(t)
           /\ \A i \in 1 .. Len(s) : (s \o t)[i] = s[i]
           /\ \A i \in 1 .. Len(t) : (s \o t)[Len(s) + i] = t[i]
OBVIOUS

\* The locks of the plans.
LEMMA PlanLocks ==
    /\ <<<<"site">>, "share">> \in Lock /\ <<<<"roles">>, "take">> \in Lock
    /\ <<<<"bootstrap">>, "take">> \in Lock /\ <<<<"mandates">>, "take">> \in Lock
    /\ \A m \in Mandates : <<<<"mandate", m>>, "share">> \in Lock /\ <<<<"mandate", m>>, "take">> \in Lock
    /\ \A t \in Threads : <<<<"thread", t>>, "take">> \in Lock
    /\ \A u \in Users : /\ <<<<"owner", u>>, "take">> \in Lock
                        /\ <<<<"member", u>>, "share">> \in Lock
                        /\ <<<<"member", u>>, "change">> \in Lock
                        /\ <<<<"member", u>>, "take">> \in Lock
BY ObjectsAreTyped, LocksAreTyped DEF Modes

LEMMA InsertionLocks ==
    ASSUME NEW owner \in Users, NEW under \in Mandates \union {None}
    PROVE  /\ InsertLocks(owner, under) \in Seq(Lock)
           /\ Len(InsertLocks(owner, under)) = IF under = None THEN 3 ELSE 4
           /\ InsertLocks(owner, under)[1] = <<<<"owner", owner>>, "take">>
           /\ under # None => InsertLocks(owner, under)[4] = <<<<"mandate", under>>, "share">>
<1> DEFINE a == <<<<"owner", owner>>, "take">>
           b == <<<<"site">>, "share">>
           c == <<<<"member", owner>>, "share">>
           d == <<<<"mandate", under>>, "share">>
           first == <<a, b, c>>
           then == IF under = None THEN <<>> ELSE <<d>>
<1>0. a \in Lock /\ b \in Lock /\ c \in Lock /\ (under # None => d \in Lock)
    BY PlanLocks
<1>1. InsertLocks(owner, under) = first \o then
    BY DEF InsertLocks
<1>2. QED
  <2> HIDE DEF a, b, c, d
  <2>1. first \in Seq(Lock) /\ Len(first) = 3 /\ first[1] = a
    BY <1>0, ShortPlans
  <2>2. then \in Seq(Lock) /\ Len(then) = (IF under = None THEN 0 ELSE 1)
        /\ (under # None => then[1] = d)
    BY <1>0, ShortPlans
  <2> HIDE DEF first, then
  <2>3. /\ \A i \in 1 .. Len(first) : (first \o then)[i] = first[i]
        /\ \A i \in 1 .. Len(then) : (first \o then)[Len(first) + i] = then[i]
        /\ first \o then \in Seq(Lock) /\ Len(first \o then) = Len(first) + Len(then)
    BY <2>1, <2>2, Joined
  <2>4. (first \o then)[1] = a /\ (under # None => (first \o then)[4] = d)
    BY <2>1, <2>2, <2>3
  <2>5. InsertLocks(owner, under)[1] = a /\ (under # None => InsertLocks(owner, under)[4] = d)
    BY <1>1, <2>4
  <2>6. InsertLocks(owner, under) \in Seq(Lock)
        /\ Len(InsertLocks(owner, under)) = IF under = None THEN 3 ELSE 4
    BY <1>1, <2>1, <2>2, <2>3
  <2>7. QED
    BY <2>5, <2>6 DEF a, d

\* The plan of each operation, by the steps that the invariant speaks of.
LEMMA CreatePlan ==
    ASSUME NEW q \in Requested, WellFormed(q), q.op = "create"
    PROVE  /\ Plan(q) \in Seq(Lock)
           /\ Len(Plan(q)) = IF q.under = None THEN 3 ELSE 4
           /\ Plan(q)[1] = <<<<"owner", q.by>>, "take">>
           /\ q.under # None => Plan(q)[4] = <<<<"mandate", q.under>>, "share">>
<1>1. q.by \in Users /\ q.under \in Mandates \union {None} /\ Plan(q) = InsertLocks(q.by, q.under)
    BY DEF WellFormed, Requested, Plan
<1>2. PICK owner, under : owner = q.by /\ under = q.under
    OBVIOUS
<1>3. /\ InsertLocks(owner, under) \in Seq(Lock)
      /\ Len(InsertLocks(owner, under)) = IF under = None THEN 3 ELSE 4
      /\ InsertLocks(owner, under)[1] = <<<<"owner", owner>>, "take">>
      /\ under # None => InsertLocks(owner, under)[4] = <<<<"mandate", under>>, "share">>
    BY <1>1, <1>2, InsertionLocks
<1>4. QED
    BY <1>1, <1>2, <1>3

LEMMA SendPlan ==
    ASSUME NEW q \in Requested, WellFormed(q), q.op = "send", thread[q.on] \in Users
    PROVE  /\ Plan(q) \in Seq(Lock)
           /\ Len(Plan(q)) = IF q.under = None THEN 4 ELSE 5
           /\ q.under # None => Plan(q)[5] = <<<<"mandate", q.under>>, "share">>
<1> DEFINE a == <<<<"thread", q.on>>, "take">>
           first == <<a>>
           then == InsertLocks(thread[q.on], q.under)
<1>1. Plan(q) = first \o then
    BY DEF Plan
<1>2. a \in Lock
    BY PlanLocks DEF WellFormed
<1>3. /\ then \in Seq(Lock) /\ Len(then) = IF q.under = None THEN 3 ELSE 4
      /\ q.under # None => then[4] = <<<<"mandate", q.under>>, "share">>
    BY InsertionLocks DEF Requested
<1> HIDE DEF a, then
<1>4. first \in Seq(Lock) /\ Len(first) = 1
    BY <1>2, ShortPlans
<1> HIDE DEF first
<1>5. /\ first \o then \in Seq(Lock) /\ Len(first \o then) = Len(first) + Len(then)
      /\ \A i \in 1 .. Len(then) : (first \o then)[Len(first) + i] = then[i]
    BY <1>3, <1>4, Joined
<1>6. q.under # None => (first \o then)[5] = then[4]
    BY <1>3, <1>4, <1>5
<1>7. QED
    BY <1>1, <1>3, <1>4, <1>5, <1>6

LEMMA TransferPlan ==
    ASSUME NEW q \in Requested, WellFormed(q), q.op = "transfer"
    PROVE  /\ Plan(q) \in Seq(Lock) /\ Len(Plan(q)) = 4
           /\ Plan(q)[1] = <<<<"thread", q.on>>, "take">>
           /\ Plan(q)[4] = <<<<"owner", q.to>>, "take">>
<1> DEFINE a == <<<<"thread", q.on>>, "take">>
           b == <<<<"member", q.by>>, "take">>
           c == <<<<"member", q.to>>, "take">>
           d == <<<<"owner", q.to>>, "take">>
<1>1. a \in Lock /\ b \in Lock /\ c \in Lock /\ d \in Lock
    BY PlanLocks DEF WellFormed
<1>2. Plan(q) = <<a, b, c, d>>
    BY DEF Plan, TransferLocks
<1>3. QED
  <2> HIDE DEF a, b, c, d
  <2>1. Plan(q) \in Seq(Lock) /\ Len(Plan(q)) = 4 /\ Plan(q)[1] = a /\ Plan(q)[4] = d
    BY <1>1, <1>2, ShortPlans
  <2>2. QED
    BY <2>1 DEF a, d

LEMMA RolePlan ==
    ASSUME NEW q \in Requested, WellFormed(q), q.op = "role"
    PROVE  /\ Plan(q) \in Seq(Lock)
           /\ Len(Plan(q)) = IF member[q.on] = "none" \/ q.to \in OwnerRoles THEN 3 ELSE 4
           /\ Plan(q)[1] = <<<<"roles">>, "take">>
           /\ Len(Plan(q)) = 4 => Plan(q)[4] = <<<<"owner", q.on>>, "take">>
<1> DEFINE a == <<<<"roles">>, "take">>
           b == <<<<"member", q.by>>, "take">>
           first == <<a, b>>
           site == <<<<"site">>, "share">>
           row == <<<<"member", q.on>>, "change">>
           owner == <<<<"owner", q.on>>, "take">>
           change == <<row>> \o (IF q.to \in OwnerRoles THEN <<>> ELSE <<owner>>)
           then == IF member[q.on] = "none" THEN <<site>> ELSE change
<1>1. a \in Lock /\ b \in Lock /\ site \in Lock /\ row \in Lock /\ owner \in Lock
    BY PlanLocks DEF WellFormed
<1>2. Plan(q) = first \o then
    BY DEF Plan, RoleLocks
<1>3. QED
  <2> HIDE DEF a, b, site, row, owner
  <2>1. first \in Seq(Lock) /\ Len(first) = 2 /\ first[1] = a
    BY <1>1, ShortPlans
  <2>2. /\ change \in Seq(Lock) /\ Len(change) = (IF q.to \in OwnerRoles THEN 1 ELSE 2)
        /\ q.to \notin OwnerRoles => change[2] = owner
    <3>1. CASE q.to \in OwnerRoles
      BY <1>1, <3>1, ShortPlans, Joined
    <3>2. CASE q.to \notin OwnerRoles
      <4> DEFINE s == <<row>>
                 t == <<owner>>
      <4>1. /\ s \in Seq(Lock) /\ Len(s) = 1
            /\ t \in Seq(Lock) /\ Len(t) = 1 /\ t[1] = owner
        BY <1>1, ShortPlans
      <4>2. change = s \o t
        BY <3>2
      <4> HIDE DEF s, t, change
      <4>3. /\ s \o t \in Seq(Lock) /\ Len(s \o t) = Len(s) + Len(t)
            /\ \A i \in 1 .. Len(t) : (s \o t)[Len(s) + i] = t[i]
        BY <4>1, Joined
      <4>4. QED
        BY <3>2, <4>1, <4>2, <4>3
    <3>3. QED
      BY <3>1, <3>2
  <2> HIDE DEF change
  <2>3. /\ then \in Seq(Lock)
        /\ Len(then) = IF member[q.on] = "none" \/ q.to \in OwnerRoles THEN 1 ELSE 2
        /\ Len(then) = 2 => then[2] = owner
    <3>1. <<site>> \in Seq(Lock) /\ Len(<<site>>) = 1
      BY <1>1, ShortPlans
    <3>2. CASE member[q.on] = "none"
      <4>1. then = <<site>>
        BY <3>2
      <4>2. QED
        BY <3>1, <3>2, <4>1
    <3>3. CASE member[q.on] # "none"
      <4>1. then = change
        BY <3>3
      <4>2. QED
        BY <2>2, <3>3, <4>1
    <3>4. QED
      BY <3>2, <3>3
  <2> HIDE DEF first, then
  <2>4. /\ first \o then \in Seq(Lock) /\ Len(first \o then) = Len(first) + Len(then)
        /\ \A i \in 1 .. Len(first) : (first \o then)[i] = first[i]
        /\ \A i \in 1 .. Len(then) : (first \o then)[Len(first) + i] = then[i]
    BY <2>1, <2>3, Joined
  <2>5. (first \o then)[1] = a /\ (Len(then) = 2 => (first \o then)[4] = owner)
    BY <2>1, <2>3, <2>4
  <2>6. /\ Plan(q) \in Seq(Lock) /\ Plan(q)[1] = a
        /\ Len(Plan(q)) = IF member[q.on] = "none" \/ q.to \in OwnerRoles THEN 3 ELSE 4
        /\ Len(Plan(q)) = 4 => Plan(q)[4] = owner
    BY <1>2, <2>1, <2>3, <2>4, <2>5
  <2>7. QED
    BY <2>6 DEF a, owner

LEMMA OtherPlans ==
    ASSUME NEW q \in Requested, WellFormed(q), q.op \notin {"create", "send", "transfer", "role"}
    PROVE  /\ Plan(q) \in Seq(Lock)
           /\ q.op \in {"revoke", "unassign"} =>
                  /\ Len(Plan(q)) = 1 /\ Plan(q)[1] = <<<<"mandate", q.on>>, "take">>
           /\ q.op \in {"mandate", "assign"} => Len(Plan(q)) = 2
           /\ q.op = "login" =>
                  /\ Len(Plan(q)) = 2 /\ Plan(q)[1] = <<<<"bootstrap">>, "take">>
           /\ q.op \in {"none", "deny"} => Len(Plan(q)) = 0
<1>1. CASE q.op \in {"revoke", "unassign"}
  <2>1. <<<<"mandate", q.on>>, "take">> \in Lock /\ Plan(q) = <<<<<<"mandate", q.on>>, "take">>>>
    BY <1>1, PlanLocks DEF WellFormed, Plan
  <2>2. QED
    BY <1>1, <2>1, ShortPlans
<1>2. CASE q.op = "mandate"
  <2>1. Plan(q) = <<<<<<"mandates">>, "take">>, <<<<"site">>, "share">>>>
    BY <1>2 DEF Plan
  <2>2. QED
    BY <1>2, <2>1, PlanLocks, ShortPlans
<1>3. CASE q.op = "assign"
  <2>1. /\ Plan(q) = <<<<<<"mandate", q.on>>, "take">>, <<<<"member", q.to>>, "take">>>>
        /\ <<<<"mandate", q.on>>, "take">> \in Lock /\ <<<<"member", q.to>>, "take">> \in Lock
    BY <1>3, PlanLocks DEF Plan, WellFormed
  <2>2. QED
    BY <1>3, <2>1, ShortPlans
<1>4. CASE q.op = "login"
  <2>1. Plan(q) = <<<<<<"bootstrap">>, "take">>, <<<<"site">>, "share">>>>
    BY <1>4 DEF Plan
  <2>2. QED
    BY <1>4, <2>1, PlanLocks, ShortPlans
<1>5. CASE q.op \in {"none", "deny"}
  <2>1. Plan(q) = <<>>
    BY <1>5 DEF Plan
  <2>2. QED
    BY <1>5, <2>1, ShortPlans
<1>6. QED
    BY <1>1, <1>2, <1>3, <1>4, <1>5 DEF Requested, Ops

\* A conversation one may write to has an owner.
LEMMA SentToOwned ==
    ASSUME RowsTyped, NEW q \in Requested, WellFormed(q), Lasting(q), q.op = "send"
    PROVE  thread[q.on] \in Users
<1>1. q.on \in Threads /\ thread[q.on] # None
    BY DEF WellFormed, Lasting
<1>2. thread[q.on] \in Users \union {None}
    BY <1>1 DEF RowsTyped
<1>3. QED
    BY <1>1, <1>2

LEMMA PlansAreTyped ==
    ASSUME RowsTyped, NEW q \in Requested, WellFormed(q), Lasting(q)
    PROVE  Plan(q) \in Seq(Lock)
BY SentToOwned, CreatePlan, SendPlan, TransferPlan, RolePlan, OtherPlans DEF Requested, Ops

-----------------------------------------------------------------------------
(* What a step leaves to the other requests *)

KeepsLocksOf(s) == \A l \in held : l[1] = s => l \in held'

\* A transaction that has taken none has none to keep.
KeepsLocks(s, q) == KeepsLocksOf(s) \/ (q.step = 0 /\ q.stage # "appended")

\* A transaction knows what it knew when the rows it speaks of are as they were.
LEMMA KnowsStays ==
    ASSUME NEW s, NEW q, Knows(s, q), q.step \in Nat, KeepsLocks(s, q),
           OnPlan(q)',
           q.op = "create" => /\ thread'[q.on] = thread[q.on]
                              /\ q.step >= 1 => member'[q.by] \in OwnerRoles,
           q.op = "transfer" => /\ q.step >= 1 => thread'[q.on] = thread[q.on]
                                /\ q.step >= 4 => member'[q.to] \in OwnerRoles,
           q.op = "role" /\ q.step >= 4 => ~Owns(q.on)',
           q.op \in {"revoke", "unassign"} /\ q.step >= 1 =>
               Targets(q)' \subseteq q.targets \union slipped',
           q.op = "login" /\ q.step >= 1 => ~Inhabited'
    PROVE  Knows(s, q)'
<1>1. ASSUME NEW object, NEW mode, Has(s, object, mode), q.step >= 1
      PROVE  Has(s, object, mode)'
    BY <1>1 DEF Has, KeepsLocks, KeepsLocksOf
<1>3. q.op = "create" => CreateKnows(s, q)'
    BY <1>1 DEF Knows, CreateKnows
<1>4. q.op = "send" => (q.step >= 5 => Has(s, <<"mandate", q.under>>, "share")')
    BY <1>1 DEF Knows
<1>5. q.op = "transfer" => TransferKnows(s, q)'
    BY <1>1 DEF Knows, TransferKnows
<1>6. q.op = "role" => RoleKnows(s, q)'
    BY <1>1 DEF Knows, RoleKnows
<1>7. q.op \in {"revoke", "unassign"} => RevocationKnows(s, q)'
    BY <1>1 DEF Knows, RevocationKnows
<1>8. q.op = "login" => LoginKnows(s, q)'
    BY <1>1 DEF Knows, LoginKnows
<1>9. QED
    BY <1>3, <1>4, <1>5, <1>6, <1>7, <1>8 DEF Knows

LEMMA SameRows ==
    ASSUME NEW s, NEW q, Knows(s, q), q.step \in Nat, KeepsLocks(s, q),
           UNCHANGED <<member, thread, runs, slipped>>
    PROVE  Knows(s, q)'
<1>1. OnPlan(q)'
    BY DEF Knows, OnPlan, Plan, InsertLocks, TransferLocks, RoleLocks
<1>2. q.op \in {"revoke", "unassign"} /\ q.step >= 1 =>
          Targets(q)' \subseteq q.targets \union slipped'
    BY DEF Knows, RevocationKnows, Targets, Active
<1>3. (Owns(q.on)' <=> Owns(q.on)) /\ (Inhabited' <=> Inhabited)
    BY DEF Owns, Inhabited
<1>4. /\ q.op = "create" /\ q.step >= 1 => member[q.by] \in OwnerRoles
      /\ q.op = "transfer" /\ q.step >= 4 => member[q.to] \in OwnerRoles
      /\ q.op = "role" /\ q.step >= 4 => ~Owns(q.on)
      /\ q.op = "login" /\ q.step >= 1 => ~Inhabited
    BY DEF Knows, CreateKnows, TransferKnows, RoleKnows, LoginKnows
<1>5. QED
    BY <1>1, <1>2, <1>3, <1>4, KnowsStays

\* What a request is, and what else is held, is nobody else's affair.
LEMMA OthersStay ==
    ASSUME AccessIInv, NEW r \in Requests, NEW q \in Requested, WellFormed(q),
           request' = [request EXCEPT ![r] = q]
    PROVE  /\ RequestsTyped' /\ request'[r] = q
           /\ \A s \in Requests : s # r => request'[s] = request[s]
<1>1. request \in [Requests -> Requested] /\ \A s \in Requests : WellFormed(request[s])
    BY DEF AccessIInv, RequestsTyped
<1>2. /\ request' \in [Requests -> Requested] /\ request'[r] = q
      /\ \A s \in Requests : s # r => request'[s] = request[s]
    BY <1>1
<1>3. \A s \in Requests : WellFormed(request'[s])
    BY <1>1, <1>2
<1>4. RequestsTyped'
    BY <1>2, <1>3 DEF RequestsTyped, WellFormed
<1>5. QED
    BY <1>2, <1>4

\* What the invariant says of a request.
LEMMA RequestFacts ==
    ASSUME AccessIInv, NEW r \in Requests
    PROVE  /\ request[r] \in Requested /\ WellFormed(request[r])
           /\ Sound(r, request[r]) /\ request[r].step \in Nat
<1>1. request[r] \in Requested /\ WellFormed(request[r])
    BY DEF AccessIInv, RequestsTyped
<1>2. QED
    BY <1>1 DEF AccessIInv, Requested

\* A request that no row concerns any more.
LEMMA SoundStays ==
    ASSUME NEW s \in Requests, NEW q \in Requested, Sound(s, q), KeepsLocks(s, q),
           UNCHANGED <<rows, slipped>>
    PROVE  Sound(s, q)'
<1>1. UNCHANGED <<member, mandate, assigned, thread, runs, slipped>> /\ q.step \in Nat
    BY DEF rows, Requested
<1>2. Lasting(q)'
    BY <1>1 DEF Sound, Lasting
<1>3. Open(q) => Knows(s, q)'
    BY <1>1, SameRows DEF Sound
<1>4. Appended(s, q)'
    BY <1>1 DEF Sound, Appended, Has, KeepsLocks, KeepsLocksOf, Warranted, Unmandated, Authorised
<1>5. QED
    BY <1>2, <1>3, <1>4 DEF Sound

\* A step that changes one request and its locks, and no row.
LEMMA RequestMoves ==
    ASSUME AccessIInv, NEW r \in Requests, NEW q \in Requested, WellFormed(q), Sound(r, q)',
           request' = [request EXCEPT ![r] = q],
           request[r].stage # "cancelling",
           q.op = "create" =>
               \/ request[r].op = "create" /\ request[r].on = q.on
               \/ \A s \in Requests : request[s].op = "create" => request[s].on # q.on,
           held' \subseteq Requests \X Objects \X Modes, Exclusive',
           \A s \in Requests \ {r} : KeepsLocksOf(s),
           UNCHANGED <<rows, founders, following, faults>>
    PROVE  AccessIInv'
<1>0. UNCHANGED <<member, mandate, assigned, thread, runs, ledger, founders, reader, orphans,
                  missed, slipped, faults>>
    BY DEF rows, following
<1>1. /\ RequestsTyped' /\ request'[r] = q
      /\ \A s \in Requests : s # r => request'[s] = request[s]
    BY OthersStay
<1>2. RowsTyped' /\ OwnersMayOwn' /\ Founded'
    BY <1>0 DEF AccessIInv, RowsTyped, OwnersMayOwn, Founded, OneFounder, Inhabited
<1>3. ASSUME NEW s \in Requests, NEW p \in Requested, request'[s] = p
      PROVE  Sound(s, p)'
  <2>1. CASE s = r
    BY <1>1, <1>3, <2>1
  <2>2. CASE s # r
    <3>1. Sound(s, p)
      BY <1>1, <1>3, <2>2 DEF AccessIInv
    <3>2. KeepsLocks(s, p) /\ UNCHANGED <<rows, slipped>>
      BY <1>0, <2>2 DEF KeepsLocks
    <3>3. QED
      BY <3>1, <3>2, SoundStays
  <2>3. QED
    BY <2>1, <2>2
<1>6. Distinct'
  <2>1. \A s \in Requests : s # r /\ q.op = "create" /\ request[s].op = "create" => request[s].on # q.on
    BY DEF AccessIInv, Distinct
  <2>2. QED
    BY <1>1, <2>1 DEF AccessIInv, Distinct
<1>7. RevokedRunsAreFollowed'
  <2> SUFFICES ASSUME NEW run \in Requests, Active(run), LostMandate(run),
                      run \notin orphans \union missed \union slipped
               PROVE  \E s \in Requests : request'[s].stage = "cancelling" /\ run \in request'[s].targets
    BY <1>0 DEF RevokedRunsAreFollowed, Active, LostMandate, Authorised
  <2>1. PICK s \in Requests : request[s].stage = "cancelling" /\ run \in request[s].targets
    BY DEF AccessIInv, RevokedRunsAreFollowed
  <2>2. s # r
    BY <2>1
  <2>3. QED
    BY <1>1, <2>1, <2>2
<1>8. QED
    BY <1>1, <1>2, <1>3, <1>6, <1>7 DEF AccessIInv

\* The end of a transaction gives its locks back.
LEMMA Releases ==
    ASSUME AccessIInv, NEW r \in Requests, Release(r)
    PROVE  /\ held' \subseteq Requests \X Objects \X Modes /\ Exclusive'
           /\ \A s \in Requests \ {r} : KeepsLocksOf(s)
BY DEF AccessIInv, RowsTyped, Exclusive, Release, HeldBy, KeepsLocksOf

-----------------------------------------------------------------------------
(* The arrivals *)

\* A request that has just been opened knows nothing yet.
LEMMA OpenedIsSound ==
    ASSUME RowsTyped, NEW r, NEW q \in Requested, WellFormed(q), Lasting(q),
           q.stage = "locking", q.step = 0, q.op = "create" => thread[q.on] = None
    PROVE  Sound(r, q)
<1>1. Len(Plan(q)) \in Nat
    BY PlansAreTyped
<1>2. OnPlan(q)
    BY <1>1 DEF OnPlan
<1>3. QED
    BY <1>2 DEF Sound, Appended, Knows, CreateKnows, TransferKnows, RoleKnows, RevocationKnows,
       LoginKnows

LEMMA OpenedIs ==
    ASSUME NEW op \in Ops, NEW u \in Users, NEW role \in Roles \union {"none"},
           NEW under \in Mandates \union {None}, NEW args,
           args[1] \in Users \union Mandates \union Threads \union {None},
           args[2] \in Users \union Roles \union {None}
    PROVE  LET q == Opened(op, u, role, under, args) IN
           /\ q \in Requested /\ q.op = op /\ q.by = u /\ q.role = role /\ q.under = under
           /\ q.on = args[1] /\ q.to = args[2]
           /\ q.stage = "locking" /\ q.step = 0 /\ q.verdict = "open" /\ q.targets = {}
BY DEF Opened, Idle, Requested

\* A request that arrives takes the place of none that is at work.
LEMMA ArrivalMoves ==
    ASSUME AccessIInv, NEW r \in Requests, request[r].stage = "idle",
           NEW q \in Requested, WellFormed(q), Lasting(q), q.stage = "locking", q.step = 0,
           q.op = "create" => /\ thread[q.on] = None
                              /\ \A s \in Requests : request[s].op = "create" => request[s].on # q.on,
           request' = [request EXCEPT ![r] = q],
           UNCHANGED <<rows, held, founders, following, faults>>
    PROVE  AccessIInv'
<1>1. Sound(r, q)
    BY OpenedIsSound DEF AccessIInv
<1>2. KeepsLocks(r, q) /\ \A s \in Requests : KeepsLocksOf(s)
    BY DEF KeepsLocks, KeepsLocksOf
<1>3. Sound(r, q)'
    BY <1>1, <1>2, SoundStays DEF following
<1>4. held' \subseteq Requests \X Objects \X Modes /\ Exclusive'
    BY DEF AccessIInv, RowsTyped, Exclusive
<1>5. QED
    BY <1>2, <1>3, <1>4, RequestMoves

LEMMA ArriveIsSafe ==
    ASSUME AccessIInv, NEW r \in Requests, Arrive(r)
    PROVE  AccessIInv'
<1>0. PICK u \in Users :
        /\ member[u] # "none"
        /\ \E under \in Contexts(u), op \in Permitted(member[u]) : \E args \in Arguments(op) :
              request' = [request EXCEPT ![r] = Opened(op, u, member[u], under, args)]
    BY DEF Arrive
<1>1. PICK under \in Contexts(u), op \in Permitted(member[u]) :
        /\ member[u] # "none"
        /\ \E args \in Arguments(op) :
              request' = [request EXCEPT ![r] = Opened(op, u, member[u], under, args)]
    BY <1>0
<1>2. PICK args \in Arguments(op) :
        request' = [request EXCEPT ![r] = Opened(op, u, member[u], under, args)]
    BY <1>1
<1>3. /\ request[r].stage = "idle"
      /\ UNCHANGED <<rows, held, founders, following, faults>>
    BY DEF Arrive
<1>4. member[u] \in Roles
    BY <1>1 DEF AccessIInv, RowsTyped
<1>5. under \in Mandates \union {None} /\ (under # None => member[u] = "operator")
    BY <1>1 DEF Contexts
<1>6. op \in Ops \ {"deny", "login"}
    BY <1>1, <1>4 DEF Permitted, Ops, Roles
<1>7. /\ op \in {"create", "send", "transfer"} => args[1] \in Threads
      /\ op \in {"transfer", "assign", "unassign"} => args[2] \in Users
      /\ op = "role" => args[1] \in Users /\ args[2] \in Roles
      /\ op \in {"mandate", "assign", "unassign", "revoke"} => args[1] \in Mandates
      /\ op \notin {"transfer", "assign", "unassign", "role"} => args[2] = None
      /\ op = "create" => Fresh(args[1])
      /\ op \in {"send", "transfer"} => Existing(args[1])
    BY <1>2, <1>6 DEF Arguments, Ops
<1>8. /\ args[1] \in Users \union Mandates \union Threads \union {None}
      /\ args[2] \in Users \union Roles \union {None}
    BY <1>6, <1>7 DEF Ops
<1>9. PICK role : role = member[u]
    OBVIOUS
<1>10. PICK q : q = Opened(op, u, role, under, args)
    OBVIOUS
<1>11. /\ q \in Requested /\ q.op = op /\ q.by = u /\ q.role = role /\ q.under = under
       /\ q.on = args[1] /\ q.to = args[2]
       /\ q.stage = "locking" /\ q.step = 0 /\ q.verdict = "open"
    BY <1>4, <1>5, <1>6, <1>8, <1>9, <1>10, OpenedIs
<1>12. WellFormed(q)
    BY <1>4, <1>5, <1>6, <1>7, <1>9, <1>11 DEF WellFormed, Ops
<1>13. Lasting(q)
    BY <1>1, <1>7, <1>11 DEF Lasting, Existing
<1>14. q.op = "create" => /\ thread[q.on] = None
                          /\ \A s \in Requests : request[s].op = "create" => request[s].on # q.on
    BY <1>7, <1>11 DEF Fresh
<1>15. QED
    BY <1>2, <1>3, <1>9, <1>10, <1>11, <1>12, <1>13, <1>14, ArrivalMoves

LEMMA ArriveRefusedIsSafe ==
    ASSUME AccessIInv, NEW r \in Requests, ArriveRefused(r)
    PROVE  AccessIInv'
<1>0. PICK u \in Users :
        /\ member[u] \in {"operator", "requester", "auditor"}
        /\ \E under \in Contexts(u) :
              request' = [request EXCEPT ![r] = Opened("deny", u, member[u], under, <<None, None>>)]
    BY DEF ArriveRefused
<1>1. PICK under \in Contexts(u) :
        /\ member[u] \in {"operator", "requester", "auditor"}
        /\ request' = [request EXCEPT ![r] = Opened("deny", u, member[u], under, <<None, None>>)]
    BY <1>0
<1>2. PICK role : role = member[u]
    OBVIOUS
<1>3. under \in Mandates \union {None} /\ (under # None => role = "operator") /\ role \in Roles
    BY <1>1, <1>2 DEF Contexts, Roles
<1>4. PICK q : q = Opened("deny", u, role, under, <<None, None>>)
    OBVIOUS
<1>5. /\ q \in Requested /\ q.op = "deny" /\ q.by = u /\ q.role = role /\ q.under = under
      /\ q.stage = "locking" /\ q.step = 0 /\ q.verdict = "open"
    BY <1>3, <1>4, OpenedIs DEF Ops
<1>6. WellFormed(q)
    BY <1>3, <1>5 DEF WellFormed
<1>7. Lasting(q)
    BY <1>1, <1>5 DEF Lasting
<1>8. QED
    BY <1>1, <1>2, <1>4, <1>5, <1>6, <1>7, ArrivalMoves DEF ArriveRefused

LEMMA ArriveWithoutMandateIsSafe ==
    ASSUME AccessIInv, NEW r \in Requests, ArriveWithoutMandate(r)
    PROVE  AccessIInv'
<1>1. PICK u \in Users :
        /\ member[u] = "operator"
        /\ request' = [request EXCEPT ![r] = Opened("deny", u, "operator", None, <<None, None>>)]
    BY DEF ArriveWithoutMandate
<1>2. PICK q : q = Opened("deny", u, "operator", None, <<None, None>>)
    OBVIOUS
<1>3. /\ q \in Requested /\ q.op = "deny" /\ q.by = u /\ q.role = "operator" /\ q.under = None
      /\ q.stage = "locking" /\ q.step = 0 /\ q.verdict = "open"
    BY <1>2, OpenedIs DEF Ops, Roles
<1>4. WellFormed(q) /\ Lasting(q)
    BY <1>1, <1>3 DEF WellFormed, Lasting, Roles
<1>5. QED
    BY <1>1, <1>2, <1>3, <1>4, ArrivalMoves DEF ArriveWithoutMandate

LEMMA ArriveUnknownIsSafe ==
    ASSUME AccessIInv, NEW r \in Requests, ArriveUnknown(r)
    PROVE  AccessIInv'
<1>1. PICK u \in Users :
        request' = [request EXCEPT ![r] = Opened("login", u, "none", None, <<None, None>>)]
    BY DEF ArriveUnknown
<1>2. PICK q : q = Opened("login", u, "none", None, <<None, None>>)
    OBVIOUS
<1>3. /\ q \in Requested /\ q.op = "login" /\ q.by = u /\ q.under = None
      /\ q.stage = "locking" /\ q.step = 0 /\ q.verdict = "open"
    BY <1>2, OpenedIs DEF Ops
<1>4. WellFormed(q) /\ Lasting(q)
    BY <1>3 DEF WellFormed, Lasting
<1>5. QED
    BY <1>1, <1>2, <1>3, <1>4, ArrivalMoves DEF ArriveUnknown

-----------------------------------------------------------------------------
(* The locks *)

\* The plan of a request does not depend on how far it is.
LEMMA PlanIsOfArguments ==
    ASSUME NEW q, NEW n, n.op = q.op, n.by = q.by, n.under = q.under, n.on = q.on, n.to = q.to
    PROVE  Plan(n) = Plan(q)
BY DEF Plan, TransferLocks

\* A transaction that is not ready takes the next lock of its plan, when nobody has one
\* that conflicts.
LEMMA AcquireFacts ==
    ASSUME AccessIInv, NEW r \in Requests, Acquire(r)
    PROVE  LET q == request[r] IN
           /\ q \in Requested /\ WellFormed(q) /\ Lasting(q) /\ Knows(r, q)
           /\ q.stage = "locking" /\ q.verdict = "open" /\ q.step \in Nat /\ q.step < Len(Plan(q))
           /\ Plan(q) \in Seq(Lock) /\ Plan(q)[q.step + 1] \in Lock
           /\ held' = held \union {<<r, Plan(q)[q.step + 1][1], Plan(q)[q.step + 1][2]>>}
           /\ \A l \in held :
                  l[1] # r /\ l[2] = Plan(q)[q.step + 1][1] =>
                      ~Conflicts(l[3], Plan(q)[q.step + 1][2])
<1> DEFINE q == request[r]
<1>1. q \in Requested /\ WellFormed(q) /\ Sound(r, q) /\ q.step \in Nat
    BY RequestFacts
<1>2. q.stage = "locking" /\ ~Ready(q) /\ MayProceed(r) /\ held' = held \union Locks(r)
    BY DEF Acquire
<1>3. q.verdict = "open" /\ q.step # Len(Plan(q))
    BY <1>2 DEF Ready
<1>4. Lasting(q) /\ Knows(r, q)
    BY <1>1, <1>2, <1>3 DEF Sound, Open
<1>5. Plan(q) \in Seq(Lock)
    BY <1>1, <1>4, PlansAreTyped DEF AccessIInv
<1>6. q.step <= Len(Plan(q)) /\ Len(Plan(q)) \in Nat
    BY <1>4, <1>5 DEF Knows, OnPlan
<1>7. q.step < Len(Plan(q)) /\ q.step + 1 \in 1 .. Len(Plan(q))
    BY <1>1, <1>3, <1>6
<1>8. Plan(q)[q.step + 1] \in Lock
    BY <1>5, <1>7
<1>9. Wanted(q) = {Plan(q)[q.step + 1]}
    BY <1>2 DEF Wanted
<1>10. Locks(r) = {<<r, Plan(q)[q.step + 1][1], Plan(q)[q.step + 1][2]>>}
    BY <1>9 DEF Locks
<1>11. ASSUME NEW l \in held, l[1] # r, l[2] = Plan(q)[q.step + 1][1]
       PROVE  ~Conflicts(l[3], Plan(q)[q.step + 1][2])
  <2>1. l[1] \in Requests
    BY <1>11 DEF AccessIInv, RowsTyped
  <2>2. ~Blocks(l[1], r)
    BY <1>2, <2>1 DEF MayProceed
  <2>3. QED
    BY <1>9, <1>11, <2>2 DEF Blocks
<1> HIDE DEF q
<1>12. QED
    BY <1>1, <1>2, <1>3, <1>4, <1>5, <1>7, <1>8, <1>10, <1>11 DEF q

LEMMA ConflictsAreMutual ==
    \A mode, other : Conflicts(mode, other) <=> Conflicts(other, mode)
BY DEF Conflicts

\* A lock that conflicts with none of others' keeps the locks exclusive.
LEMMA LockTaken ==
    ASSUME AccessIInv, NEW r \in Requests, NEW object \in Objects, NEW mode \in Modes,
           held' = held \union {<<r, object, mode>>},
           \A l \in held : l[1] # r /\ l[2] = object => ~Conflicts(l[3], mode)
    PROVE  /\ held' \subseteq Requests \X Objects \X Modes /\ Exclusive'
           /\ \A s \in Requests : KeepsLocksOf(s)
           /\ Has(r, object, mode)'
           /\ \A o, m : Has(r, o, m) => Has(r, o, m)'
<1>1. held' \subseteq Requests \X Objects \X Modes
    BY DEF AccessIInv, RowsTyped
<1>2. Exclusive'
  <2> DEFINE new == <<r, object, mode>>
  <2>1. new[1] = r /\ new[2] = object /\ new[3] = mode
    OBVIOUS
  <2>2. ASSUME NEW l \in held', NEW m \in held', l[2] = m[2], Conflicts(l[3], m[3])
        PROVE  l[1] = m[1]
    <3> HIDE DEF new
    <3>0. held' = held \union {new}
      BY DEF new
    <3>1. CASE l \in held /\ m \in held
      BY <2>2, <3>1 DEF AccessIInv, Exclusive
    <3>2. CASE l \in held /\ m = new
      BY <2>1, <2>2, <3>2
    <3>3. CASE l = new /\ m \in held
      BY <2>1, <2>2, <3>3, ConflictsAreMutual
    <3>4. CASE l = new /\ m = new
      BY <3>4
    <3>5. QED
      BY <3>0, <3>1, <3>2, <3>3, <3>4
  <2>3. QED
    BY <2>2 DEF Exclusive
<1>3. QED
    BY <1>1, <1>2 DEF KeepsLocksOf, Has

\* What a transaction that stays open has read at its next step.
LEMMA Reads ==
    ASSUME NEW q \in Requested, q.verdict = "open", Verdict(q, q.step + 1) = "open"
    PROVE  /\ q.op = "create" /\ q.step = 0 => member[q.by] \in OwnerRoles
           /\ q.op = "transfer" /\ q.step = 0 => q.role = "admin" \/ thread[q.on] = q.by
           /\ q.op = "transfer" /\ q.step = 3 => member[q.to] \in OwnerRoles
           /\ q.op = "role" /\ q.step = 3 => ~Owns(q.on)
           /\ q.op = "login" /\ q.step = 0 => \A u \in Users : member[u] = "none"
<1>1. /\ ~(q.op = "transfer" /\ TransferRefused(q, q.step + 1))
      /\ ~OwnerRefused(q, q.step + 1) /\ ~DemotionRefused(q, q.step + 1)
      /\ ~LoginRefused(q, q.step + 1)
    BY DEF Verdict
<1>2. QED
    BY <1>1 DEF TransferRefused, OwnerRefused, DemotionRefused, LoginRefused

\* A request after its next lock.
Stepped(q, k, v, T) == [q EXCEPT !.step = k, !.verdict = v, !.targets = T]

LEMMA Advanced ==
    ASSUME NEW q \in Requested, q.stage = "locking",
           NEW v \in {"open", "denied", "missing", "void"}, NEW T \in SUBSET Requests,
           NEW k \in Nat
    PROVE  LET n == Stepped(q, k, v, T) IN
           /\ n \in Requested
           /\ n.op = q.op /\ n.by = q.by /\ n.role = q.role /\ n.under = q.under
           /\ n.on = q.on /\ n.to = q.to /\ n.stage = "locking" /\ n.step = k
           /\ n.verdict = v /\ n.targets = T
<1>1. PICK n : n = Stepped(q, k, v, T)
    OBVIOUS
<1>2. PICK a : a = [q EXCEPT !.step = k]
    OBVIOUS
<1>3. PICK b : b = [a EXCEPT !.verdict = v]
    OBVIOUS
<1>4. a \in Requested /\ a.step = k /\ a.op = q.op /\ a.by = q.by /\ a.role = q.role
      /\ a.under = q.under /\ a.on = q.on /\ a.to = q.to /\ a.stage = "locking"
    BY <1>2 DEF Requested
<1>5. b \in Requested /\ b.step = k /\ b.op = q.op /\ b.by = q.by /\ b.role = q.role
      /\ b.under = q.under /\ b.on = q.on /\ b.to = q.to /\ b.stage = "locking" /\ b.verdict = v
    BY <1>3, <1>4 DEF Requested
<1>6. n = [b EXCEPT !.targets = T]
    BY <1>1, <1>2, <1>3 DEF Stepped
<1>7. QED
    BY <1>1, <1>5, <1>6 DEF Requested

LEMMA AcquireIsSafe ==
    ASSUME AccessIInv, NEW r \in Requests, Acquire(r)
    PROVE  AccessIInv'
<1>1. PICK q : q = request[r]
    OBVIOUS
<1>2. /\ q \in Requested /\ WellFormed(q) /\ Lasting(q) /\ Knows(r, q)
      /\ q.stage = "locking" /\ q.verdict = "open" /\ q.step \in Nat /\ q.step < Len(Plan(q))
      /\ Plan(q) \in Seq(Lock) /\ Plan(q)[q.step + 1] \in Lock
      /\ held' = held \union {<<r, Plan(q)[q.step + 1][1], Plan(q)[q.step + 1][2]>>}
      /\ \A l \in held :
             l[1] # r /\ l[2] = Plan(q)[q.step + 1][1] => ~Conflicts(l[3], Plan(q)[q.step + 1][2])
    BY <1>1, AcquireFacts
<1>3. PICK object, mode : object = Plan(q)[q.step + 1][1] /\ mode = Plan(q)[q.step + 1][2]
    OBVIOUS
<1>4. object \in Objects /\ mode \in Modes /\ Plan(q)[q.step + 1] = <<object, mode>>
    BY <1>2, <1>3 DEF Lock
<1>5. /\ held' \subseteq Requests \X Objects \X Modes /\ Exclusive'
      /\ \A s \in Requests : KeepsLocksOf(s)
      /\ Has(r, object, mode)'
      /\ \A o, m : Has(r, o, m) => Has(r, o, m)'
  <2>1. held' = held \union {<<r, object, mode>>}
    BY <1>2, <1>3
  <2>2. \A l \in held : l[1] # r /\ l[2] = object => ~Conflicts(l[3], mode)
    BY <1>2, <1>3
  <2>3. QED
    BY <1>4, <2>1, <2>2, LockTaken, ZenonT(40)
<1>6. UNCHANGED <<rows, founders, following, faults>>
      /\ UNCHANGED <<member, mandate, assigned, thread, runs, slipped>>
    BY DEF Acquire, rows, following
<1>7. PICK n : n = Advance(q)
    OBVIOUS
<1>8. Verdict(q, q.step + 1) \in {"open", "denied", "missing", "void"}
    BY <1>2 DEF Verdict
<1>9. Targets(q) \subseteq Requests
    BY DEF Targets
<1>10. n = Stepped(q, q.step + 1, Verdict(q, q.step + 1), Targets(q))
    BY <1>7 DEF Advance, Stepped
<1>11. /\ n \in Requested
       /\ n.op = q.op /\ n.by = q.by /\ n.role = q.role /\ n.under = q.under
       /\ n.on = q.on /\ n.to = q.to /\ n.stage = "locking" /\ n.step = q.step + 1
       /\ n.verdict = Verdict(q, q.step + 1) /\ n.targets = Targets(q)
  <2>1. PICK v, T, k : v = Verdict(q, q.step + 1) /\ T = Targets(q) /\ k = q.step + 1
    OBVIOUS
  <2>2. n = Stepped(q, k, v, T)
    BY <1>10, <2>1
  <2>3. v \in {"open", "denied", "missing", "void"} /\ T \in SUBSET Requests /\ k \in Nat
    BY <1>2, <1>8, <1>9, <2>1
  <2>4. /\ n \in Requested
        /\ n.op = q.op /\ n.by = q.by /\ n.role = q.role /\ n.under = q.under
        /\ n.on = q.on /\ n.to = q.to /\ n.stage = "locking" /\ n.step = k
        /\ n.verdict = v /\ n.targets = T
    BY <1>2, <2>2, <2>3, Advanced
  <2>5. QED
    BY <2>1, <2>4
<1>12. WellFormed(n) /\ Lasting(n)
  <2>1. n.verdict = "missing" => n.op \in {"send", "transfer"}
    BY <1>2, <1>11 DEF Verdict, SendRefused
  <2>2. QED
    BY <1>2, <1>11, <2>1 DEF WellFormed, Lasting
<1>13. request' = [request EXCEPT ![r] = n]
    BY <1>1, <1>7 DEF Acquire
<1>14. Plan(n) = Plan(q)
    BY <1>11, PlanIsOfArguments
<1>15. ASSUME Open(n) PROVE Knows(r, n)'
  <2>0. n.verdict = "open"
    BY <1>15 DEF Open
  <2>1. /\ q.op = "create" /\ q.step = 0 => member[q.by] \in OwnerRoles
        /\ q.op = "transfer" /\ q.step = 0 => q.role = "admin" \/ thread[q.on] = q.by
        /\ q.op = "transfer" /\ q.step = 3 => member[q.to] \in OwnerRoles
        /\ q.op = "role" /\ q.step = 3 => ~Owns(q.on)
        /\ q.op = "login" /\ q.step = 0 => ~Inhabited
    BY <1>2, <1>11, <2>0, Reads DEF Inhabited
  \* The lock it has taken is that of the step, and it keeps the former ones.
  <2>2. ASSUME NEW k \in Nat, n.step >= k, NEW o, NEW m, Plan(q)[k] = <<o, m>>,
               q.step >= k => Has(r, o, m)
        PROVE  Has(r, o, m)'
    <3>1. CASE q.step >= k
      BY <1>5, <2>2, <3>1
    <3>2. CASE k = q.step + 1
      <4>1. <<o, m>> = <<object, mode>>
        BY <1>4, <2>2, <3>2
      <4>2. o = object /\ m = mode
        BY <4>1
      <4>3. QED
        BY <1>5, <4>2
    <3>3. QED
      BY <1>2, <1>11, <2>2, <3>1, <3>2
  <2>3. OnPlan(n)'
    <3>1. OnPlan(n)
      BY <1>2, <1>11, <1>14 DEF OnPlan
    <3>2. QED
      BY <1>6, <3>1 DEF OnPlan, Plan, InsertLocks, TransferLocks, RoleLocks
  <2>4. n.op = "create" => CreateKnows(r, n)'
    <3> SUFFICES ASSUME n.op = "create" PROVE CreateKnows(r, n)'
      OBVIOUS
    <3>0. q.op = "create" /\ CreateKnows(r, q)
      BY <1>2, <1>11 DEF Knows
    <3>1. n.step >= 1 => Has(r, <<"owner", n.by>>, "take")'
      BY <1>2, <1>11, <2>2, <3>0, CreatePlan DEF CreateKnows
    <3>2. member[n.by] \in OwnerRoles
      BY <1>2, <1>11, <2>1, <3>0 DEF CreateKnows
    <3>3. n.step >= 4 => Has(r, <<"mandate", n.under>>, "share")'
      <4> SUFFICES ASSUME n.step >= 4 PROVE Has(r, <<"mandate", n.under>>, "share")'
        OBVIOUS
      <4>1. Plan(q)[4] = <<<<"mandate", q.under>>, "share">>
        <5>1. q \in Requested /\ WellFormed(q) /\ q.op = "create"
          BY <1>2, <3>0
        <5>2. /\ Len(Plan(q)) = IF q.under = None THEN 3 ELSE 4
              /\ q.under # None => Plan(q)[4] = <<<<"mandate", q.under>>, "share">>
          BY <5>1, CreatePlan
        <5>3. q.under # None
          BY <1>2, <1>11, <5>2
        <5>4. QED
          BY <5>2, <5>3
      <4>2. QED
        BY <1>11, <2>2, <3>0, <4>1 DEF CreateKnows
    <3>4. QED
      BY <1>6, <1>11, <3>0, <3>1, <3>2, <3>3 DEF CreateKnows
  <2>5. n.op = "send" => (n.step >= 5 => Has(r, <<"mandate", n.under>>, "share")')
    <3> SUFFICES ASSUME n.op = "send", n.step >= 5 PROVE Has(r, <<"mandate", n.under>>, "share")'
      OBVIOUS
    <3>1. thread[q.on] \in Users
      BY <1>2, <1>11, SentToOwned DEF AccessIInv
    <3>2. Plan(q)[5] = <<<<"mandate", q.under>>, "share">>
      BY <1>2, <1>11, <3>1, SendPlan
    <3>3. QED
      BY <1>2, <1>11, <2>2, <3>2 DEF Knows
  <2>6. n.op = "transfer" => TransferKnows(r, n)'
    <3> SUFFICES ASSUME n.op = "transfer" PROVE TransferKnows(r, n)'
      OBVIOUS
    <3>0. q.op = "transfer" /\ TransferKnows(r, q)
      BY <1>2, <1>11 DEF Knows
    <3>1. /\ n.step >= 1 => Has(r, <<"thread", n.on>>, "take")'
          /\ n.step >= 4 => Has(r, <<"owner", n.to>>, "take")'
      BY <1>2, <1>11, <2>2, <3>0, TransferPlan DEF TransferKnows
    <3>2. n.role = "admin" \/ thread[n.on] = n.by
      BY <1>2, <1>11, <2>1, <3>0 DEF TransferKnows
    <3>3. n.step >= 4 => member[n.to] \in OwnerRoles
      BY <1>2, <1>11, <2>1, <3>0 DEF TransferKnows
    <3>4. QED
      BY <1>6, <1>11, <3>1, <3>2, <3>3 DEF TransferKnows
  <2>7. n.op = "role" => RoleKnows(r, n)'
    <3> SUFFICES ASSUME n.op = "role" PROVE RoleKnows(r, n)'
      OBVIOUS
    <3>0. q.op = "role" /\ RoleKnows(r, q)
      BY <1>2, <1>11 DEF Knows
    <3>1. n.step >= 1 => Has(r, <<"roles">>, "take")'
      BY <1>2, <1>11, <2>2, <3>0, RolePlan DEF RoleKnows
    <3>2. n.step >= 4 => Has(r, <<"owner", n.on>>, "take")'
      <4> SUFFICES ASSUME n.step >= 4 PROVE Has(r, <<"owner", n.on>>, "take")'
        OBVIOUS
      <4>1. Len(Plan(q)) = 4
        BY <1>2, <1>11, <3>0, RolePlan
      <4>2. Plan(q)[4] = <<<<"owner", q.on>>, "take">>
        BY <1>2, <3>0, <4>1, RolePlan
      <4>3. QED
        BY <1>11, <2>2, <3>0, <4>2 DEF RoleKnows
    <3>3. n.step >= 4 => ~Owns(n.on)
      BY <1>2, <1>11, <2>1, <3>0 DEF RoleKnows
    <3>4. QED
      BY <1>6, <1>11, <3>1, <3>2, <3>3 DEF RoleKnows, Owns
  <2>8. n.op \in {"revoke", "unassign"} => RevocationKnows(r, n)'
    <3> SUFFICES ASSUME n.op \in {"revoke", "unassign"} PROVE RevocationKnows(r, n)'
      OBVIOUS
    <3>0. q.op \in {"revoke", "unassign"} /\ RevocationKnows(r, q)
      BY <1>2, <1>11 DEF Knows
    <3>1. Has(r, <<"mandate", n.on>>, "take")'
      BY <1>2, <1>11, <2>2, <3>0, OtherPlans DEF RevocationKnows
    <3>2. Targets(n) = n.targets
      BY <1>11 DEF Targets
    <3>3. QED
      BY <1>6, <3>1, <3>2 DEF RevocationKnows, Targets, Active
  <2>9. n.op = "login" => LoginKnows(r, n)'
    <3> SUFFICES ASSUME n.op = "login" PROVE LoginKnows(r, n)'
      OBVIOUS
    <3>0. q.op = "login" /\ LoginKnows(r, q)
      BY <1>2, <1>11 DEF Knows
    <3>1. Has(r, <<"bootstrap">>, "take")'
      BY <1>2, <1>11, <2>2, <3>0, OtherPlans DEF LoginKnows
    <3>2. ~Inhabited
      BY <1>2, <2>1, <3>0 DEF LoginKnows
    <3>3. QED
      BY <1>6, <3>1, <3>2 DEF LoginKnows, Inhabited
  <2>10. QED
    BY <2>3, <2>4, <2>5, <2>6, <2>7, <2>8, <2>9 DEF Knows
<1>16. Sound(r, n)'
  <2>1. Lasting(n)'
    BY <1>6, <1>12 DEF Lasting
  <2>2. QED
    BY <1>11, <1>15, <2>1 DEF Sound, Appended
<1>17. QED
    BY <1>1, <1>2, <1>5, <1>6, <1>11, <1>12, <1>13, <1>16, RequestMoves

-----------------------------------------------------------------------------
(* The end of a transaction *)

\* A request at another stage, under the role it is recorded with.
Staged(q, role, stage) == [q EXCEPT !.role = role, !.stage = stage]

LEMMA StagedIs ==
    ASSUME NEW q \in Requested, NEW role \in Roles \union {"none"},
           NEW stage \in {"idle", "locking", "appended", "cancelling", "done"}
    PROVE  LET n == Staged(q, role, stage) IN
           /\ n \in Requested /\ n.op = q.op /\ n.by = q.by /\ n.role = role /\ n.under = q.under
           /\ n.on = q.on /\ n.to = q.to /\ n.stage = stage /\ n.step = q.step
           /\ n.verdict = q.verdict /\ n.targets = q.targets
<1>1. PICK n : n = Staged(q, role, stage)
    OBVIOUS
<1>2. PICK a : a = [q EXCEPT !.role = role]
    OBVIOUS
<1>3. /\ a \in Requested /\ a.op = q.op /\ a.by = q.by /\ a.role = role /\ a.under = q.under
      /\ a.on = q.on /\ a.to = q.to /\ a.step = q.step
      /\ a.verdict = q.verdict /\ a.targets = q.targets
    BY <1>2 DEF Requested
<1>4. n = [a EXCEPT !.stage = stage]
    BY <1>1, <1>2 DEF Staged
<1>5. QED
    BY <1>1, <1>3, <1>4 DEF Requested

\* The stage alone.
LEMMA OnlyStaged ==
    ASSUME NEW q \in Requested, NEW stage
    PROVE  [q EXCEPT !.stage = stage] = Staged(q, q.role, stage)
BY DEF Requested, Staged

\* A transaction that ends without writing a row.
LEMMA Finishes ==
    ASSUME AccessIInv, NEW r \in Requests, request[r].stage \in {"locking", "appended"},
           NEW role \in Roles \union {"none"},
           request[r].op # "login" => role \in Roles,
           request[r].verdict = "denied" \/ role = request[r].role,
           request' = [request EXCEPT ![r] = Staged(request[r], role, "done")], Release(r),
           UNCHANGED <<rows, founders, following, faults>>
    PROVE  AccessIInv'
<1>1. PICK q : q = request[r]
    OBVIOUS
<1>2. q \in Requested /\ WellFormed(q) /\ Sound(r, q)
    BY <1>1, RequestFacts
<1>3. PICK n : n = Staged(q, role, "done")
    OBVIOUS
<1>4. /\ n \in Requested /\ n.op = q.op /\ n.by = q.by /\ n.role = role /\ n.under = q.under
      /\ n.on = q.on /\ n.to = q.to /\ n.stage = "done" /\ n.verdict = q.verdict
    BY <1>2, <1>3, StagedIs
<1>5. WellFormed(n)
    BY <1>1, <1>2, <1>4 DEF WellFormed
<1>6. Sound(r, n)'
    BY <1>2, <1>4 DEF Sound, Lasting, Open, Appended, rows
<1>7. QED
    BY <1>1, <1>3, <1>4, <1>5, <1>6, Releases, RequestMoves

LEMMA AppendEntryIsSafe ==
    ASSUME AccessIInv, NEW r \in Requests, AppendEntry(r)
    PROVE  AccessIInv'
<1>1. PICK q : q = request[r]
    OBVIOUS
<1>2. q \in Requested /\ WellFormed(q) /\ Sound(r, q) /\ q.step \in Nat
    BY <1>1, RequestFacts
<1>3. Ready(q) /\ Audited(q) /\ MayProceed(r) /\ q.stage = "locking"
    BY <1>1 DEF AppendEntry, Ready
<1>4. q.by \in Users /\ q.op \notin {"none", "login"} /\ member[q.by] \in Roles /\ q.role \in Roles
    BY <1>2, <1>3 DEF Audited, WellFormed, Sound, Lasting, AccessIInv, RowsTyped
<1>5. PICK role : role = IF q.verdict = "denied" THEN member[q.by] ELSE q.role
    OBVIOUS
<1>6. role \in Roles /\ (q.verdict = "denied" \/ role = q.role)
    BY <1>4, <1>5
<1>7. PICK p : p = Signed(q)
    OBVIOUS
<1>8. \A stage : [p EXCEPT !.stage = stage] = Staged(q, role, stage)
    BY <1>2, <1>5, <1>7, OnlyStaged DEF Signed, Staged
<1>9. /\ Warranted(p) => /\ request' = [request EXCEPT ![r] = Staged(q, role, "appended")]
                         /\ held' = held \union Locks(r)
      /\ ~Warranted(p) => Ends(r, Staged(q, role, "done"))
      /\ UNCHANGED <<rows, founders, following, faults>>
    BY <1>1, <1>7, <1>8 DEF AppendEntry
<1>10. CASE ~Warranted(p)
    BY <1>1, <1>3, <1>4, <1>6, <1>9, <1>10, Finishes DEF Ends
<1>11. CASE Warranted(p)
  <2>1. PICK n : n = Staged(q, role, "appended")
    OBVIOUS
  <2>2. /\ n \in Requested /\ n.op = q.op /\ n.by = q.by /\ n.role = role /\ n.under = q.under
        /\ n.on = q.on /\ n.to = q.to /\ n.stage = "appended" /\ n.step = q.step
        /\ n.verdict = q.verdict /\ n.targets = q.targets
  <3>1. role \in Roles \union {"none"}
    BY <1>6
  <3>2. QED
    BY <1>2, <2>1, <3>1, StagedIs, ZenonT(40)
  <2>3. WellFormed(n)
    BY <1>2, <1>3, <1>6, <2>2 DEF WellFormed
  <2>4. Locks(r) = {<<r, <<"site">>, "take">>}
    BY <1>1, <1>3 DEF Locks, Wanted
  <2>5. ASSUME NEW l \in held, l[1] # r, l[2] = <<"site">>
        PROVE  ~Conflicts(l[3], "take")
    <3>1. l[1] \in Requests
      BY <2>5 DEF AccessIInv, RowsTyped
    <3>2. ~Blocks(l[1], r)
      BY <1>3, <3>1 DEF MayProceed
    <3>3. Wanted(q) = {<<<<"site">>, "take">>}
      BY <1>3 DEF Wanted
    <3>4. QED
      BY <1>1, <2>5, <3>2, <3>3 DEF Blocks
  <2>6. held' = held \union {<<r, <<"site">>, "take">>}
    BY <1>9, <1>11, <2>4
  <2>7. /\ held' \subseteq Requests \X Objects \X Modes /\ Exclusive'
        /\ \A s \in Requests : KeepsLocksOf(s)
        /\ Has(r, <<"site">>, "take")'
    BY <2>5, <2>6, LockTaken, ObjectsAreTyped DEF Modes
  <2>8. UNCHANGED <<member, mandate, assigned, thread, runs, slipped>>
    BY <1>9 DEF rows, following
  <2>9. Lasting(n)'
    BY <1>2, <2>2, <2>8 DEF Sound, Lasting
  <2>10. ASSUME Open(n) PROVE Knows(r, n)'
    <3>1. q.verdict = "open" /\ Open(q) /\ Knows(r, q) /\ q.step = Len(Plan(q))
      BY <1>2, <1>3, <2>2, <2>10 DEF Open, Sound, Ready
    <3>2. Plan(n) = Plan(q) /\ Targets(n) = Targets(q)
      BY <2>2, PlanIsOfArguments DEF Targets
    <3>3. role = q.role
      BY <1>6, <3>1
    <3>4. Knows(r, n)
      BY <2>2, <3>1, <3>2, <3>3
         DEF Knows, OnPlan, CreateKnows, TransferKnows, RoleKnows, RevocationKnows, LoginKnows
    <3>5. KeepsLocks(r, n)
      BY <2>7 DEF KeepsLocks
    <3>6. QED
      BY <1>2, <2>2, <2>8, <3>4, <3>5, SameRows
  <2>11. Appended(r, n)'
    <3>1. p.by = n.by /\ p.role = n.role /\ p.under = n.under /\ p.op = n.op
      BY <1>2, <1>5, <1>7, <2>2 DEF Signed, Requested
    <3>2. Warranted(n)'
      BY <1>11, <2>8, <3>1 DEF Warranted, Unmandated, Authorised
    <3>3. Audited(n)
      BY <1>3, <2>2 DEF Audited
    <3>4. QED
      BY <2>7, <3>2, <3>3 DEF Appended, Audited
  <2>12. Sound(r, n)'
    BY <2>2, <2>9, <2>10, <2>11 DEF Sound, Open
  <2>13. QED
    BY <1>1, <1>3, <1>9, <1>11, <2>1, <2>2, <2>3, <2>7, <2>12, RequestMoves
<1>12. QED
    BY <1>10, <1>11

LEMMA RollbackIsSafe ==
    ASSUME AccessIInv, NEW r \in Requests, Rollback(r)
    PROVE  AccessIInv'
<1>1. PICK q : q = request[r]
    OBVIOUS
<1>2. q \in Requested /\ WellFormed(q) /\ Sound(r, q)
    BY <1>1, RequestFacts
<1>3. /\ q.stage = "locking" /\ q.verdict \in {"missing", "void"}
      /\ q.by \in Users /\ q.role \in Roles \union {"none"}
      /\ UNCHANGED <<rows, founders, following, faults>>
    BY <1>1, <1>2 DEF Rollback, Ready, WellFormed, Requested
<1>4. CASE q.verdict = "void"
  <2>1. Ends(r, Staged(q, q.role, "done"))
    BY <1>1, <1>2, <1>4, OnlyStaged DEF Rollback
  <2>2. q.op # "login" => q.role \in Roles
    BY <1>2, <1>3 DEF WellFormed
  <2>3. QED
    BY <1>1, <1>3, <2>1, <2>2, Finishes DEF Ends
<1>5. CASE q.verdict = "missing"
  <2>1. q.op \in {"send", "transfer"} /\ q.role \in Roles /\ q.under \in Mandates \union {None}
        /\ (q.under # None => q.role = "operator") /\ member[q.by] # "none"
    BY <1>2, <1>5 DEF WellFormed, Requested, Sound, Lasting
  <2>2. PICK n : n = Opened("deny", q.by, q.role, q.under, <<None, None>>)
    OBVIOUS
  <2>3. /\ n \in Requested /\ n.op = "deny" /\ n.by = q.by /\ n.role = q.role /\ n.under = q.under
        /\ n.stage = "locking" /\ n.step = 0 /\ n.verdict = "open"
    <3>1. PICK u, role, under : u = q.by /\ role = q.role /\ under = q.under
      OBVIOUS
    <3>2. u \in Users /\ role \in Roles \union {"none"} /\ under \in Mandates \union {None}
      BY <1>3, <2>1, <3>1
    <3>3. PICK p : p = Opened("deny", u, role, under, <<None, None>>)
      OBVIOUS
    <3>4. /\ p \in Requested /\ p.op = "deny" /\ p.by = u /\ p.role = role /\ p.under = under
          /\ p.stage = "locking" /\ p.step = 0 /\ p.verdict = "open"
      BY <3>2, <3>3, OpenedIs DEF Ops
    <3>5. QED
      BY <2>2, <3>1, <3>3, <3>4
  <2>4. WellFormed(n) /\ Lasting(n)
    BY <1>3, <2>1, <2>3 DEF WellFormed, Lasting
  <2>5. Sound(r, n)
    BY <2>3, <2>4, OpenedIsSound DEF AccessIInv
  <2>6. Sound(r, n)'
    BY <1>3, <2>3, <2>5, SoundStays DEF KeepsLocks, following
  <2>7. Ends(r, n)
    BY <1>1, <1>5, <2>2 DEF Rollback
  <2>8. QED
    BY <1>1, <1>3, <2>3, <2>4, <2>6, <2>7, Releases, RequestMoves DEF Ends
<1>6. QED
    BY <1>3, <1>4, <1>5

LEMMA AbortVictimIsSafe ==
    ASSUME AccessIInv, NEW r \in Requests, AbortVictim(r)
    PROVE  AccessIInv'
<1>1. PICK q : q = request[r]
    OBVIOUS
<1>2. q \in Requested /\ WellFormed(q)
    BY <1>1, RequestFacts
<1>3. PICK b : Blocks(b, r)
    BY DEF AbortVictim, InCycle
<1>4. Wanted(q) # {}
    BY <1>1, <1>3 DEF Blocks
<1>5. q.stage = "locking"
    BY <1>4 DEF Wanted, Ready
<1>6. Ends(r, Staged(q, q.role, "done"))
    BY <1>1, <1>2, OnlyStaged DEF AbortVictim
<1>7. /\ q.role \in Roles \union {"none"}
      /\ q.op # "login" => q.role \in Roles
    BY <1>2, <1>5 DEF WellFormed, Requested
<1>8. QED
    BY <1>1, <1>5, <1>6, <1>7, Finishes DEF Ends, AbortVictim

-----------------------------------------------------------------------------
(* The runs and their readers *)

\* A run that is active and has not slipped was so before.
RunMoved(run) ==
    /\ runs'[run].author = runs[run].author /\ runs'[run].under = runs[run].under
    /\ runs'[run].status = "active" =>
           run \in slipped' \/ (runs[run].status = "active" /\ run \notin slipped)

LEMMA ClosedIs ==
    ASSUME AccessIInv, NEW run \in Requests, Closed(run)
    PROVE  /\ runs' \in [Requests -> RunRows] /\ slipped' \subseteq Requests
           /\ \A u \in Requests : RunMoved(u)
           /\ runs'[run].status # "active"
<1>1. runs \in [Requests -> RunRows] /\ slipped \subseteq Requests /\ slipped' = slipped \ {run}
    BY DEF AccessIInv, RowsTyped, Closed
<1>2. PICK status : status = IF runs[run].status = "active" THEN "ended" ELSE runs[run].status
    OBVIOUS
<1>3. PICK row : row = [runs[run] EXCEPT !.status = status]
    OBVIOUS
<1>4. /\ row \in RunRows /\ row.author = runs[run].author /\ row.under = runs[run].under
      /\ row.status = status /\ status # "active"
    BY <1>1, <1>2, <1>3 DEF RunRows
<1>5. runs' = [runs EXCEPT ![run] = row]
    BY <1>2, <1>3 DEF Closed
<1>6. runs' \in [Requests -> RunRows] /\ runs'[run] = row
      /\ \A u \in Requests \ {run} : runs'[u] = runs[u]
    BY <1>1, <1>4, <1>5
<1>7. QED
    BY <1>1, <1>4, <1>6 DEF RunMoved

\* Nobody's knowledge depends on a run that was already active.
LEMMA RunsMove ==
    ASSUME AccessIInv,
           runs' \in [Requests -> RunRows], reader' \in [Requests -> {"none", "due", "reading"}],
           \A run \in Requests : RunMoved(run),
           RequestsTyped',
           \A s \in Requests :
               \/ request'[s] = request[s]
               \/ /\ request'[s].stage \in {"cancelling", "done"}
                  /\ request'[s].op = request[s].op /\ request'[s].by = request[s].by
                  /\ request'[s].on = request[s].on,
           UNCHANGED <<member, mandate, assigned, thread, ledger, held, founders>>,
           orphans' \subseteq Requests, missed' \subseteq Requests, slipped' \subseteq Requests,
           faults' \in 0 .. MaxFaults,
           RevokedRunsAreFollowed'
    PROVE  AccessIInv'
<1>1. RowsTyped' /\ Exclusive'
    BY DEF AccessIInv, RowsTyped, Exclusive
<1>2. OwnersMayOwn' /\ Founded' /\ Distinct'
  <2>1. OwnersMayOwn' /\ Founded'
    BY DEF AccessIInv, OwnersMayOwn, Founded, OneFounder, Inhabited
  <2>2. \A s \in Requests : request'[s].op = request[s].op /\ request'[s].on = request[s].on
    OBVIOUS
  <2>3. Distinct'
    BY <2>2 DEF AccessIInv, Distinct
  <2>4. QED
    BY <2>1, <2>3
<1>3. ASSUME NEW s \in Requests, NEW q \in Requested, request'[s] = q
      PROVE  Sound(s, q)'
  <2>1. PICK p : p = request[s]
    OBVIOUS
  <2>2. p \in Requested /\ WellFormed(p) /\ Sound(s, p) /\ p.step \in Nat
    BY <2>1, RequestFacts
  <2>3. Lasting(p)'
    BY <2>2 DEF Sound, Lasting
  <2>4. CASE q = p
    <3>1. ASSUME Open(p) PROVE Knows(s, p)'
      <4>0. Knows(s, p)
        BY <2>2, <3>1 DEF Sound
      <4>1. OnPlan(p)'
        BY <4>0 DEF Knows, OnPlan, Plan, InsertLocks, TransferLocks, RoleLocks
      <4>2. /\ p.op = "create" /\ p.step >= 1 => member[p.by] \in OwnerRoles
            /\ p.op = "transfer" /\ p.step >= 4 => member[p.to] \in OwnerRoles
            /\ p.op = "role" /\ p.step >= 4 => ~Owns(p.on)'
            /\ p.op = "login" /\ p.step >= 1 => ~Inhabited'
        BY <4>0 DEF Knows, CreateKnows, TransferKnows, RoleKnows, LoginKnows, Owns, Inhabited
      <4>3. p.op \in {"revoke", "unassign"} /\ p.step >= 1 =>
                Targets(p)' \subseteq p.targets \union slipped'
        <5> SUFFICES ASSUME p.op \in {"revoke", "unassign"}, p.step >= 1,
                            NEW run \in Targets(p)', run \notin slipped'
                     PROVE  run \in p.targets
          OBVIOUS
        <5>1. run \in Requests /\ run \in Targets(p) /\ run \notin slipped
          BY DEF Targets, Active, RunMoved
        <5>2. QED
          BY <4>0, <5>1 DEF Knows, RevocationKnows
      <4>4. KeepsLocks(s, p)
        BY DEF KeepsLocks, KeepsLocksOf
      <4>5. QED
        BY <2>2, <4>0, <4>1, <4>2, <4>3, <4>4, KnowsStays
    <3>2. Appended(s, p)'
      BY <2>2 DEF Sound, Appended, Has, Warranted, Unmandated, Authorised
    <3>3. QED
      BY <2>3, <2>4, <3>1, <3>2 DEF Sound
  <2>5. CASE q # p
    <3>1. q.stage \in {"cancelling", "done"} /\ q.op = p.op /\ q.by = p.by /\ q.on = p.on
      BY <1>3, <2>1, <2>5
    <3>2. Lasting(q)'
      BY <2>3, <3>1 DEF Lasting
    <3>3. QED
      BY <3>1, <3>2 DEF Sound, Open, Appended
  <2>6. QED
    BY <2>4, <2>5
<1>4. QED
    BY <1>1, <1>2, <1>3 DEF AccessIInv

\* A run of a lost mandate that is not listed any more is followed in another way.
LEMMA FollowedStays ==
    ASSUME AccessIInv, UNCHANGED <<mandate, assigned>>,
           \A run \in Requests : RunMoved(run),
           \A run \in Requests : /\ runs'[run].status = "active" /\ LostMandate(run)
                                 /\ run \in orphans \union missed
                                 => run \in (orphans \union missed \union slipped)',
           \A run \in Requests :
               /\ runs'[run].status = "active"
               /\ \E s \in Requests : request[s].stage = "cancelling" /\ run \in request[s].targets
               => \/ run \in (orphans \union missed \union slipped)'
                  \/ \E s \in Requests : request'[s].stage = "cancelling" /\ run \in request'[s].targets
    PROVE  RevokedRunsAreFollowed'
<1> SUFFICES ASSUME NEW run \in Requests, runs'[run].status = "active", LostMandate(run)',
                    run \notin (orphans \union missed \union slipped)'
             PROVE  \E s \in Requests : request'[s].stage = "cancelling" /\ run \in request'[s].targets
    BY DEF RevokedRunsAreFollowed, Active
<1>1. Active(run) /\ LostMandate(run) /\ run \notin slipped
    BY DEF Active, LostMandate, Authorised, RunMoved
<1>2. \/ run \in orphans \union missed
      \/ \E s \in Requests : request[s].stage = "cancelling" /\ run \in request[s].targets
    BY <1>1 DEF AccessIInv, RevokedRunsAreFollowed
<1>3. QED
    BY <1>1, <1>2

\* The steps of the readers change no request.
LEMMA ReadersMove ==
    ASSUME AccessIInv, NEW run \in Requests,
           runs' \in [Requests -> RunRows], slipped' \subseteq Requests,
           \A u \in Requests : RunMoved(u),
           NEW doing \in {"none", "due", "reading"}, reader' = [reader EXCEPT ![run] = doing],
           UNCHANGED <<member, mandate, assigned, thread, ledger, request, held, founders,
                       orphans, missed, faults>>
    PROVE  AccessIInv'
<1>1. reader' \in [Requests -> {"none", "due", "reading"}]
    BY DEF AccessIInv, RowsTyped
<1>2. RequestsTyped'
    BY DEF AccessIInv, RequestsTyped, WellFormed
<1>3. RevokedRunsAreFollowed'
    BY FollowedStays
<1>4. QED
    BY <1>1, <1>2, <1>3, RunsMove DEF AccessIInv, RowsTyped

LEMMA SameReader ==
    ASSUME AccessIInv, NEW run \in Requests, UNCHANGED reader
    PROVE  \E doing \in {"none", "due", "reading"} : reader' = [reader EXCEPT ![run] = doing]
BY DEF AccessIInv, RowsTyped

LEMMA ReaderIsSafe ==
    ASSUME AccessIInv, NEW run \in Requests,
           StartReader(run) \/ LeaveRun(run) \/ respondRunApproval(run)
    PROVE  AccessIInv'
<1>1. /\ \E doing \in {"none", "due", "reading"} : reader' = [reader EXCEPT ![run] = doing]
      /\ UNCHANGED <<member, mandate, assigned, thread, runs, ledger, request, held, founders,
                     orphans, missed, slipped, faults>>
    BY DEF StartReader, LeaveRun, respondRunApproval, rows
<1>2. /\ runs' \in [Requests -> RunRows] /\ slipped' \subseteq Requests
      /\ \A u \in Requests : RunMoved(u)
    BY <1>1 DEF AccessIInv, RowsTyped, RunMoved
<1>3. QED
    BY <1>1, <1>2, ReadersMove

LEMMA MarkActiveIsSafe ==
    ASSUME AccessIInv, NEW run \in Requests, MarkActive(run)
    PROVE  AccessIInv'
<1>1. /\ runs' = [runs EXCEPT ![run].status = "active"] /\ slipped' = slipped \union {run}
      /\ UNCHANGED <<member, mandate, assigned, thread, ledger, request, held, founders, reader,
                     orphans, missed, faults>>
    BY DEF MarkActive
<1>2. runs \in [Requests -> RunRows] /\ slipped \subseteq Requests
    BY DEF AccessIInv, RowsTyped
<1>3. PICK row : row = [runs[run] EXCEPT !.status = "active"]
    OBVIOUS
<1>4. row \in RunRows /\ row.author = runs[run].author /\ row.under = runs[run].under
    BY <1>2, <1>3 DEF RunRows
<1>5. runs' = [runs EXCEPT ![run] = row]
    BY <1>1, <1>3
<1>6. /\ runs' \in [Requests -> RunRows] /\ runs'[run] = row
      /\ \A u \in Requests \ {run} : runs'[u] = runs[u]
    BY <1>2, <1>4, <1>5
<1>7. \A u \in Requests : RunMoved(u)
    BY <1>1, <1>4, <1>6 DEF RunMoved
<1>8. QED
    BY <1>1, <1>2, <1>6, <1>7, SameReader, ReadersMove

LEMMA EndRunIsSafe ==
    ASSUME AccessIInv, NEW run \in Requests, EndRun(run)
    PROVE  AccessIInv'
<1>1. /\ Closed(run) /\ \E doing \in {"none", "due", "reading"} : reader' = [reader EXCEPT ![run] = doing]
      /\ UNCHANGED <<member, mandate, assigned, thread, ledger, request, held, founders,
                     orphans, missed, faults>>
    BY SameReader DEF EndRun
<1>2. QED
    BY <1>1, ClosedIs, ReadersMove

\* The request whose list of runs becomes shorter.
LEMMA TargetMoves ==
    ASSUME AccessIInv, NEW r \in Requests, NEW run \in Requests, NextTarget(r, run)
    PROVE  /\ RequestsTyped'
           /\ \A s \in Requests :
                  \/ request'[s] = request[s]
                  \/ /\ request'[s].stage \in {"cancelling", "done"}
                     /\ request'[s].op = request[s].op /\ request'[s].by = request[s].by
                     /\ request'[s].on = request[s].on
           /\ \A u \in Requests \ {run} :
                  (\E s \in Requests : request[s].stage = "cancelling" /\ u \in request[s].targets)
                    => \E s \in Requests : request'[s].stage = "cancelling" /\ u \in request'[s].targets
<1>1. PICK q : q = request[r]
    OBVIOUS
<1>2. q \in Requested /\ WellFormed(q) /\ q.stage = "cancelling"
    BY <1>1, RequestFacts DEF NextTarget
<1>3. PICK stage, left : /\ stage = IF q.targets = {run} THEN "done" ELSE q.stage
                         /\ left = q.targets \ {run}
    OBVIOUS
<1>4. stage \in {"cancelling", "done"} /\ left \in SUBSET Requests
    BY <1>2, <1>3 DEF Requested
<1>5. PICK a : a = [q EXCEPT !.targets = left]
    OBVIOUS
<1>6. PICK n : n = [a EXCEPT !.stage = stage]
    OBVIOUS
<1>7. a \in Requested /\ a.op = q.op /\ a.by = q.by /\ a.role = q.role /\ a.under = q.under
      /\ a.on = q.on /\ a.to = q.to /\ a.verdict = q.verdict /\ a.targets = left
    BY <1>2, <1>4, <1>5 DEF Requested
<1>8. n \in Requested /\ n.op = q.op /\ n.by = q.by /\ n.role = q.role /\ n.under = q.under
      /\ n.on = q.on /\ n.to = q.to /\ n.verdict = q.verdict /\ n.targets = left /\ n.stage = stage
    BY <1>4, <1>6, <1>7 DEF Requested
<1>9. WellFormed(n)
    BY <1>2, <1>4, <1>8 DEF WellFormed
<1>10. request' = [request EXCEPT ![r] = n]
    BY <1>1, <1>3, <1>5, <1>6 DEF NextTarget, AccessIInv, RequestsTyped
<1>11. /\ RequestsTyped' /\ request'[r] = n
       /\ \A s \in Requests : s # r => request'[s] = request[s]
    BY <1>8, <1>9, <1>10, OthersStay
<1>12. ASSUME NEW u \in Requests \ {run}, NEW s \in Requests,
              request[s].stage = "cancelling", u \in request[s].targets
       PROVE  \E x \in Requests : request'[x].stage = "cancelling" /\ u \in request'[x].targets
  <2>1. CASE s = r
    <3>1. u \in left /\ stage = "cancelling"
      BY <1>1, <1>2, <1>3, <1>12, <2>1
    <3>2. QED
      BY <1>8, <1>11, <3>1
  <2>2. CASE s # r
    BY <1>11, <1>12, <2>2
  <2>3. QED
    BY <2>1, <2>2
<1>13. QED
    BY <1>4, <1>8, <1>1, <1>11, <1>12

LEMMA CancellationIsSafe ==
    ASSUME AccessIInv, NEW r \in Requests, NEW run \in Requests, cancelRevokedRuns(r, run)
    PROVE  AccessIInv'
<1>1. NextTarget(r, run) /\ Closed(run)
      /\ UNCHANGED <<member, mandate, assigned, thread, ledger, held, founders,
                     reader, orphans, missed, faults>>
    BY DEF cancelRevokedRuns
<1>2. /\ runs' \in [Requests -> RunRows] /\ slipped' \subseteq Requests
      /\ \A u \in Requests : RunMoved(u)
      /\ runs'[run].status # "active"
    BY <1>1, ClosedIs
<1>3. RevokedRunsAreFollowed'
    BY <1>1, <1>2, TargetMoves, FollowedStays
<1>4. QED
    BY <1>1, <1>2, <1>3, TargetMoves, RunsMove DEF AccessIInv, RowsTyped

LEMMA MissedIsSafe ==
    ASSUME AccessIInv, NEW r \in Requests, NEW run \in Requests, MissCancellation(r, run)
    PROVE  AccessIInv'
<1>1. /\ NextTarget(r, run) /\ missed' = missed \union {run}
      /\ faults < MaxFaults /\ faults' = faults + 1
      /\ UNCHANGED <<member, mandate, assigned, thread, runs, ledger, held, founders,
                     reader, orphans, slipped>>
    BY DEF MissCancellation, rows
<1>2. /\ runs' \in [Requests -> RunRows] /\ \A u \in Requests : RunMoved(u)
    BY <1>1 DEF AccessIInv, RowsTyped, RunMoved
<1>3. RevokedRunsAreFollowed'
    BY <1>1, <1>2, TargetMoves, FollowedStays
<1>4. faults' \in 0 .. MaxFaults
    BY <1>1, AccessAssumption DEF AccessIInv, RowsTyped
<1>5. QED
    BY <1>1, <1>2, <1>3, <1>4, TargetMoves, RunsMove DEF AccessIInv, RowsTyped

\* The boot.
LEMMA ReconcileOneIsSafe ==
    ASSUME AccessIInv, NEW run \in Requests, reconcileOne(run)
    PROVE  AccessIInv'
<1>1. /\ orphans' = orphans \ {run} /\ missed \subseteq missed' /\ missed' \subseteq missed \union {run}
      /\ UNCHANGED <<member, mandate, assigned, thread, ledger, request, held, founders>>
    BY DEF reconcileOne
<1>2. /\ runs' \in [Requests -> RunRows] /\ slipped' \subseteq Requests
      /\ \A u \in Requests : RunMoved(u)
      /\ runs'[run].status = "active" /\ LostMandate(run) => run \in (missed \union slipped)'
  <2>1. CASE Closed(run)
    BY <2>1, ClosedIs
  <2>2. CASE UNCHANGED runs /\ slipped \subseteq slipped' /\ slipped' \subseteq Requests
             /\ (Active(run) /\ LostMandate(run) => run \in (missed \union slipped)')
    BY <2>2 DEF AccessIInv, RowsTyped, RunMoved, Active
  <2>3. QED
    BY <2>1, <2>2 DEF reconcileOne, AccessIInv, RowsTyped
<1>3. reader' \in [Requests -> {"none", "due", "reading"}] /\ faults' \in 0 .. MaxFaults
  <2>0. reader \in [Requests -> {"none", "due", "reading"}] /\ faults \in 0 .. MaxFaults
    BY DEF AccessIInv, RowsTyped
  <2>1. UNCHANGED faults \/ (faults < MaxFaults /\ faults' = faults + 1)
    BY DEF reconcileOne
  <2>2. UNCHANGED reader \/ reader' = [reader EXCEPT ![run] = "due"]
    BY DEF reconcileOne
  <2>3. faults' \in 0 .. MaxFaults
    BY <2>0, <2>1, AccessAssumption
  <2>4. QED
    BY <2>0, <2>2, <2>3
<1>4. RequestsTyped'
    BY <1>1 DEF AccessIInv, RequestsTyped, WellFormed
<1>5. RevokedRunsAreFollowed'
    BY <1>1, <1>2, FollowedStays
<1>6. QED
    BY <1>1, <1>2, <1>3, <1>4, <1>5, RunsMove DEF AccessIInv, RowsTyped

LEMMA CrashIsSafe ==
    ASSUME AccessIInv, CrashAccess
    PROVE  AccessIInv'
<1>1. /\ held' = {} /\ orphans' = {run \in Requests : Active(run)}
      /\ missed' = {} /\ slipped' = {} /\ reader' = [r \in Requests |-> "none"]
      /\ faults < MaxFaults /\ faults' = faults + 1
      /\ UNCHANGED <<member, mandate, assigned, thread, runs, ledger, founders>>
    BY DEF CrashAccess, rows
<1>2. RowsTyped' /\ Exclusive'
  <2>1. faults' \in 0 .. MaxFaults
    BY <1>1, AccessAssumption DEF AccessIInv, RowsTyped
  <2>2. QED
    BY <1>1, <2>1 DEF AccessIInv, RowsTyped, Exclusive
<1>3. ASSUME NEW s \in Requests
      PROVE  /\ request'[s] \in Requested /\ WellFormed(request'[s])
             /\ request'[s].op = request[s].op /\ request'[s].by = request[s].by
             /\ request'[s].on = request[s].on
             /\ request'[s].stage \in {"idle", "done"}
  <2>1. PICK q : q = request[s]
    OBVIOUS
  <2>2. q \in Requested /\ WellFormed(q)
    BY <2>1, RequestFacts
  <2>3. PICK a : a = [q EXCEPT !.stage = "done"]
    OBVIOUS
  <2>4. PICK n : n = [a EXCEPT !.targets = {}]
    OBVIOUS
  <2>5. a \in Requested /\ a.op = q.op /\ a.by = q.by /\ a.role = q.role /\ a.under = q.under
        /\ a.on = q.on /\ a.to = q.to /\ a.verdict = q.verdict /\ a.stage = "done"
    BY <2>2, <2>3 DEF Requested
  <2>6. n \in Requested /\ n.op = q.op /\ n.by = q.by /\ n.role = q.role /\ n.under = q.under
        /\ n.on = q.on /\ n.to = q.to /\ n.verdict = q.verdict /\ n.stage = "done"
    BY <2>4, <2>5 DEF Requested
  <2>7. q.stage # "idle" => WellFormed(n)
    BY <2>2, <2>6 DEF WellFormed
  <2>8. request'[s] = IF q.stage = "idle" THEN q ELSE n
    BY <2>1, <2>3, <2>4 DEF CrashAccess
  <2>9. QED
    BY <2>1, <2>2, <2>6, <2>7, <2>8
<1>4. RequestsTyped'
  <2>1. request' \in [Requests -> Requested]
    <3>1. request' = [s \in Requests |-> request'[s]]
      BY DEF CrashAccess
    <3>2. QED
      BY <1>3, <3>1
  <2>2. QED
    BY <1>3, <2>1 DEF RequestsTyped, WellFormed
<1>5. OwnersMayOwn' /\ Founded' /\ RevokedRunsAreFollowed'
  <2>1. OwnersMayOwn' /\ Founded'
    BY <1>1 DEF AccessIInv, OwnersMayOwn, Founded, OneFounder, Inhabited
  <2>2. RevokedRunsAreFollowed'
    BY <1>1 DEF RevokedRunsAreFollowed, Active
  <2>3. QED
    BY <2>1, <2>2
<1>6. Distinct'
  <2>1. \A s \in Requests : request'[s].op = request[s].op /\ request'[s].on = request[s].on
    BY <1>3
  <2>2. QED
    BY <2>1 DEF AccessIInv, Distinct
<1>7. ASSUME NEW s \in Requests, NEW q \in Requested, request'[s] = q
      PROVE  Sound(s, q)'
  <2>1. PICK p : p = request[s]
    OBVIOUS
  <2>2. Lasting(p)
    BY <2>1, RequestFacts DEF Sound
  <2>3. q.op = p.op /\ q.by = p.by /\ q.on = p.on /\ q.stage \in {"idle", "done"}
    BY <1>3, <1>7, <2>1
  <2>4. Lasting(q)'
    BY <1>1, <2>2, <2>3 DEF Lasting
  <2>5. QED
    BY <2>3, <2>4 DEF Sound, Open, Appended
<1>8. QED
    BY <1>2, <1>4, <1>5, <1>6, <1>7 DEF AccessIInv

-----------------------------------------------------------------------------
(* The commits *)

\* The request that ends when rows have changed.
LEMMA CommitMoves ==
    ASSUME AccessIInv, NEW r \in Requests, NEW n \in Requested, WellFormed(n), Lasting(n)',
           n.op = request[r].op, n.on = request[r].on, n.stage \in {"cancelling", "done"},
           request' = [request EXCEPT ![r] = n], Release(r),
           \A s \in Requests \ {r}, q \in Requested : request[s] = q => Sound(s, q)',
           RowsTyped', OwnersMayOwn', Founded', RevokedRunsAreFollowed'
    PROVE  AccessIInv'
<1>1. /\ RequestsTyped' /\ request'[r] = n
      /\ \A s \in Requests : s # r => request'[s] = request[s]
    BY OthersStay
<1>2. ASSUME NEW s \in Requests, NEW q \in Requested, request'[s] = q
      PROVE  Sound(s, q)'
  <2>1. CASE s = r
    <3>1. q = n
      BY <1>1, <1>2, <2>1
    <3>2. Sound(s, n)'
      BY DEF Sound, Open, Appended
    <3>3. QED
      BY <3>1, <3>2
  <2>2. CASE s # r
    BY <1>1, <1>2, <2>2
  <2>3. QED
    BY <2>1, <2>2
<1>3. Distinct'
  <2>1. \A s \in Requests : request'[s].op = request[s].op /\ request'[s].on = request[s].on
    BY <1>1
  <2>2. QED
    BY <2>1 DEF AccessIInv, Distinct
<1>4. QED
    BY <1>1, <1>2, <1>3, Releases DEF AccessIInv

\* Two transactions do not hold one lock when their modes conflict.
LEMMA HeldApart ==
    ASSUME AccessIInv, NEW r, NEW s, NEW object, NEW mode, NEW other,
           Has(r, object, mode), Has(s, object, other), Conflicts(mode, other)
    PROVE  r = s
<1>1. PICK l, m : l = <<r, object, mode>> /\ m = <<s, object, other>>
    OBVIOUS
<1>2. l \in held /\ m \in held /\ l[2] = m[2] /\ Conflicts(l[3], m[3])
    BY <1>1 DEF Has
<1>3. l[1] = m[1]
    BY <1>2 DEF AccessIInv, Exclusive
<1>4. QED
    BY <1>1, <1>3

LEMMA CommitLoginIsSafe ==
    ASSUME AccessIInv, NEW r \in Requests, CommitLogin(r)
    PROVE  AccessIInv'
<1>1. PICK q : q = request[r]
    OBVIOUS
<1>2. q \in Requested /\ WellFormed(q) /\ Sound(r, q) /\ q.step \in Nat
    BY <1>1, RequestFacts
<1>3. /\ q.op = "login" /\ q.verdict = "open" /\ q.stage = "locking" /\ q.step = Len(Plan(q))
      /\ member' = [member EXCEPT ![q.by] = "admin"] /\ founders' = founders \union {q.by}
      /\ Ends(r, [q EXCEPT !.stage = "done"])
      /\ UNCHANGED <<mandate, assigned, thread, runs, ledger, reader, orphans, missed, slipped, faults>>
    BY <1>1 DEF CommitLogin, Ready, following
<1>4. q.by \in Users /\ q.step = 2 /\ Knows(r, q)
    BY <1>2, <1>3, OtherPlans DEF WellFormed, Sound, Open
<1>5. Has(r, <<"bootstrap">>, "take") /\ \A u \in Users : member[u] = "none"
    BY <1>3, <1>4 DEF Knows, LoginKnows, Inhabited
<1>6. PICK n : n = Staged(q, q.role, "done")
    OBVIOUS
<1>7. /\ n \in Requested /\ n.op = q.op /\ n.by = q.by /\ n.role = q.role /\ n.under = q.under
      /\ n.on = q.on /\ n.to = q.to /\ n.stage = "done" /\ n.verdict = q.verdict
  <2>1. PICK role : role = q.role
    OBVIOUS
  <2>2. role \in Roles \union {"none"}
    BY <1>2, <2>1 DEF Requested
  <2>3. QED
    BY <1>2, <1>6, <2>1, <2>2, StagedIs, ZenonT(40)
<1>8. WellFormed(n) /\ Lasting(n)'
    BY <1>2, <1>3, <1>7 DEF WellFormed, Lasting
<1>9. request' = [request EXCEPT ![r] = n] /\ Release(r)
    BY <1>1, <1>2, <1>3, <1>6, OnlyStaged DEF Ends
<1>10. member \in [Users -> Roles \union {"none"}]
    BY DEF AccessIInv, RowsTyped
<1>11. /\ member' \in [Users -> Roles \union {"none"}] /\ member'[q.by] = "admin"
       /\ \A u \in Users \ {q.by} : member'[u] = member[u]
    BY <1>3, <1>4, <1>10 DEF Roles
<1>12. RowsTyped'
  <2>1. held' \subseteq Requests \X Objects \X Modes
    BY <1>9, Releases
  <2>2. QED
    BY <1>3, <1>4, <1>11, <2>1 DEF AccessIInv, RowsTyped
<1>13. OwnersMayOwn'
  <2>1. \A t \in Threads : thread[t] = None
    BY <1>5 DEF AccessIInv, OwnersMayOwn, OwnerRoles, RowsTyped
  <2>2. QED
    BY <1>3, <2>1 DEF AccessIInv, OwnersMayOwn
<1>14. Founded'
  <2>1. founders = {}
    BY <1>5 DEF AccessIInv, Founded, Inhabited
  <2>2. founders' = {q.by}
    BY <1>3, <2>1
  <2>3. Cardinality(founders') = 1
    BY <2>2, FS_Singleton
  <2>4. Inhabited'
    BY <1>4, <1>11 DEF Inhabited
  <2>5. QED
    BY <2>3, <2>4 DEF Founded, OneFounder
<1>15. RevokedRunsAreFollowed'
  <2> SUFFICES ASSUME NEW run \in Requests, Active(run), LostMandate(run),
                      run \notin orphans \union missed \union slipped
               PROVE  \E s \in Requests : request'[s].stage = "cancelling" /\ run \in request'[s].targets
    BY <1>3 DEF RevokedRunsAreFollowed, Active, LostMandate, Authorised
  <2>1. PICK s \in Requests : request[s].stage = "cancelling" /\ run \in request[s].targets
    BY DEF AccessIInv, RevokedRunsAreFollowed
  <2>2. s # r /\ request'[s] = request[s]
    BY <1>1, <1>3, <1>7, <1>8, <1>9, <2>1, OthersStay
  <2>3. QED
    BY <2>1, <2>2
<1>16. ASSUME NEW s \in Requests \ {r}, NEW p \in Requested, request[s] = p
       PROVE  Sound(s, p)'
  <2>1. WellFormed(p) /\ Sound(s, p) /\ p.step \in Nat
    BY <1>16, RequestFacts
  <2>2. p.op \in {"none", "login"}
    <3>1. p.op # "none" => p.by \in Users
      BY <2>1 DEF WellFormed
    <3>2. QED
      BY <1>5, <2>1, <3>1 DEF Sound, Lasting
  <2>3. Lasting(p)'
    BY <2>2 DEF Lasting
  <2>4. p.stage # "appended"
    BY <2>1, <2>2 DEF Sound, Appended, Audited, WellFormed
  <2>5. ASSUME Open(p) PROVE Knows(s, p)'
    <3>1. p.op = "login" /\ p.stage = "locking" /\ Knows(s, p)
      BY <2>1, <2>2, <2>4, <2>5 DEF Open, WellFormed, Sound
    <3>2. p.step = 0
      <4>1. p.step >= 1 => Has(s, <<"bootstrap">>, "take")
        BY <3>1 DEF Knows, LoginKnows
      <4>2. ~Has(s, <<"bootstrap">>, "take")
        BY <1>5, HeldApart DEF Conflicts
      <4>3. QED
        BY <2>1, <4>1, <4>2
    <3>3. OnPlan(p)'
      BY <3>1 DEF Knows, OnPlan, Plan
    <3>4. QED
      BY <3>1, <3>2, <3>3 DEF Knows, LoginKnows
  <2>6. QED
    BY <2>3, <2>4, <2>5 DEF Sound, Appended
<1>17. QED
    BY <1>1, <1>7, <1>8, <1>9, <1>12, <1>13, <1>14, <1>15, <1>16, CommitMoves

\* What a transaction that commits an open decision has locked and read.
Earned(r, q) ==
    /\ q.op = "create" =>
           /\ thread[q.on] = None /\ Has(r, <<"owner", q.by>>, "take")
           /\ member[q.by] \in OwnerRoles
    /\ q.op = "send" => thread[q.on] # None
    /\ q.op \in {"create", "send"} /\ q.under # None => Has(r, <<"mandate", q.under>>, "share")
    /\ q.op = "transfer" =>
           /\ thread[q.on] # None /\ (q.role = "admin" \/ thread[q.on] = q.by)
           /\ Has(r, <<"thread", q.on>>, "take") /\ Has(r, <<"owner", q.to>>, "take")
           /\ member[q.to] \in OwnerRoles
    /\ q.op = "role" =>
           /\ Has(r, <<"roles">>, "take")
           /\ q.to \notin OwnerRoles /\ member[q.on] # "none" =>
                  Has(r, <<"owner", q.on>>, "take") /\ ~Owns(q.on)
    /\ q.op \in {"revoke", "unassign"} => Targets(q) \subseteq q.targets \union slipped

LEMMA CommitEarns ==
    ASSUME AccessIInv, NEW r \in Requests, NEW q \in Requested, WellFormed(q), Lasting(q),
           Knows(r, q), q.stage = "appended", q.step \in Nat
    PROVE  Earned(r, q)
<1>1. q.step = Len(Plan(q))
    BY DEF Knows, OnPlan
<1>2. q.op = "create" =>
          /\ thread[q.on] = None /\ Has(r, <<"owner", q.by>>, "take")
          /\ member[q.by] \in OwnerRoles
          /\ q.under # None => Has(r, <<"mandate", q.under>>, "share")
  <2> SUFFICES ASSUME q.op = "create"
               PROVE  /\ thread[q.on] = None /\ Has(r, <<"owner", q.by>>, "take")
                      /\ member[q.by] \in OwnerRoles
                      /\ q.under # None => Has(r, <<"mandate", q.under>>, "share")
    OBVIOUS
  <2>1. q.step = IF q.under = None THEN 3 ELSE 4
    BY <1>1, CreatePlan
  <2>2. QED
    BY <2>1 DEF Knows, CreateKnows
<1>3. q.op = "send" => /\ thread[q.on] # None
                       /\ q.under # None => Has(r, <<"mandate", q.under>>, "share")
  <2> SUFFICES ASSUME q.op = "send"
               PROVE  /\ thread[q.on] # None
                      /\ q.under # None => Has(r, <<"mandate", q.under>>, "share")
    OBVIOUS
  <2>1. thread[q.on] \in Users
    BY SentToOwned DEF AccessIInv
  <2>2. q.step = IF q.under = None THEN 4 ELSE 5
    BY <1>1, <2>1, SendPlan
  <2>3. QED
    BY <2>2 DEF Knows, Lasting
<1>4. q.op = "transfer" =>
          /\ thread[q.on] # None /\ (q.role = "admin" \/ thread[q.on] = q.by)
          /\ Has(r, <<"thread", q.on>>, "take") /\ Has(r, <<"owner", q.to>>, "take")
          /\ member[q.to] \in OwnerRoles
  <2> SUFFICES ASSUME q.op = "transfer"
               PROVE  /\ thread[q.on] # None /\ (q.role = "admin" \/ thread[q.on] = q.by)
                      /\ Has(r, <<"thread", q.on>>, "take") /\ Has(r, <<"owner", q.to>>, "take")
                      /\ member[q.to] \in OwnerRoles
    OBVIOUS
  <2>1. q.step = 4
    BY <1>1, TransferPlan
  <2>2. QED
    BY <2>1 DEF Knows, TransferKnows, Lasting
<1>5. q.op = "role" =>
          /\ Has(r, <<"roles">>, "take")
          /\ q.to \notin OwnerRoles /\ member[q.on] # "none" =>
                 Has(r, <<"owner", q.on>>, "take") /\ ~Owns(q.on)
  <2> SUFFICES ASSUME q.op = "role"
               PROVE  /\ Has(r, <<"roles">>, "take")
                      /\ q.to \notin OwnerRoles /\ member[q.on] # "none" =>
                             Has(r, <<"owner", q.on>>, "take") /\ ~Owns(q.on)
    OBVIOUS
  <2>1. q.step = IF member[q.on] = "none" \/ q.to \in OwnerRoles THEN 3 ELSE 4
    BY <1>1, RolePlan
  <2>2. QED
    BY <2>1 DEF Knows, RoleKnows
<1>6. q.op \in {"revoke", "unassign"} => Targets(q) \subseteq q.targets \union slipped
  <2> SUFFICES ASSUME q.op \in {"revoke", "unassign"} PROVE Targets(q) \subseteq q.targets \union slipped
    OBVIOUS
  <2>1. q.step = 1
    BY <1>1, OtherPlans
  <2>2. QED
    BY <2>1 DEF Knows, RevocationKnows
<1>7. QED
    BY <1>2, <1>3, <1>4, <1>5, <1>6 DEF Earned

\* What a decision writes, row by row.
WrittenRow(q, t) ==
    thread'[t] = IF t = q.on /\ q.op = "create" THEN q.by
                 ELSE IF t = q.on /\ q.op = "transfer" THEN q.to ELSE thread[t]

WrittenRun(r, q, run) ==
    runs'[run] = IF run = r /\ q.op \in {"create", "send"} THEN Created(q) ELSE runs[run]

LEMMA CreatedIs ==
    ASSUME NEW q \in Requested, WellFormed(q), q.op \in {"create", "send"}
    PROVE  /\ Created(q) \in RunRows /\ Created(q).author = q.by
           /\ Created(q).under = q.under /\ Created(q).status = "active"
BY DEF Requested, WellFormed, Created, RunRows

LEMMA WrittenRows ==
    ASSUME RowsTyped, NEW r \in Requests, NEW q \in Requested, WellFormed(q),
           q.op \notin {"none", "login"}, Written(r, q)
    PROVE  /\ member' \in [Users -> Roles \union {"none"}]
           /\ mandate' \in [Mandates -> {"none", "active", "revoked"}]
           /\ assigned' \subseteq Mandates \X Users
           /\ thread' \in [Threads -> Users \union {None}]
           /\ \A u \in Users : member'[u] = IF q.op = "role" /\ q.on = u THEN q.to ELSE member[u]
           /\ q.op \notin {"mandate", "revoke"} => mandate' = mandate
           /\ q.op \notin {"assign", "unassign"} => assigned' = assigned
           /\ \A m \in Mandates : q.op # "revoke" \/ q.on # m =>
                  (mandate[m] = "active" => mandate'[m] = "active")
           /\ \A m, u : q.op # "unassign" \/ q.on # m \/ q.to # u =>
                  (<<m, u>> \in assigned => <<m, u>> \in assigned')
           /\ \A t \in Threads : WrittenRow(q, t)
           /\ runs' \in [Requests -> RunRows] /\ reader' \in [Requests -> {"none", "due", "reading"}]
           /\ \A run \in Requests : WrittenRun(r, q, run)
<1>0. /\ member \in [Users -> Roles \union {"none"}]
      /\ mandate \in [Mandates -> {"none", "active", "revoked"}]
      /\ assigned \subseteq Mandates \X Users /\ thread \in [Threads -> Users \union {None}]
    BY DEF RowsTyped
<1>1. /\ member' \in [Users -> Roles \union {"none"}]
      /\ \A u \in Users : member'[u] = IF q.op = "role" /\ q.on = u THEN q.to ELSE member[u]
    BY <1>0 DEF Written, WellFormed
<1>2. /\ mandate' \in [Mandates -> {"none", "active", "revoked"}]
      /\ q.op \notin {"mandate", "revoke"} => mandate' = mandate
      /\ \A m \in Mandates : q.op # "revoke" \/ q.on # m =>
             (mandate[m] = "active" => mandate'[m] = "active")
    BY <1>0 DEF Written, WellFormed
<1>3. /\ assigned' \subseteq Mandates \X Users
      /\ q.op \notin {"assign", "unassign"} => assigned' = assigned
      /\ \A m, u : q.op # "unassign" \/ q.on # m \/ q.to # u =>
             (<<m, u>> \in assigned => <<m, u>> \in assigned')
  <2>1. CASE q.op = "assign"
    BY <1>0, <2>1 DEF Written, WellFormed
  <2>2. CASE q.op = "unassign"
    BY <1>0, <2>2 DEF Written, WellFormed
  <2>3. CASE q.op \notin {"assign", "unassign"}
    BY <1>0, <2>3 DEF Written, WellFormed
  <2>4. QED
    BY <2>1, <2>2, <2>3
<1>4. thread' \in [Threads -> Users \union {None}] /\ \A t \in Threads : WrittenRow(q, t)
    BY <1>0 DEF Written, WellFormed, WrittenRow
<1>5. /\ runs' \in [Requests -> RunRows] /\ reader' \in [Requests -> {"none", "due", "reading"}]
      /\ \A run \in Requests : WrittenRun(r, q, run)
  <2>0. runs \in [Requests -> RunRows] /\ reader \in [Requests -> {"none", "due", "reading"}]
    BY DEF RowsTyped
  <2>1. CASE q.op \in {"create", "send"}
    <3>1. PICK row : row = Created(q)
      OBVIOUS
    <3>2. row \in RunRows
      BY <2>1, <3>1, CreatedIs
    <3>3. runs' = [runs EXCEPT ![r] = row] /\ reader' = [reader EXCEPT ![r] = "due"]
      BY <2>1, <3>1 DEF Written
    <3>4. QED
      BY <2>0, <2>1, <3>1, <3>2, <3>3 DEF WrittenRun
  <2>2. CASE q.op \notin {"create", "send"}
    BY <2>0, <2>2 DEF Written, WrittenRun
  <2>3. QED
    BY <2>1, <2>2
<1>6. QED
    BY <1>1, <1>2, <1>3, <1>4, <1>5

\* The number of locks of another transaction, whatever the rows have become.
LEMMA SendLength ==
    ASSUME NEW q \in Requested, WellFormed(q), q.op = "send", NEW owner \in Users
    PROVE  /\ (<<<<<<"thread", q.on>>, "take">>>> \o InsertLocks(owner, q.under)) \in Seq(Lock)
           /\ Len(<<<<<<"thread", q.on>>, "take">>>> \o InsertLocks(owner, q.under))
                = IF q.under = None THEN 4 ELSE 5
<1> DEFINE a == <<<<"thread", q.on>>, "take">>
           first == <<a>>
           then == InsertLocks(owner, q.under)
<1>1. a \in Lock
    BY PlanLocks DEF WellFormed
<1>2. then \in Seq(Lock) /\ Len(then) = IF q.under = None THEN 3 ELSE 4
  <2>1. PICK under : under = q.under
    OBVIOUS
  <2>2. under \in Mandates \union {None}
    BY <2>1 DEF Requested
  <2>3. /\ InsertLocks(owner, under) \in Seq(Lock)
        /\ Len(InsertLocks(owner, under)) = IF under = None THEN 3 ELSE 4
    BY <2>2, InsertionLocks
  <2>4. QED
    BY <2>1, <2>3
<1> HIDE DEF a, then
<1>3. first \in Seq(Lock) /\ Len(first) = 1
    BY <1>1, ShortPlans
<1> HIDE DEF first
<1>4. first \o then \in Seq(Lock) /\ Len(first \o then) = Len(first) + Len(then)
    BY <1>2, <1>3, Joined
<1>5. first \o then \in Seq(Lock) /\ Len(first \o then) = IF q.under = None THEN 4 ELSE 5
    BY <1>2, <1>3, <1>4
<1>6. QED
    BY <1>5 DEF first, then, a

LEMMA RoleLength ==
    ASSUME NEW q \in Requested, WellFormed(q), q.op = "role"
    PROVE  Len(Plan(q))' \in Nat
<1> DEFINE first == <<<<<<"roles">>, "take">>, <<<<"member", q.by>>, "take">>>>
           site == <<<<<<"site">>, "share">>>>
           row == <<<<<<"member", q.on>>, "change">>>>
           owner == <<<<<<"owner", q.on>>, "take">>>>
           change == row \o (IF q.to \in OwnerRoles THEN <<>> ELSE owner)
           then == IF member'[q.on] = "none" THEN site ELSE change
<1>1. /\ first \in Seq(Lock) /\ site \in Seq(Lock) /\ row \in Seq(Lock)
      /\ owner \in Seq(Lock) /\ <<>> \in Seq(Lock)
    BY PlanLocks, ShortPlans DEF WellFormed
<1>2. Plan(q)' = first \o then
    BY DEF Plan, RoleLocks
<1> HIDE DEF first, site, row, owner
<1>3. change \in Seq(Lock)
    BY <1>1, Joined
<1> HIDE DEF change
<1>4. then \in Seq(Lock)
    BY <1>1, <1>3
<1> HIDE DEF then
<1>5. first \o then \in Seq(Lock)
    BY <1>1, <1>4, Joined
<1>6. Len(first \o then) \in Nat
    BY <1>5
<1>7. QED
    BY <1>2, <1>6

\* What a decision writes leaves every other transaction what it knows.
LEMMA OthersKnow ==
    ASSUME AccessIInv, NEW r \in Requests, NEW q \in Requested, request[r] = q,
           WellFormed(q), Lasting(q), q.op \notin {"none", "login"}, Earned(r, q), Written(r, q),
           UNCHANGED slipped,
           NEW s \in Requests, s # r, KeepsLocksOf(s),
           NEW p \in Requested, request[s] = p, WellFormed(p), Lasting(p), p.step \in Nat,
           p.stage = "locking", p.verdict = "open", Knows(s, p)
    PROVE  Knows(s, p)'
<1>0. /\ q.by \in Users /\ member[q.by] # "none"
      /\ member \in [Users -> Roles \union {"none"}]
      /\ thread \in [Threads -> Users \union {None}]
    BY DEF WellFormed, Lasting, AccessIInv, RowsTyped
<1>1. /\ \A u \in Users : member'[u] = IF q.op = "role" /\ q.on = u THEN q.to ELSE member[u]
      /\ \A t \in Threads : WrittenRow(q, t)
      /\ \A run \in Requests : WrittenRun(r, q, run)
      /\ member' \in [Users -> Roles \union {"none"}]
    BY WrittenRows DEF AccessIInv
<1>2. \A object : Has(r, object, "take") => \A mode : ~Has(s, object, mode)
    BY HeldApart DEF Conflicts
<1>3. \A object : Has(s, object, "take") => \A mode : ~Has(r, object, mode)
    BY HeldApart DEF Conflicts
\* An owner whose key the transaction holds keeps his role, and his conversations.
<1>4. ASSUME NEW u \in Users, Has(s, <<"owner", u>>, "take"), member[u] \in OwnerRoles
      PROVE  member'[u] \in OwnerRoles
  <2>1. CASE q.op = "role" /\ q.on = u
    <3>1. member[q.on] # "none"
      BY <1>4, <2>1 DEF OwnerRoles
    <3>2. q.to \in OwnerRoles
      BY <1>3, <1>4, <2>1, <3>1 DEF Earned
    <3>3. QED
      BY <1>1, <2>1, <3>2
  <2>2. CASE ~(q.op = "role" /\ q.on = u)
    <3>1. member'[u] = member[u]
      BY <1>1, <2>2
    <3>2. QED
      BY <1>4, <3>1
  <2>3. QED
    BY <2>1, <2>2
<1>5. OnPlan(p)'
  <2>0. p.step <= Len(Plan(p))
    BY DEF Knows, OnPlan
  <2>1. CASE p.op = "send"
    <3>1. p.on \in Threads /\ thread[p.on] \in Users
      BY <2>1, SentToOwned DEF WellFormed, AccessIInv
    <3>2. thread'[p.on] \in Users
      BY <1>0, <1>1, <3>1 DEF WrittenRow, WellFormed
    <3>3. PICK old, new : old = thread[p.on] /\ new = thread'[p.on]
      OBVIOUS
    <3>4. /\ Plan(p) = <<<<<<"thread", p.on>>, "take">>>> \o InsertLocks(old, p.under)
          /\ Plan(p)' = <<<<<<"thread", p.on>>, "take">>>> \o InsertLocks(new, p.under)
      BY <2>1, <3>3 DEF Plan, InsertLocks
    <3>5. Len(Plan(p))' = Len(Plan(p))
      BY <2>1, <3>1, <3>2, <3>3, <3>4, SendLength
    <3>6. QED
      BY <2>0, <3>5 DEF OnPlan
  <2>2. CASE p.op = "role" /\ p.step = 0
    BY <2>2, RoleLength DEF OnPlan
  <2>3. CASE p.op = "role" /\ p.step # 0
    <3>1. q.op # "role"
      BY <1>2, <2>3 DEF Earned, Knows, RoleKnows
    <3>2. member'[p.on] = member[p.on]
      BY <1>1, <2>3, <3>1 DEF WellFormed
    <3>3. Plan(p)' = Plan(p)
      BY <2>3, <3>2 DEF Plan, RoleLocks
    <3>4. QED
      BY <2>0, <3>3 DEF OnPlan
  <2>4. CASE p.op \notin {"send", "role"}
    <3>1. Plan(p)' = Plan(p)
      BY <2>4 DEF Plan, InsertLocks, TransferLocks
    <3>2. QED
      BY <2>0, <3>1 DEF OnPlan
  <2>5. QED
    BY <2>1, <2>2, <2>3, <2>4
<1>6. p.op = "create" => /\ thread'[p.on] = thread[p.on]
                         /\ p.step >= 1 => member'[p.by] \in OwnerRoles
  <2> SUFFICES ASSUME p.op = "create"
               PROVE  /\ thread'[p.on] = thread[p.on]
                      /\ p.step >= 1 => member'[p.by] \in OwnerRoles
    OBVIOUS
  <2>1. thread[p.on] = None /\ p.on \in Threads /\ p.by \in Users
    BY DEF Knows, CreateKnows, WellFormed
  <2>2. q.op \in {"create", "send", "transfer"} => p.on # q.on
    <3>1. q.op \in {"send", "transfer"} => thread[q.on] # None
      BY DEF Lasting
    <3>2. q.op = "create" => q.on # p.on
      BY DEF AccessIInv, Distinct
    <3>3. QED
      BY <2>1, <3>1, <3>2
  <2>3. thread'[p.on] = thread[p.on]
    BY <1>1, <2>1, <2>2 DEF WrittenRow
  <2>4. p.step >= 1 => member'[p.by] \in OwnerRoles
    BY <1>4, <2>1 DEF Knows, CreateKnows
  <2>5. QED
    BY <2>3, <2>4
<1>7. p.op = "transfer" => /\ p.step >= 1 => thread'[p.on] = thread[p.on]
                           /\ p.step >= 4 => member'[p.to] \in OwnerRoles
  <2> SUFFICES ASSUME p.op = "transfer"
               PROVE  /\ p.step >= 1 => thread'[p.on] = thread[p.on]
                      /\ p.step >= 4 => member'[p.to] \in OwnerRoles
    OBVIOUS
  <2>1. p.on \in Threads /\ p.to \in Users /\ thread[p.on] # None
    BY DEF WellFormed, Lasting
  <2>2. p.step >= 4 => member'[p.to] \in OwnerRoles
    BY <1>4, <2>1 DEF Knows, TransferKnows
  <2>3. ASSUME p.step >= 1 PROVE thread'[p.on] = thread[p.on]
    <3>1. q.op = "create" => p.on # q.on
      BY <2>1 DEF Earned
    <3>2. q.op = "transfer" => p.on # q.on
      BY <1>2, <2>3 DEF Earned, Knows, TransferKnows
    <3>3. QED
      BY <1>1, <2>1, <3>1, <3>2 DEF WrittenRow
  <2>4. QED
    BY <2>2, <2>3
<1>8. p.op = "role" /\ p.step >= 4 => ~Owns(p.on)'
  <2> SUFFICES ASSUME p.op = "role", p.step >= 4, NEW t \in Threads
               PROVE  thread'[t] # p.on
    BY DEF Owns
  <2>1. Has(s, <<"owner", p.on>>, "take") /\ thread[t] # p.on
    BY DEF Knows, RoleKnows, Owns
  <2>2. CASE q.op = "create" /\ t = q.on
    <3>1. p.on # q.by
      BY <1>3, <2>1, <2>2 DEF Earned
    <3>2. QED
      BY <1>1, <2>2, <3>1 DEF WrittenRow
  <2>3. CASE q.op = "transfer" /\ t = q.on
    <3>1. p.on # q.to
      BY <1>3, <2>1, <2>3 DEF Earned
    <3>2. QED
      BY <1>1, <2>3, <3>1 DEF WrittenRow
  <2>4. CASE q.op \notin {"create", "transfer"} \/ t # q.on
    BY <1>1, <2>1, <2>4 DEF WrittenRow
  <2>5. QED
    BY <2>2, <2>3, <2>4
<1>9. p.op \in {"revoke", "unassign"} /\ p.step >= 1 =>
          Targets(p)' \subseteq p.targets \union slipped'
  <2> SUFFICES ASSUME p.op \in {"revoke", "unassign"}, p.step >= 1, NEW run \in Requests,
                      runs'[run].status = "active", runs'[run].under = p.on,
                      p.op = "unassign" => runs'[run].author = p.to
               PROVE  run \in p.targets \union slipped
    BY DEF Targets, Active
  <2>1. Has(s, <<"mandate", p.on>>, "take") /\ p.on \in Mandates /\ p.on # None
        /\ Targets(p) \subseteq p.targets \union slipped
    BY AccessAssumption DEF Knows, RevocationKnows, WellFormed
  <2>2. q.op \in {"create", "send"} => q.under # p.on
    BY <1>3, <2>1 DEF Earned
  <2>3. ~(run = r /\ q.op \in {"create", "send"})
    BY <1>1, <2>2, CreatedIs DEF WrittenRun
  <2>4. runs'[run] = runs[run]
    BY <1>1, <2>3 DEF WrittenRun
  <2>5. run \in Targets(p)
    BY <2>4 DEF Targets, Active
  <2>6. QED
    BY <2>1, <2>5
<1>10. p.op = "login" /\ p.step >= 1 => ~Inhabited'
  <2>1. ~(p.op = "login" /\ p.step >= 1)
    BY <1>0 DEF Knows, LoginKnows, Inhabited
  <2>2. QED
    BY <2>1
<1>11. KeepsLocks(s, p)
    BY DEF KeepsLocks
<1>12. QED
    BY <1>5, <1>6, <1>7, <1>8, <1>9, <1>10, <1>11, KnowsStays

\* A transaction that commits.
LEMMA CommitFacts ==
    ASSUME AccessIInv, NEW r \in Requests, Commit(r)
    PROVE  LET q == request[r] IN
           /\ q \in Requested /\ WellFormed(q) /\ Lasting(q) /\ q.step \in Nat
           /\ q.stage = "appended" /\ q.verdict \in {"open", "denied"}
           /\ q.op \in Ops \ {"login"} /\ q.by \in Users /\ q.role \in Roles
           /\ Has(r, <<"site">>, "take") /\ Warranted(q)
           /\ q.verdict = "open" => Earned(r, q) /\ Written(r, q)
           /\ q.verdict # "open" => Unwritten
           /\ ledger' = Append(ledger, Entry(q)) /\ Entry(q) \in Entries
           /\ Release(r) /\ UNCHANGED <<founders, orphans, missed, slipped, faults>>
           /\ \E stage \in {"cancelling", "done"} :
                  /\ q.targets # {} => stage = "cancelling"
                  /\ request' = [request EXCEPT ![r] = Staged(q, q.role, stage)]
<1>1. PICK q : q = request[r]
    OBVIOUS
<1>2. q \in Requested /\ WellFormed(q) /\ Sound(r, q) /\ q.step \in Nat
    BY <1>1, RequestFacts
<1>3. /\ q.stage = "appended" /\ ledger' = Append(ledger, Entry(q)) /\ Release(r)
      /\ q.verdict = "open" => Written(r, q)
      /\ q.verdict # "open" => Unwritten
      /\ UNCHANGED <<founders, orphans, missed, slipped, faults>>
    BY <1>1 DEF Commit, Ends
<1>4. Has(r, <<"site">>, "take") /\ Warranted(q) /\ Audited(q) /\ Lasting(q)
    BY <1>2, <1>3 DEF Sound, Appended
<1>5. /\ q.op \in Ops \ {"login"} /\ q.verdict \in {"open", "denied"}
      /\ q.by \in Users /\ q.role \in Roles
    BY <1>2, <1>3, <1>4 DEF Audited, WellFormed, Requested
<1>6. q.verdict = "open" => Earned(r, q)
    BY <1>2, <1>3, <1>4, CommitEarns DEF Sound, Open
<1>7. Entry(q) \in Entries
    BY <1>2, <1>5 DEF Entry, Entries, Requested
<1>8. PICK stage : stage = IF q.targets = {} THEN "done" ELSE "cancelling"
    OBVIOUS
<1>9. request' = [request EXCEPT ![r] = Staged(q, q.role, stage)]
    BY <1>1, <1>2, <1>8, OnlyStaged DEF Commit, Ends
<1>10. \E x \in {"cancelling", "done"} :
           /\ q.targets # {} => x = "cancelling"
           /\ request' = [request EXCEPT ![r] = Staged(q, q.role, x)]
    BY <1>8, <1>9
<1>11. QED
    BY <1>1, <1>2, <1>3, <1>4, <1>5, <1>6, <1>7, <1>10

\* Nobody else is between his entry and his commit.
LEMMA OthersAreSound ==
    ASSUME AccessIInv, NEW r \in Requests, Commit(r),
           NEW s \in Requests \ {r}, NEW p \in Requested, request[s] = p
    PROVE  Sound(s, p)'
<1>1. PICK q : q = request[r]
    OBVIOUS
<1>2. /\ q \in Requested /\ WellFormed(q) /\ Lasting(q)
      /\ q.op \notin {"none", "login"} /\ q.verdict \in {"open", "denied"}
      /\ Has(r, <<"site">>, "take") /\ Release(r)
      /\ q.verdict = "open" => Earned(r, q) /\ Written(r, q)
      /\ q.verdict # "open" => Unwritten
      /\ UNCHANGED slipped
    BY <1>1, CommitFacts DEF Ops
<1>3. WellFormed(p) /\ Sound(s, p) /\ p.step \in Nat /\ Lasting(p)
    BY RequestFacts DEF Sound
<1>4. KeepsLocksOf(s)
    BY <1>2, Releases
<1>5. p.stage # "appended"
    BY <1>2, <1>3, HeldApart DEF Sound, Appended, Conflicts
<1>6. CASE q.verdict = "open"
  <2>1. /\ \A u \in Users : member'[u] = IF q.op = "role" /\ q.on = u THEN q.to ELSE member[u]
        /\ \A t \in Threads : WrittenRow(q, t)
    BY <1>2, <1>6, WrittenRows DEF AccessIInv
  <2>2. Lasting(p)'
    <3>1. p.op \notin {"none", "login"} => member'[p.by] # "none"
      <4> SUFFICES ASSUME p.op \notin {"none", "login"} PROVE member'[p.by] # "none"
        OBVIOUS
      <4>1. p.by \in Users /\ member[p.by] # "none"
        BY <1>3 DEF WellFormed, Lasting
      <4>2. q.op = "role" => q.to # "none"
        BY <1>2 DEF WellFormed, Roles
      <4>3. QED
        BY <2>1, <4>1, <4>2
    <3>2. p.op \in {"send", "transfer"} => thread'[p.on] # None
      <4> SUFFICES ASSUME p.op \in {"send", "transfer"} PROVE thread'[p.on] # None
        OBVIOUS
      <4>1. p.on \in Threads /\ thread[p.on] # None /\ q.by \in Users
        BY <1>2, <1>3 DEF WellFormed, Lasting
      <4>2. None \notin Users
        BY AccessAssumption
      <4>3. QED
        BY <1>2, <2>1, <4>1, <4>2 DEF WrittenRow, WellFormed
    <3>3. QED
      BY <3>1, <3>2 DEF Lasting
  <2>3. Open(p) => Knows(s, p)'
    <3>1. Open(p) => p.stage = "locking" /\ p.verdict = "open" /\ Knows(s, p)
      BY <1>3, <1>5 DEF Open, Sound
    <3>2. QED
      BY <1>1, <1>2, <1>3, <1>4, <1>6, <3>1, OthersKnow
  <2>4. QED
    BY <1>5, <2>2, <2>3 DEF Sound, Appended
<1>7. CASE q.verdict # "open"
  <2>1. UNCHANGED <<member, thread, runs, slipped>>
    BY <1>2, <1>7 DEF Unwritten
  <2>2. Lasting(p)'
    BY <1>3, <2>1 DEF Lasting
  <2>3. Open(p) => Knows(s, p)'
    BY <1>3, <1>4, <2>1, SameRows DEF Sound, KeepsLocks
  <2>4. QED
    BY <1>5, <2>2, <2>3 DEF Sound, Appended
<1>8. QED
    BY <1>6, <1>7

\* What the decision writes keeps the owners, and the runs of a mandate it ends are listed.
LEMMA WrittenIsSafe ==
    ASSUME AccessIInv, NEW r \in Requests, NEW q \in Requested, request[r] = q,
           WellFormed(q), Lasting(q), q.op \notin {"none", "login"}, q.verdict = "open",
           q.stage = "appended", Earned(r, q), Warranted(q), Written(r, q),
           NEW n \in Requested, WellFormed(n), request' = [request EXCEPT ![r] = n],
           n.targets = q.targets, q.targets # {} => n.stage = "cancelling",
           UNCHANGED <<founders, orphans, missed, slipped>>
    PROVE  OwnersMayOwn' /\ Founded' /\ RevokedRunsAreFollowed'
<1>0. /\ q.by \in Users /\ member[q.by] # "none"
      /\ member \in [Users -> Roles \union {"none"}]
      /\ thread \in [Threads -> Users \union {None}]
      /\ mandate \in [Mandates -> {"none", "active", "revoked"}]
    BY DEF WellFormed, Lasting, AccessIInv, RowsTyped
<1>1. /\ \A u \in Users : member'[u] = IF q.op = "role" /\ q.on = u THEN q.to ELSE member[u]
      /\ \A t \in Threads : WrittenRow(q, t)
      /\ \A run \in Requests : WrittenRun(r, q, run)
      /\ q.op \notin {"mandate", "revoke"} => mandate' = mandate
      /\ q.op \notin {"assign", "unassign"} => assigned' = assigned
      /\ \A m \in Mandates : q.op # "revoke" \/ q.on # m =>
             (mandate[m] = "active" => mandate'[m] = "active")
      /\ \A m, u : q.op # "unassign" \/ q.on # m \/ q.to # u =>
             (<<m, u>> \in assigned => <<m, u>> \in assigned')
    BY WrittenRows DEF AccessIInv
\* The owner of a conversation is the former one, or whom the transaction has checked.
<1>3. ASSUME NEW t \in Threads
      PROVE  \/ thread'[t] = thread[t]
             \/ thread'[t] \in Users /\ member[thread'[t]] \in OwnerRoles /\ q.op # "role"
  <2>1. CASE q.op = "create" /\ t = q.on
    BY <1>0, <1>1, <2>1 DEF WrittenRow, Earned
  <2>2. CASE q.op = "transfer" /\ t = q.on
    BY <1>1, <2>2 DEF WrittenRow, Earned, WellFormed
  <2>3. CASE q.op \notin {"create", "transfer"} \/ t # q.on
    BY <1>1, <2>3 DEF WrittenRow
  <2>4. QED
    BY <2>1, <2>2, <2>3
<1>4. OwnersMayOwn'
  <2> SUFFICES ASSUME NEW t \in Threads, NEW u, thread'[t] = u, u # None
               PROVE  member'[u] \in OwnerRoles
    BY DEF OwnersMayOwn
  <2>1. u \in Users /\ member[u] \in OwnerRoles
    <3>1. CASE thread[t] = u
      BY <1>0, <3>1 DEF AccessIInv, OwnersMayOwn
    <3>2. CASE thread[t] # u
      BY <1>3, <3>2
    <3>3. QED
      BY <3>1, <3>2
  <2>2. CASE ~(q.op = "role" /\ q.on = u)
    BY <1>1, <2>1, <2>2
  <2>3. CASE q.op = "role" /\ q.on = u
    <3>1. thread[t] = u
      BY <1>3, <2>3
    <3>2. member[q.on] # "none" /\ Owns(q.on)
      BY <2>1, <2>3, <3>1 DEF OwnerRoles, Owns
    <3>3. q.to \in OwnerRoles
      BY <2>3, <3>2 DEF Earned
    <3>4. QED
      BY <1>1, <2>1, <2>3, <3>3
  <2>4. QED
    BY <2>2, <2>3
<1>5. Founded'
  <2>1. Inhabited'
    <3>1. q.op = "role" => q.to # "none"
      BY DEF WellFormed, Roles
    <3>2. member'[q.by] # "none"
      BY <1>0, <1>1, <3>1
    <3>3. QED
      BY <1>0, <3>2 DEF Inhabited
  <2>2. QED
    BY <2>1 DEF AccessIInv, Founded, OneFounder
<1>6. RevokedRunsAreFollowed'
  <2> SUFFICES ASSUME NEW run \in Requests, runs'[run].status = "active", LostMandate(run)',
                      run \notin orphans \union missed \union slipped
               PROVE  \E s \in Requests : request'[s].stage = "cancelling" /\ run \in request'[s].targets
    BY DEF RevokedRunsAreFollowed, Active
  <2>0. /\ request'[r] = n
        /\ \A s \in Requests : s # r => request'[s] = request[s]
    BY OthersStay
  <2>1. PICK m, u : m = runs'[run].under /\ u = runs'[run].author
    OBVIOUS
  <2>2. m # None /\ ~(mandate'[m] = "active" /\ <<m, u>> \in assigned')
    BY <2>1 DEF LostMandate, Authorised
  <2>3. ~(q.op \in {"create", "send"} /\ run = r)
    <3> SUFFICES ASSUME q.op \in {"create", "send"}, run = r PROVE FALSE
      OBVIOUS
    <3>1. m = q.under /\ u = q.by
      BY <1>1, <2>1, CreatedIs DEF WrittenRun
    <3>2. q.role = "operator"
      BY <2>2, <3>1 DEF WellFormed
    <3>3. mandate[m] = "active" /\ <<m, u>> \in assigned
      BY <2>2, <3>1, <3>2 DEF Warranted, Unmandated, Authorised
    <3>4. mandate' = mandate /\ assigned' = assigned
      BY <1>1
    <3>5. QED
      BY <2>2, <3>3, <3>4
  <2>4. runs'[run] = runs[run]
    BY <1>1, <2>3 DEF WrittenRun
  <2>5. Active(run) /\ runs[run].under = m /\ runs[run].author = u
    BY <2>1, <2>4 DEF Active
  <2>6. m \in Mandates
    <3>1. runs[run] \in RunRows
      BY DEF AccessIInv, RowsTyped
    <3>2. QED
      BY <2>2, <2>5, <3>1 DEF RunRows
  <2>7. CASE Authorised(u, m)
    <3>1. mandate[m] = "active" /\ <<m, u>> \in assigned
      BY <2>7 DEF Authorised
    <3>2. (q.op = "revoke" /\ q.on = m) \/ (q.op = "unassign" /\ q.on = m /\ q.to = u)
      BY <1>1, <2>2, <2>6, <3>1
    <3>3. run \in Targets(q)
      BY <2>5, <3>2 DEF Targets
    <3>4. run \in q.targets
      BY <3>2, <3>3 DEF Earned
    <3>5. QED
      BY <2>0, <3>4
  <2>8. CASE ~Authorised(u, m)
    <3>1. LostMandate(run)
      BY <2>2, <2>5, <2>8 DEF LostMandate
    <3>2. PICK s \in Requests : request[s].stage = "cancelling" /\ run \in request[s].targets
      BY <2>5, <3>1 DEF AccessIInv, RevokedRunsAreFollowed
    <3>3. s # r
      BY <3>2
    <3>4. QED
      BY <2>0, <3>2, <3>3
  <2>9. QED
    BY <2>7, <2>8
<1>7. QED
    BY <1>4, <1>5, <1>6

LEMMA CommitIsSafe ==
    ASSUME AccessIInv, NEW r \in Requests, Commit(r)
    PROVE  AccessIInv'
<1>1. PICK q : q = request[r]
    OBVIOUS
<1>2. /\ q \in Requested /\ WellFormed(q) /\ Lasting(q)
      /\ q.stage = "appended" /\ q.verdict \in {"open", "denied"}
      /\ q.op \in Ops \ {"login"} /\ q.by \in Users /\ q.role \in Roles
      /\ Warranted(q)
      /\ q.verdict = "open" => Earned(r, q) /\ Written(r, q)
      /\ q.verdict # "open" => Unwritten
      /\ ledger' = Append(ledger, Entry(q)) /\ Entry(q) \in Entries
      /\ Release(r) /\ UNCHANGED <<founders, orphans, missed, slipped, faults>>
    BY <1>1, CommitFacts
<1>3. PICK stage \in {"cancelling", "done"} :
          /\ q.targets # {} => stage = "cancelling"
          /\ request' = [request EXCEPT ![r] = Staged(q, q.role, stage)]
    BY <1>1, CommitFacts
<1>4. PICK n : n = Staged(q, q.role, stage)
    OBVIOUS
<1>5. /\ n \in Requested /\ n.op = q.op /\ n.by = q.by /\ n.role = q.role /\ n.under = q.under
      /\ n.on = q.on /\ n.to = q.to /\ n.stage = stage
      /\ n.verdict = q.verdict /\ n.targets = q.targets
  <2>1. q \in Requested /\ q.role \in Roles \union {"none"}
    BY <1>2
  <2>2. CASE stage = "done"
    BY <1>4, <2>1, <2>2, StagedIs, ZenonT(40)
  <2>3. CASE stage = "cancelling"
    BY <1>4, <2>1, <2>3, StagedIs, ZenonT(40)
  <2>4. QED
    BY <2>2, <2>3
<1>6. WellFormed(n)
    BY <1>2, <1>5 DEF WellFormed
<1>7. request' = [request EXCEPT ![r] = n]
    BY <1>3, <1>4
<1>8. ledger' \in Seq(Entries) /\ held' \subseteq Requests \X Objects \X Modes
    BY <1>2, Releases DEF AccessIInv, RowsTyped
<1>9. CASE q.verdict = "open"
  <2>1. /\ member' \in [Users -> Roles \union {"none"}]
        /\ mandate' \in [Mandates -> {"none", "active", "revoked"}]
        /\ assigned' \subseteq Mandates \X Users
        /\ thread' \in [Threads -> Users \union {None}]
        /\ runs' \in [Requests -> RunRows] /\ reader' \in [Requests -> {"none", "due", "reading"}]
        /\ \A u \in Users : member'[u] = IF q.op = "role" /\ q.on = u THEN q.to ELSE member[u]
    BY <1>2, <1>9, WrittenRows DEF AccessIInv, Ops
  <2>2. RowsTyped'
    BY <1>2, <1>8, <2>1 DEF AccessIInv, RowsTyped
  <2>3. OwnersMayOwn' /\ Founded' /\ RevokedRunsAreFollowed'
    <3>1. q.op \notin {"none", "login"}
      BY <1>2 DEF Ops
    <3>2. q.targets # {} => n.stage = "cancelling"
      BY <1>3, <1>5
    <3>3. QED
      BY <1>1, <1>2, <1>5, <1>6, <1>7, <1>9, <3>1, <3>2, WrittenIsSafe
  <2>4. Lasting(n)'
    <3>1. member'[q.by] # "none"
      BY <1>2, <2>1 DEF WellFormed, Lasting, Ops, Roles
    <3>2. q.op \in {"send", "transfer"} => thread'[q.on] # None
      <4> SUFFICES ASSUME q.op \in {"send", "transfer"} PROVE thread'[q.on] # None
        OBVIOUS
      <4>1. WrittenRow(q, q.on) /\ q.on \in Threads
        BY <1>2, <1>9, WrittenRows DEF AccessIInv, Ops, WellFormed
      <4>2. thread[q.on] # None /\ None \notin Users
        BY <1>2, <4>1, AccessAssumption DEF Lasting
      <4>3. QED
        BY <1>2, <4>1, <4>2 DEF WrittenRow, WellFormed
    <3>3. QED
      BY <1>5, <3>1, <3>2 DEF Lasting
  <2>5. QED
    BY <1>1, <1>2, <1>3, <1>5, <1>6, <1>7, <2>2, <2>3, <2>4, OthersAreSound, CommitMoves
<1>10. CASE q.verdict # "open"
  <2>1. UNCHANGED <<member, mandate, assigned, thread, runs, reader>>
    BY <1>2, <1>10 DEF Unwritten
  <2>2. RowsTyped'
    BY <1>2, <1>8, <2>1 DEF AccessIInv, RowsTyped
  <2>3. OwnersMayOwn' /\ Founded'
    BY <1>2, <2>1 DEF AccessIInv, OwnersMayOwn, Founded, OneFounder, Inhabited
  <2>4. RevokedRunsAreFollowed'
    <3> SUFFICES ASSUME NEW run \in Requests, Active(run), LostMandate(run),
                        run \notin orphans \union missed \union slipped
                 PROVE  \E s \in Requests : request'[s].stage = "cancelling" /\ run \in request'[s].targets
      BY <1>2, <2>1 DEF RevokedRunsAreFollowed, Active, LostMandate, Authorised
    <3>1. PICK s \in Requests : request[s].stage = "cancelling" /\ run \in request[s].targets
      BY DEF AccessIInv, RevokedRunsAreFollowed
    <3>2. s # r /\ request'[s] = request[s]
      BY <1>1, <1>2, <1>5, <1>6, <1>7, <3>1, OthersStay
    <3>3. QED
      BY <3>1, <3>2
  <2>5. Lasting(n)'
    BY <1>2, <1>5, <2>1 DEF Lasting
  <2>6. QED
    BY <1>1, <1>2, <1>3, <1>5, <1>6, <1>7, <2>2, <2>3, <2>4, <2>5, OthersAreSound, CommitMoves
<1>11. QED
    BY <1>9, <1>10

-----------------------------------------------------------------------------
(* The theorems *)

LEMMA AccessInitInv == AccessInit => AccessIInv
<1> SUFFICES ASSUME AccessInit PROVE AccessIInv
    OBVIOUS
<1>1. /\ member \in [Users -> Roles \union {"none"}]
      /\ mandate \in [Mandates -> {"none", "active", "revoked"}]
      /\ assigned \subseteq Mandates \X Users
  <2>1. CASE /\ member = [u \in Users |-> CASE u \in Admins -> "admin"
                                          [] u \in Operators -> "operator"
                                          [] OTHER -> "requester"]
             /\ mandate \in [Mandates -> {"none", "active"}]
             /\ assigned = {m \in Mandates : mandate[m] = "active"} \X Operators
    BY <2>1, AccessAssumption DEF Roles
  <2>2. CASE /\ member = [u \in Users |-> "none"]
             /\ mandate = [m \in Mandates |-> "none"] /\ assigned = {}
    BY <2>2
  <2>3. QED
    BY <2>1, <2>2 DEF AccessInit
<1>2. /\ thread = [t \in Threads |-> None] /\ runs = [r \in Requests |-> Uncreated]
      /\ ledger = <<>> /\ request = [r \in Requests |-> Idle]
      /\ reader = [r \in Requests |-> "none"]
      /\ held = {} /\ founders = {} /\ orphans = {} /\ missed = {} /\ slipped = {} /\ faults = 0
    BY DEF AccessInit
<1>3. Uncreated \in RunRows /\ Uncreated.status = "none"
    BY DEF Uncreated, RunRows
<1>4. /\ Idle \in Requested /\ Idle.op = "none" /\ Idle.stage = "idle"
      /\ Idle.verdict = "open" /\ Idle.under = None
    BY DEF Idle, Requested
<1>5. WellFormed(Idle)
    BY <1>4 DEF WellFormed
<1>6. RowsTyped
    BY <1>1, <1>2, <1>3, AccessAssumption DEF RowsTyped
<1>7. RequestsTyped
    BY <1>2, <1>4, <1>5 DEF RequestsTyped
<1>8. OwnersMayOwn /\ RevokedRunsAreFollowed
    BY <1>2, <1>3 DEF OwnersMayOwn, RevokedRunsAreFollowed, Active
<1>9. Exclusive /\ Distinct
    BY <1>2, <1>4 DEF Exclusive, Distinct
<1>10. Founded
    BY <1>2, FS_EmptySet DEF Founded, OneFounder
<1>11. ASSUME NEW r \in Requests, NEW q \in Requested, request[r] = q
       PROVE  Sound(r, q)
  <2>1. q = Idle
    BY <1>2, <1>11
  <2>2. QED
    BY <1>4, <2>1 DEF Sound, Lasting, Open, Appended
<1>12. QED
    BY <1>6, <1>7, <1>8, <1>9, <1>10, <1>11 DEF AccessIInv

LEMMA AccessNextInv == AccessIInv /\ [AccessNext]_accessVars => AccessIInv'
<1> SUFFICES ASSUME AccessIInv, [AccessNext]_accessVars PROVE AccessIInv'
    OBVIOUS
<1>1. ASSUME NEW r \in Requests, Arrive(r) \/ ArriveRefused(r) \/ ArriveWithoutMandate(r) \/ ArriveUnknown(r)
      PROVE  AccessIInv'
    BY <1>1, ArriveIsSafe, ArriveRefusedIsSafe, ArriveWithoutMandateIsSafe, ArriveUnknownIsSafe
<1>2. ASSUME NEW r \in Requests, Serve(r) PROVE AccessIInv'
    BY <1>2, AcquireIsSafe, AppendEntryIsSafe, CommitIsSafe, CommitLoginIsSafe, RollbackIsSafe,
       AbortVictimIsSafe DEF Serve
<1>3. ASSUME NEW r \in Requests, NEW run \in Requests,
             cancelRevokedRuns(r, run) \/ MissCancellation(r, run)
      PROVE  AccessIInv'
    BY <1>3, CancellationIsSafe, MissedIsSafe
<1>4. ASSUME NEW r \in Requests,
             \/ StartReader(r) \/ LeaveRun(r) \/ respondRunApproval(r)
             \/ MarkActive(r) \/ EndRun(r) \/ reconcileOne(r)
      PROVE  AccessIInv'
    BY <1>4, ReaderIsSafe, MarkActiveIsSafe, EndRunIsSafe, ReconcileOneIsSafe
<1>5. CASE CrashAccess
    BY <1>5, CrashIsSafe
<1>6. CASE UNCHANGED accessVars
  <2>1. UNCHANGED <<rows, member, mandate, assigned, thread, runs, ledger, request, held, founders,
                    reader, orphans, missed, slipped, faults>>
    BY <1>6 DEF accessVars, rows, following
  <2>2. ASSUME NEW s \in Requests, NEW q \in Requested, request'[s] = q
        PROVE  Sound(s, q)'
    <3>1. Sound(s, q) /\ KeepsLocks(s, q)
      BY <2>1, <2>2 DEF AccessIInv, KeepsLocks, KeepsLocksOf
    <3>2. QED
      BY <2>1, <3>1, SoundStays
  <2>3. RowsTyped' /\ RequestsTyped' /\ Exclusive' /\ Distinct'
    BY <2>1 DEF AccessIInv, RowsTyped, RequestsTyped, WellFormed, Exclusive, Distinct
  <2>4. OwnersMayOwn' /\ Founded' /\ RevokedRunsAreFollowed'
    BY <2>1 DEF AccessIInv, OwnersMayOwn, Founded, OneFounder, Inhabited, RevokedRunsAreFollowed,
       Active, LostMandate, Authorised
  <2>5. QED
    BY <2>2, <2>3, <2>4 DEF AccessIInv
<1>7. QED
    BY <1>1, <1>2, <1>3, <1>4, <1>5, <1>6 DEF AccessNext

LEMMA AccessIsInductive == AccessSpec => []AccessIInv
<1>1. AccessInit => AccessIInv
    BY AccessInitInv
<1>2. AccessIInv /\ [AccessNext]_accessVars => AccessIInv'
    BY AccessNextInv
<1>3. QED
    BY <1>1, <1>2, PTL DEF AccessSpec

\* Who owns what agrees with the roles, whatever the order of a change of role, a creation
\* and a transfer; and of all the first logins one founds the site (ensure_active_owner,
\* prevent_owned_membership_revocation, completeGoogleLogin).
THEOREM OwnershipAgreesWithRoles == AccessSpec => []AccessInvariant
<1>1. AccessIInv => AccessInvariant
  <2> SUFFICES ASSUME AccessIInv PROVE AccessInvariant
    OBVIOUS
  <2>1. \A i \in DOMAIN ledger :
           ledger[i] \in [by : Users, role : Roles, under : Mandates \union {None}, op : Ops]
    <3>1. ledger \in Seq(Entries)
      BY DEF AccessIInv, RowsTyped
    <3>2. \A i \in DOMAIN ledger : ledger[i] \in Entries
      BY <3>1
    <3>3. QED
      BY <3>2 DEF Entries
  <2>2. ASSUME NEW r \in Requests
        PROVE  /\ request[r].stage \in {"idle", "locking", "appended", "cancelling", "done"}
               /\ request[r].verdict \in {"open", "denied", "missing", "void"}
               /\ request[r].targets \subseteq Requests
    BY RequestFacts DEF Requested
  <2>3. AccessTypeOK
    BY <2>1, <2>2 DEF AccessIInv, RowsTyped, AccessTypeOK, Modes, RunRows
  <2>4. QED
    BY <2>3 DEF AccessIInv, AccessInvariant, Founded
<1>2. QED
    BY <1>1, AccessIsInductive, PTL

\* No active run outlives its mandate unnoticed, whatever transactions, crashes and
\* cancellations come in between (revokeSiteMandate, reconcileOne).
THEOREM RevokedRunsStayFollowed == AccessSpec => []RevokedRunsAreFollowed
<1>1. AccessIInv => RevokedRunsAreFollowed
    BY DEF AccessIInv
<1>2. QED
    BY <1>1, AccessIsInductive, PTL

\* The last entry is that of the decision that commits.
LEMMA EntryIsLast ==
    ASSUME NEW s \in Seq(Entries), NEW e \in Entries
    PROVE  Last(Append(s, e)) = e /\ Append(s, e) # s
<1>1. Len(Append(s, e)) = Len(s) + 1 /\ Append(s, e)[Len(s) + 1] = e /\ Len(s) \in Nat
    OBVIOUS
<1>2. QED
    BY <1>1 DEF Last

\* Only a decision that commits appends to the ledger, or gives away a conversation.
LEMMA OnlyCommits ==
    ASSUME AccessIInv, [AccessNext]_accessVars
    PROVE  \/ \E r \in Requests : Commit(r)
           \/ UNCHANGED <<ledger, thread>>
<1>1. ASSUME NEW r \in Requests,
             Arrive(r) \/ ArriveRefused(r) \/ ArriveWithoutMandate(r) \/ ArriveUnknown(r)
      PROVE  UNCHANGED <<ledger, thread>>
    BY <1>1 DEF Arrive, ArriveRefused, ArriveWithoutMandate, ArriveUnknown, rows
<1>2. ASSUME NEW r \in Requests, Serve(r), ~Commit(r) PROVE UNCHANGED <<ledger, thread>>
    BY <1>2 DEF Serve, Acquire, AppendEntry, CommitLogin, Rollback, AbortVictim, rows
<1>3. ASSUME NEW r \in Requests, NEW run \in Requests,
             cancelRevokedRuns(r, run) \/ MissCancellation(r, run)
      PROVE  UNCHANGED <<ledger, thread>>
    BY <1>3 DEF cancelRevokedRuns, MissCancellation, rows
<1>4. ASSUME NEW r \in Requests,
             \/ StartReader(r) \/ LeaveRun(r) \/ respondRunApproval(r)
             \/ MarkActive(r) \/ EndRun(r) \/ reconcileOne(r)
      PROVE  UNCHANGED <<ledger, thread>>
    BY <1>4 DEF StartReader, LeaveRun, respondRunApproval, MarkActive, EndRun, reconcileOne, rows
<1>5. CASE CrashAccess \/ UNCHANGED accessVars
    BY <1>5 DEF CrashAccess, accessVars, rows
<1>6. QED
    BY <1>1, <1>2, <1>3, <1>4, <1>5 DEF AccessNext

\* What is recorded, and who owns, changes by a decision of somebody who may take it when
\* it commits, although his role and his mandate were read when the request arrived
\* (advance_audit_ledger_head, transferResourceOwnership).
THEOREM ChangesStayWarranted == AccessSpec => ChangesAreWarranted
<1> DEFINE EntryWarranted ==
               ledger' # ledger =>
                   LET entry == Last(ledger') IN
                       /\ member[entry.by] = entry.role
                       /\ entry.role = "operator" =>
                              Unmandated(entry) \/ Authorised(entry.by, entry.under)
           Handed ==
               \A t \in Threads : thread[t] \notin {None, thread'[t]} =>
                   LET entry == Last(ledger') IN
                       /\ entry.op = "transfer"
                       /\ member[entry.by] = "admin" \/ thread[t] = entry.by
<1>1. ASSUME AccessIInv, NEW r \in Requests, Commit(r) PROVE EntryWarranted /\ Handed
  <2>1. PICK q : q = request[r]
    OBVIOUS
  <2>2. /\ q \in Requested /\ WellFormed(q)
        /\ q.op \in Ops \ {"login"} /\ q.by \in Users /\ Warranted(q)
        /\ q.verdict = "open" => Earned(r, q) /\ Written(r, q)
        /\ q.verdict # "open" => Unwritten
        /\ ledger' = Append(ledger, Entry(q)) /\ Entry(q) \in Entries
    BY <1>1, <2>1, CommitFacts
  <2>3. PICK e : e = Entry(q)
    OBVIOUS
  <2>4. Last(ledger') = e
    BY <1>1, <2>2, <2>3, EntryIsLast DEF AccessIInv, RowsTyped
  <2>5. e.by = q.by /\ e.role = q.role /\ e.under = q.under /\ e.op = q.op
    BY <2>3 DEF Entry
  <2>6. EntryWarranted
    BY <2>2, <2>4, <2>5 DEF Warranted, Unmandated
  <2>7. ASSUME NEW t \in Threads, thread[t] \notin {None, thread'[t]}
        PROVE  q.op = "transfer" /\ (member[q.by] = "admin" \/ thread[t] = q.by)
    <3>1. q.verdict = "open" /\ Earned(r, q) /\ Written(r, q)
      BY <2>2, <2>7 DEF Unwritten
    <3>2. WrittenRow(q, t)
      BY <1>1, <2>2, <3>1, WrittenRows DEF AccessIInv, Ops
    <3>3. ~(q.op = "create" /\ t = q.on)
      BY <2>7, <3>1 DEF Earned
    <3>4. q.op = "transfer" /\ t = q.on
      BY <2>7, <3>2, <3>3 DEF WrittenRow
    <3>5. q.role = "admin" => member[q.by] = "admin"
      BY <2>2 DEF Warranted
    <3>6. QED
      BY <3>1, <3>4, <3>5 DEF Earned
  <2>8. Handed
    BY <2>4, <2>5, <2>7
  <2>9. QED
    BY <2>6, <2>8
<1>2. AccessIInv /\ [AccessNext]_accessVars => [EntryWarranted /\ Handed]_accessVars
    BY <1>1, OnlyCommits
<1>3. AccessIInv /\ [AccessNext]_accessVars => [EntryWarranted]_accessVars /\ [Handed]_accessVars
    BY <1>2
<1>4. AccessSpec => [][EntryWarranted]_accessVars /\ [][Handed]_accessVars
    BY <1>3, AccessIsInductive, PTL DEF AccessSpec
<1>5. QED
    BY <1>4 DEF ChangesAreWarranted, EntriesAreWarranted, OwnershipIsHanded
=============================================================================
