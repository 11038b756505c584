--------------------------- MODULE EventStreamProofs ---------------------------
(***************************************************************************)
(* The events of a run for any number of deltas, calls, batches of the     *)
(* timer and viewers: the text is conserved, the numbers are distinct, and *)
(* the streams get every event once and in order.  Then the other end, the *)
(* screen of a conversation: it shows every run and every event once, and  *)
(* it does not come back by itself once access is refused.                 *)
(*                                                                         *)
(* TextIsConserved sums over the events, so it rests on the sum of a       *)
(* finite set not depending on the order (TextOfOne, TextOfBoth): a sum is *)
(* an induction, done here by taking a least counterexample among the      *)
(* subsets of the set (BySubsets).  The lists in the order of the cursors, *)
(* that of a stream and that of a screen, are there for the same reason    *)
(* (OrderedExists).                                                        *)
(*                                                                         *)
(* The numbers of the batches are below the next one, and those of two     *)
(* batches differ (BatchInv).  The identities drawn stay in their range    *)
(* because each belongs to one event (CursorInv) and the events are no     *)
(* more than the numbers given.  A stream that is open reaches every row:  *)
(* it has sent it, holds it, will list it, or is about to be told of it by *)
(* the writer that committed it (Reaches).                                 *)
(*                                                                         *)
(* A screen gets its runs from snapshots, from events, from the screen it  *)
(* showed before a message and from the header that is stored: all of them *)
(* are sound (SoundCopy), and only the message under way shows a run the   *)
(* server has not made.  That run is the last one and an active one, so    *)
(* that no second message goes, and the run that will take its place is    *)
(* not on the screen with it (HasPlace).                                   *)
(***************************************************************************)
EXTENDS EventStream, LiveThread, FiniteSetTheorems, SequenceTheorems, TLAPS

-----------------------------------------------------------------------------
(* Sums over a finite set *)

\* What holds of a set when it holds of its strict subsets holds of a finite set.
LEMMA BySubsets ==
    ASSUME NEW S, IsFiniteSet(S), NEW G,
           \A T \in SUBSET S : (\A U \in SUBSET T : U # T => U \in G) => T \in G
    PROVE  S \in G
<1> DEFINE F == FiniteSubsetsOf(S)
           R == StrictSubsetOrdering(S)
           Bad == (SUBSET S) \ G
<1>1. F = SUBSET S
    BY FS_FiniteSubsetsOfFinite
<1>2. IsWellFoundedOn(R, F)
    BY FS_StrictSubsetOrderingWellFounded
<1>3. SUFFICES ASSUME Bad # {} PROVE FALSE
    OBVIOUS
<1>4. \E T \in Bad : \A U \in Bad : ~ (<<U, T>> \in R)
  <2>1. Bad \subseteq F
    BY <1>1
  <2> HIDE DEF Bad, F, R
  <2> QED
    BY <1>2, <1>3, <2>1, WFMin
<1>5. PICK T \in Bad : \A U \in Bad : ~ (<<U, T>> \in R)
    BY <1>4
<1>6. \A U \in SUBSET T : U # T => U \in G
    BY <1>5 DEF StrictSubsetOrdering
<1>7. QED
    BY <1>5, <1>6

\* The recursion of a sum: the element that is taken first does not matter.
Sums(S, g) ==
    \A T \in SUBSET S :
        g[T] = IF T = {} THEN 0
               ELSE (CHOOSE e \in T : TRUE).deltas + g[T \ {CHOOSE e \in T : TRUE}]

\* Two sums that follow the same recursion agree on every finite set of both.
LEMMA SumsAgree ==
    ASSUME NEW S, NEW T, NEW g, NEW h, Sums(S, g), Sums(T, h), NEW U \in SUBSET S, U \in SUBSET T,
           IsFiniteSet(U)
    PROVE  g[U] = h[U]
<1> DEFINE G == {V \in SUBSET U : g[V] = h[V]}
<1>1. ASSUME NEW V \in SUBSET U, \A W \in SUBSET V : W # V => W \in G
      PROVE  V \in G
  <2> DEFINE x == CHOOSE e \in V : TRUE
             W == V \ {x}
  <2>1. CASE V = {}
    BY <2>1 DEF Sums
  <2>2. CASE V # {}
    <3>1. x \in V /\ W \in SUBSET V /\ W # V
      BY <2>2
    <3>2. g[W] = h[W]
      BY <1>1, <3>1
    <3>3. g[V] = x.deltas + g[W]
      BY <2>2 DEF Sums
    <3>4. h[V] = x.deltas + h[W]
      BY <2>2 DEF Sums
    <3>5. QED
      BY <3>2, <3>3, <3>4
  <2>3. QED
    BY <2>1, <2>2
<1>2. U \in G
  <2> HIDE DEF G
  <2> QED
    BY <1>1, BySubsets
<1>3. QED
    BY <1>2

Weighed(S) == IsFiniteSet(S) /\ \A e \in S : e.deltas \in Nat

\* The recursion has a solution on the subsets of a finite set.
LEMMA SumsExist ==
    ASSUME NEW S, Weighed(S)
    PROVE  \E g \in [SUBSET S -> Nat] : Sums(S, g)
<1> DEFINE G == {T \in SUBSET S : \E g \in [SUBSET T -> Nat] : Sums(T, g)}
<1>1. ASSUME NEW T \in SUBSET S, \A U \in SUBSET T : U # T => U \in G
      PROVE  T \in G
  <2> DEFINE sum(U) == CHOOSE g \in [SUBSET U -> Nat] : Sums(U, g)
             x == CHOOSE e \in T : TRUE
             g == [U \in SUBSET T |->
                      IF U = {} THEN 0
                      ELSE IF U = T THEN x.deltas + sum(T \ {x})[T \ {x}] ELSE sum(U)[U]]
  <2>1. \A U \in SUBSET T : U # T => Sums(U, sum(U)) /\ sum(U) \in [SUBSET U -> Nat]
    BY <1>1
  <2>2. \A U \in SUBSET T : IsFiniteSet(U)
    BY FS_Subset DEF Weighed
  <2>3. \A U \in SUBSET T : U # T => sum(U)[U] \in Nat
    <3> HIDE DEF sum
    <3> QED
      BY <2>1
  <2>4. ASSUME NEW U \in SUBSET T, U # {}, U # T,
               NEW y, y = CHOOSE e \in U : TRUE
        PROVE  g[U] = y.deltas + g[U \ {y}]
    <3>1. y \in U /\ U \ {y} \in SUBSET U /\ U \ {y} # T /\ U \ {y} \in SUBSET T
      BY <2>4
    <3> DEFINE V == U \ {y}
    <3>2. sum(U)[U] = y.deltas + sum(U)[V]
      <4>1. Sums(U, sum(U))
        BY <2>1, <2>4
      <4> HIDE DEF sum
      <4>2. U \in SUBSET U
        OBVIOUS
      <4> QED
        BY <2>4, <4>1, <4>2 DEF Sums
    <3>3. sum(U)[V] = sum(V)[V]
      <4>1. Sums(U, sum(U)) /\ Sums(V, sum(V))
        BY <2>1, <2>4, <3>1
      <4>2. V \in SUBSET U /\ V \in SUBSET V /\ IsFiniteSet(V)
        BY <2>2, <3>1
      <4> HIDE DEF sum, V
      <4> QED
        BY <4>1, <4>2, SumsAgree
    <3>4. g[U] = sum(U)[U]
      BY <2>4
    <3>5. g[V] = sum(V)[V]
      <4>1. CASE V = {}
        <5>1. Sums(V, sum(V))
          BY <2>1, <3>1
        <5>2. sum(V)[V] = 0
          <6> HIDE DEF sum, V
          <6>1. V \in SUBSET V
            OBVIOUS
          <6> QED BY <4>1, <5>1, <6>1 DEF Sums
        <5>3. g[V] = 0
          BY <3>1, <4>1
        <5> QED BY <5>2, <5>3
      <4>2. CASE V # {}
        BY <3>1, <4>2
      <4> QED BY <4>1, <4>2
    <3>6. QED
      <4> HIDE DEF g, sum, V
      <4>1. V = U \ {y}
        BY DEF V
      <4> QED
        BY <3>2, <3>3, <3>4, <3>5, <4>1
  <2>5. ASSUME T # {} PROVE g[T] = x.deltas + g[T \ {x}]
    <3> DEFINE V == T \ {x}
    <3>1. x \in T /\ V \in SUBSET T /\ V # T /\ T \in SUBSET T
      BY <2>5
    <3>2. g[T] = x.deltas + sum(V)[V]
      BY <2>5, <3>1
    <3>3. g[V] = sum(V)[V]
      <4>1. CASE V = {}
        <5>1. Sums(V, sum(V))
          BY <2>1, <3>1
        <5>2. sum(V)[V] = 0
          <6> HIDE DEF sum, V
          <6>1. V \in SUBSET V
            OBVIOUS
          <6> QED BY <4>1, <5>1, <6>1 DEF Sums
        <5>3. g[V] = 0
          BY <3>1, <4>1
        <5> QED BY <5>2, <5>3
      <4>2. CASE V # {}
        BY <3>1, <4>2
      <4> QED BY <4>1, <4>2
    <3>4. QED
      BY <3>2, <3>3
  <2>6. g \in [SUBSET T -> Nat]
    <3>1. ASSUME NEW U \in SUBSET T PROVE g[U] \in Nat
      <4>1. CASE U = {}
        BY <4>1
      <4>2. CASE U # {} /\ U # T
        <5>1. sum(U)[U] \in Nat
          BY <2>3, <4>2
        <5> HIDE DEF sum
        <5> QED BY <4>2, <5>1
      <4>3. CASE U # {} /\ U = T
        <5>1. x \in T /\ T \ {x} \in SUBSET T /\ T \ {x} # T
          BY <4>3
        <5>2. x.deltas \in Nat
          BY <5>1 DEF Weighed
        <5>3. sum(T \ {x})[T \ {x}] \in Nat
          BY <2>3, <5>1
        <5> HIDE DEF sum, x
        <5> QED BY <4>3, <5>2, <5>3
      <4> QED BY <4>1, <4>2, <4>3
    <3>2. g = [U \in SUBSET T |-> g[U]]
      OBVIOUS
    <3> HIDE DEF g
    <3> QED BY <3>1, <3>2
  <2>7. Sums(T, g)
    <3>1. ASSUME NEW U \in SUBSET T
          PROVE  g[U] = IF U = {} THEN 0
                        ELSE (CHOOSE e \in U : TRUE).deltas + g[U \ {CHOOSE e \in U : TRUE}]
      <4>1. CASE U = {}
        BY <4>1
      <4>2. CASE U # {} /\ U # T
        <5> HIDE DEF g
        <5> QED BY <2>4, <4>2
      <4>3. CASE U # {} /\ U = T
        <5> HIDE DEF g
        <5> QED BY <2>5, <4>3
      <4> QED BY <4>1, <4>2, <4>3
    <3> HIDE DEF g
    <3> QED BY <2>6, <3>1 DEF Sums
  <2>8. QED
    BY <2>6, <2>7
<1>2. S \in G
  <2> HIDE DEF G
  <2>1. IsFiniteSet(S)
    BY DEF Weighed
  <2> QED
    BY <1>1, <2>1, BySubsets
<1>3. QED
    BY <1>2

\* TextOf is that solution: the fold of the library satisfies the recursion.
LEMMA TextIsASum ==
    ASSUME NEW S, Weighed(S)
    PROVE  \E g \in [SUBSET S -> Nat] : Sums(S, g) /\ TextOf(S) = g[S]
<1> DEFINE Rec(g) == [T \in SUBSET S |->
                         IF T = {} THEN 0
                         ELSE (CHOOSE e \in T : TRUE).deltas + g[T \ {CHOOSE e \in T : TRUE}]]
           iter == CHOOSE g : g = Rec(g)
<1>1. PICK h \in [SUBSET S -> Nat] : Sums(S, h)
    BY SumsExist
<1>2. h = Rec(h)
  <2>1. \A T \in SUBSET S : h[T] = Rec(h)[T]
    BY <1>1 DEF Sums
  <2> HIDE DEF Rec
  <2>2. Rec(h) = [T \in SUBSET S |-> Rec(h)[T]]
    BY DEF Rec
  <2> QED
    BY <2>1, <2>2
<1>3. iter = Rec(iter)
    BY <1>2
<1>4. TextOf(S) = iter[S]
    BY DEF TextOf, MapThenSumSet, MapThenFoldSet
<1>5. Sums(S, iter)
  <2> SUFFICES ASSUME NEW T \in SUBSET S
               PROVE  iter[T] = IF T = {} THEN 0
                                ELSE (CHOOSE e \in T : TRUE).deltas + iter[T \ {CHOOSE e \in T : TRUE}]
    BY DEF Sums
  <2>1. Rec(iter)[T] = IF T = {} THEN 0
                       ELSE (CHOOSE e \in T : TRUE).deltas + iter[T \ {CHOOSE e \in T : TRUE}]
    OBVIOUS
  <2> HIDE DEF iter, Rec
  <2> QED
    BY <1>3, <2>1
<1>6. iter[S] = h[S]
  <2> HIDE DEF iter
  <2>1. S \in SUBSET S /\ IsFiniteSet(S)
    BY DEF Weighed
  <2> QED
    BY <1>1, <1>5, <2>1, SumsAgree
<1>7. QED
    BY <1>1, <1>4, <1>6

LEMMA TextOfNone == TextOf({}) = 0
<1>1. Weighed({})
    BY FS_EmptySet DEF Weighed
<1>2. PICK g \in [SUBSET {} -> Nat] : Sums({}, g) /\ TextOf({}) = g[{}]
    BY <1>1, TextIsASum
<1>3. {} \in SUBSET {}
    OBVIOUS
<1>4. QED
    BY <1>2, <1>3 DEF Sums

\* The sum of a part is the same by itself or within the whole.
LEMMA TextOfPart ==
    ASSUME NEW S, Weighed(S), NEW g, Sums(S, g), NEW T \in SUBSET S
    PROVE  Weighed(T) /\ TextOf(T) = g[T]
<1>1. Weighed(T)
    BY FS_Subset DEF Weighed
<1>2. PICK h \in [SUBSET T -> Nat] : Sums(T, h) /\ TextOf(T) = h[T]
    BY <1>1, TextIsASum
<1>3. g[T] = h[T]
  <2>1. T \in SUBSET T /\ IsFiniteSet(T)
    BY <1>1 DEF Weighed
  <2> QED
    BY <1>2, <2>1, SumsAgree
<1>4. QED
    BY <1>1, <1>2, <1>3

\* Any event may be taken out of the sum first.
LEMMA TextOfOne ==
    ASSUME NEW S, Weighed(S), NEW d \in S
    PROVE  TextOf(S) = d.deltas + TextOf(S \ {d})
<1>1. PICK g \in [SUBSET S -> Nat] : Sums(S, g)
    BY SumsExist
<1> DEFINE G == {T \in SUBSET S : \A e \in T : g[T] = e.deltas + g[T \ {e}]}
<1>2. ASSUME NEW T \in SUBSET S, \A U \in SUBSET T : U # T => U \in G
      PROVE  T \in G
  <2> SUFFICES ASSUME NEW e \in T PROVE g[T] = e.deltas + g[T \ {e}]
    OBVIOUS
  <2>0. PICK c : c = CHOOSE x \in T : TRUE
    OBVIOUS
  <2>1. c \in T /\ g[T] = c.deltas + g[T \ {c}]
    BY <1>1, <2>0 DEF Sums
  <2>2. CASE c = e
    BY <2>1, <2>2
  <2>3. CASE c # e
    <3> DEFINE both == T \ {c, e}
    <3>1. g[T \ {c}] = e.deltas + g[both]
      <4>1. T \ {c} \in G /\ e \in T \ {c} /\ (T \ {c}) \ {e} = both
        BY <1>2, <2>1, <2>3
      <4> HIDE DEF both
      <4> QED BY <4>1
    <3>2. g[T \ {e}] = c.deltas + g[both]
      <4>1. T \ {e} \in G /\ c \in T \ {e} /\ (T \ {e}) \ {c} = both
        BY <1>2, <2>1, <2>3
      <4> HIDE DEF both
      <4> QED BY <4>1
    <3>3. both \in SUBSET S /\ c \in S /\ e \in S
      BY <2>1
    <3>4. g[both] \in Nat /\ c.deltas \in Nat /\ e.deltas \in Nat
      BY <1>1, <3>3 DEF Weighed
    <3> HIDE DEF both
    <3> QED
      BY <2>1, <3>1, <3>2, <3>4
  <2>4. QED
    BY <2>2, <2>3
<1>3. S \in G
  <2> HIDE DEF G
  <2>1. IsFiniteSet(S)
    BY DEF Weighed
  <2> QED
    BY <1>2, <2>1, BySubsets
<1>4. S \ {d} \in SUBSET S /\ S \in SUBSET S
    OBVIOUS
<1>5. TextOf(S) = g[S] /\ TextOf(S \ {d}) = g[S \ {d}]
    BY <1>1, <1>4, TextOfPart
<1>6. QED
    BY <1>3, <1>5

LEMMA TextOfSome == ASSUME NEW S, Weighed(S) PROVE TextOf(S) \in Nat
<1>1. PICK g \in [SUBSET S -> Nat] : TextOf(S) = g[S]
    BY TextIsASum
<1>2. S \in SUBSET S
    OBVIOUS
<1>3. QED
    BY <1>1, <1>2

\* The text of two sets with nothing in common is the sum of their texts.
LEMMA TextOfBoth ==
    ASSUME NEW S, NEW T, Weighed(S), Weighed(T), S \intersect T = {}
    PROVE  Weighed(S \union T) /\ TextOf(S \union T) = TextOf(S) + TextOf(T)
<1>1. \A U \in SUBSET T : Weighed(U) /\ Weighed(S \union U)
  <2> TAKE U \in SUBSET T
  <2>1. IsFiniteSet(U) /\ IsFiniteSet(S \union U)
    BY FS_Subset, FS_Union DEF Weighed
  <2> QED
    BY <2>1 DEF Weighed
<1> DEFINE G == {U \in SUBSET T : TextOf(S \union U) = TextOf(S) + TextOf(U)}
<1>2. ASSUME NEW U \in SUBSET T, \A V \in SUBSET U : V # U => V \in G
      PROVE  U \in G
  <2>1. CASE U = {}
    <3>1. S \union U = S /\ TextOf(U) = 0
      BY <2>1, TextOfNone
    <3>2. TextOf(S) \in Nat
      BY TextOfSome
    <3>3. TextOf(S \union U) = TextOf(S)
      BY <3>1, Zenon
    <3>4. TextOf(S) = TextOf(S) + TextOf(U)
      BY <3>1, <3>2
    <3> QED
      BY <3>3, <3>4
  <2>2. CASE U # {}
    <3>1. PICK e : e \in U
      BY <2>2
    <3> DEFINE V == U \ {e}
    <3>2. V \in SUBSET U /\ V # U /\ V \in SUBSET T /\ e \in S \union U /\ (S \union U) \ {e} = S \union V
      BY <3>1
    <3>3. TextOf(S \union V) = TextOf(S) + TextOf(V)
      BY <1>2, <3>2
    <3>4. TextOf(U) = e.deltas + TextOf(V)
      BY <1>1, <3>1, TextOfOne
    <3>5. TextOf(S \union U) = e.deltas + TextOf(S \union V)
      <4>1. TextOf(S \union U) = e.deltas + TextOf((S \union U) \ {e})
        BY <1>1, <3>1, TextOfOne
      <4> HIDE DEF V
      <4> QED BY <3>2, <4>1
    <3>6. e.deltas \in Nat /\ TextOf(S) \in Nat /\ TextOf(V) \in Nat
      <4>1. Weighed(V) /\ Weighed(T) /\ e \in T
        BY <1>1, <3>1, <3>2
      <4> HIDE DEF V
      <4> QED BY <4>1, TextOfSome DEF Weighed
    <3> HIDE DEF V
    <3> QED
      BY <3>3, <3>4, <3>5, <3>6
  <2>3. QED
    BY <2>1, <2>2
<1>3. T \in G
  <2> HIDE DEF G
  <2>1. IsFiniteSet(T)
    BY DEF Weighed
  <2> QED
    BY <1>2, <2>1, BySubsets
<1>4. QED
    BY <1>1, <1>3

\* A row gets its cursor: the text is the same.
LEMMA TextOfReplaced ==
    ASSUME NEW S, Weighed(S), NEW d \in S, NEW e, e \notin S, e.deltas = d.deltas
    PROVE  Weighed((S \ {d}) \union {e}) /\ TextOf((S \ {d}) \union {e}) = TextOf(S)
<1> DEFINE T == S \ {d}
<1>1. Weighed(T) /\ Weighed({e}) /\ T \intersect {e} = {}
  <2>1. IsFiniteSet(T)
    BY FS_Subset DEF Weighed
  <2>2. IsFiniteSet({e})
    BY FS_Singleton
  <2> QED BY <2>1, <2>2 DEF Weighed
<1>2. TextOf(S) = d.deltas + TextOf(T)
    BY TextOfOne
<1>3. Weighed(T \union {e}) /\ TextOf(T \union {e}) = TextOf(T) + TextOf({e})
  <2> HIDE DEF T
  <2> QED BY <1>1, TextOfBoth
<1>4. TextOf({e}) = e.deltas + TextOf({})
  <2>1. {e} \ {e} = {}
    OBVIOUS
  <2> QED BY <1>1, <2>1, TextOfOne
<1>5. TextOf(T) \in Nat /\ d.deltas \in Nat
  <2>1. d.deltas \in Nat
    BY DEF Weighed
  <2> HIDE DEF T
  <2> QED BY <1>1, <2>1, TextOfSome
<1>6. QED
    BY <1>2, <1>3, <1>4, <1>5, TextOfNone

-----------------------------------------------------------------------------
(* The invariant *)

Events == InFlight \union rows

\* How far each batch has got, and whose its numbers are.
BatchInv(w) ==
    LET pc == writer[w].pc  batch == writer[w].batch  n == writer[w].inserted
    IN  /\ Len(batch) <= 2 /\ n <= Len(batch)
        /\ pc = "idle" <=> batch = << >>
        /\ pc = "insert" => n < Len(batch)
        /\ pc \in {"lock", "commit", "publish"} => n = Len(batch)
        /\ pc = "publish" => ToSet(batch) \subseteq rows
        /\ \A i \in DOMAIN batch :
               /\ batch[i].sequence < sequence
               /\ batch[i].cursor # 0 <=> i <= n
               /\ pc # "publish" => \A e \in rows : e.sequence # batch[i].sequence
               /\ \A x \in Writers : \A j \in DOMAIN writer[x].batch :
                      batch[i].sequence = writer[x].batch[j].sequence => w = x /\ i = j

RowsInv ==
    /\ \A e \in rows : e.sequence < sequence /\ e.cursor # 0
    /\ \A d, e \in rows : d.sequence = e.sequence => d = e

\* Every identity that was drawn is that of one event.
CursorInv ==
    /\ \A e \in Events : e.cursor <= identity
    /\ \A d, e \in Events : d.cursor = e.cursor /\ d.cursor # 0 => d = e
    /\ \A c \in 1..identity : \E e \in Events : e.cursor = c

\* The terminal event, which comes once.
Ended == IF loop \in {"complete", "message", "closing", "ended"} THEN 1 ELSE 0

LoopInv ==
    /\ loop \in {"complete", "message", "closing", "failing"} => buffer = 0
    /\ sequence + buffer <= received + called + Ended

TextInv == received = buffer + TextOf(Events)

WriterRecords == [pc : WriterPCs, batch : Seq(Event), inserted : 0..3]

ViewerRecords ==
    [pc : ViewerPCs, once : BOOLEAN, start : Cursors, cursor : Cursors,
     queue : Seq(Event), backlog : Seq(Event), ahead : Nat, sent : Seq(Event)]

LoopTypeOK ==
    /\ received \in 0..MaxDeltas /\ called \in 0..MaxCalls /\ buffer \in 0..MaxDeltas
    /\ sequence \in 0..MaxSequence
    /\ ticking \in BOOLEAN /\ loop \in LoopPCs

TableTypeOK ==
    /\ writer \in [Writers -> WriterRecords]
    /\ identity \in Cursors /\ rows \subseteq Event
    /\ rowLock \in Writers \union {Nobody}

NumbersInv == LoopTypeOK /\ TableTypeOK /\ (\A w \in Writers : BatchInv(w)) /\ RowsInv /\ CursorInv

NumbersIInv ==
    /\ NumbersInv /\ LoopInv /\ TextInv
    /\ listed \subseteq rows /\ message \subseteq rows

-----------------------------------------------------------------------------
(* The events of a run *)

USE EventStreamAssumption

\* An event is in the table or in a batch that is not committed.
LEMMA EventsAre ==
    ASSUME NEW e
    PROVE  e \in Events <=> \/ e \in rows
                            \/ \E w \in Writers : \E i \in DOMAIN writer[w].batch :
                                   writer[w].pc # "publish" /\ e = writer[w].batch[i]
BY DEF Events, InFlight, Uncommitted, ToSet

\* The same of the next state.
LEMMA EventsAreNext ==
    ASSUME NEW e
    PROVE  e \in Events' <=> \/ e \in rows'
                             \/ \E w \in Writers : \E i \in DOMAIN writer'[w].batch :
                                    writer'[w].pc # "publish" /\ e = writer'[w].batch[i]
BY DEF Events, InFlight, Uncommitted, ToSet

\* A batch is a sequence of events.
LEMMA BatchTyped ==
    ASSUME TableTypeOK, NEW w \in Writers
    PROVE  /\ writer[w].pc \in WriterPCs /\ writer[w].batch \in Seq(Event) /\ writer[w].inserted \in 0..3
           /\ Len(writer[w].batch) \in Nat /\ DOMAIN writer[w].batch = 1..Len(writer[w].batch)
           /\ \A i \in DOMAIN writer[w].batch : writer[w].batch[i] \in Event
<1>1. writer[w] \in WriterRecords
    BY DEF TableTypeOK
<1>2. writer[w].pc \in WriterPCs /\ writer[w].batch \in Seq(Event) /\ writer[w].inserted \in 0..3
    BY <1>1 DEF WriterRecords
<1>3. Len(writer[w].batch) \in Nat /\ DOMAIN writer[w].batch = 1..Len(writer[w].batch)
    BY <1>2, LenProperties
<1>4. \A i \in 1..Len(writer[w].batch) : writer[w].batch[i] \in Event
    BY <1>2, ElementOfSeq
<1>5. QED
    BY <1>2, <1>3, <1>4

\* The events have numbers of their own, below the next one.
LEMMA EventsHaveNumbers ==
    ASSUME NumbersInv
    PROVE  /\ \A e \in Events : e \in Event /\ e.sequence \in Nat /\ e.sequence < sequence /\ e.deltas \in Nat
           /\ SequencesAreDistinct
<1>1. \A w \in Writers : BatchInv(w)
    BY DEF NumbersInv
<1>2. TableTypeOK /\ rows \subseteq Event /\ RowsInv
    BY DEF NumbersInv, TableTypeOK
<1>3. ASSUME NEW e \in Events PROVE e \in Event /\ e.sequence < sequence
  <2>1. CASE e \in rows
    BY <1>2, <2>1 DEF RowsInv
  <2>2. ASSUME NEW w \in Writers, NEW i \in DOMAIN writer[w].batch, e = writer[w].batch[i]
        PROVE  e \in Event /\ e.sequence < sequence
    BY <1>1, <1>2, <2>2, BatchTyped DEF BatchInv
  <2>3. QED
    BY <1>3, <2>1, <2>2, EventsAre
<1>4. \A e \in Events : e.sequence \in Nat /\ e.deltas \in Nat
    BY <1>3 DEF Event
<1>5. ASSUME NEW d \in Events, NEW e \in Events, d.sequence = e.sequence PROVE d = e
  <2>1. CASE d \in rows /\ e \in rows
    BY <1>2, <1>5, <2>1 DEF RowsInv
  <2>2. CASE d \notin rows /\ e \in rows
    <3>1. PICK w \in Writers : \E i \in DOMAIN writer[w].batch :
              writer[w].pc # "publish" /\ d = writer[w].batch[i]
      BY <2>2, EventsAre
    <3>2. QED
      BY <1>1, <1>5, <2>2, <3>1 DEF BatchInv
  <2>3. CASE d \in rows /\ e \notin rows
    <3>1. PICK w \in Writers : \E i \in DOMAIN writer[w].batch :
              writer[w].pc # "publish" /\ e = writer[w].batch[i]
      BY <2>3, EventsAre
    <3>2. QED
      BY <1>1, <1>5, <2>3, <3>1 DEF BatchInv
  <2>4. CASE d \notin rows /\ e \notin rows
    <3>1. PICK w \in Writers : \E i \in DOMAIN writer[w].batch : d = writer[w].batch[i]
      BY <2>4, EventsAre
    <3>2. PICK x \in Writers : \E j \in DOMAIN writer[x].batch : e = writer[x].batch[j]
      BY <2>4, EventsAre
    <3>3. QED
      BY <1>1, <1>5, <3>1, <3>2 DEF BatchInv
  <2>5. QED
    BY <2>1, <2>2, <2>3, <2>4
<1>6. SequencesAreDistinct
    BY <1>5 DEF SequencesAreDistinct, Events
<1>7. QED
    BY <1>3, <1>4, <1>6

\* There are finitely many events.
LEMMA EventsAreWeighed == ASSUME NumbersInv PROVE Weighed(Events)
<1> DEFINE f == [e \in Events |-> e.sequence]
<1>1. sequence \in Nat
    BY DEF NumbersInv, LoopTypeOK
<1>2. \A e \in Events : e.sequence \in 0..sequence /\ e.deltas \in Nat
    BY <1>1, EventsHaveNumbers
<1>3. f \in Injection(Events, 0..sequence)
  <2>1. \A d, e \in Events : d.sequence = e.sequence => d = e
    BY EventsHaveNumbers DEF SequencesAreDistinct, Events
  <2> QED BY <1>2, <2>1 DEF Injection, IsInjective
<1>4. IsFiniteSet(0..sequence)
    BY <1>1, FS_Interval
<1>5. IsFiniteSet(Events)
  <2> HIDE DEF f
  <2> QED BY <1>3, <1>4, FS_Injection
<1>6. QED
    BY <1>2, <1>5 DEF Weighed

\* Fewer identities were drawn than numbers, as long as an event has no row.
LEMMA IdentitiesAreCounted == ASSUME NumbersInv, NEW x \in Events, x.cursor = 0 PROVE identity < sequence
<1>1. sequence \in Nat /\ identity \in Nat
    BY DEF NumbersInv, LoopTypeOK, TableTypeOK, Cursors
<1> DEFINE at(c) == CHOOSE e \in Events : e.cursor = c
           f == [c \in 0..identity |-> at(c).sequence]
           S == 0..identity
           T == 0..(sequence - 1)
<1>2. \A c \in S : at(c) \in Events /\ at(c).cursor = c
    BY DEF NumbersInv, CursorInv
<1>3. \A e \in Events : e.sequence \in Nat /\ e.sequence < sequence
    BY EventsHaveNumbers
<1>4. f \in [S -> T]
  <2> HIDE DEF at
  <2> QED BY <1>1, <1>2, <1>3
<1>5. \A b, c \in S : f[b] = f[c] => b = c
  <2>1. \A d, e \in Events : d.sequence = e.sequence => d = e
    BY EventsHaveNumbers DEF SequencesAreDistinct, Events
  <2> HIDE DEF at
  <2> QED BY <1>2, <2>1
<1>6. IsFiniteSet(S) /\ Cardinality(S) = identity + 1
    BY <1>1, FS_Interval
<1>7. IsFiniteSet(T) /\ Cardinality(T) = sequence
    BY <1>1, FS_Interval
<1>8. ~ (Cardinality(T) < Cardinality(S))
  <2> HIDE DEF f, S, T
  <2> QED BY <1>4, <1>5, <1>6, <1>7, FS_PigeonHole
<1>9. QED
    BY <1>1, <1>6, <1>7, <1>8

-----------------------------------------------------------------------------
(* What the normalizer gives *)

\* A batch that takes what was held back but `rest`, under the next numbers.
Leaves(batch, rest) ==
    /\ batch \in Seq(Event) /\ Len(batch) <= 2
    /\ \A i \in DOMAIN batch :
           /\ batch[i].sequence \in sequence..(sequence + Len(batch) - 1)
           /\ batch[i].cursor = 0
           /\ \A j \in DOMAIN batch : batch[i].sequence = batch[j].sequence => i = j
    /\ rest \in Nat
    /\ Weighed(ToSet(batch)) /\ TextOf(ToSet(batch)) + rest = buffer

Fresh(batch) == Leaves(batch, 0)

LEMMA TextOfEvent ==
    ASSUME NEW e, e.deltas \in Nat
    PROVE  Weighed({e}) /\ TextOf({e}) = e.deltas
<1>1. Weighed({e}) /\ {e} \ {e} = {}
    BY FS_Singleton DEF Weighed
<1>2. TextOf({e}) = e.deltas + TextOf({})
    BY <1>1, TextOfOne
<1>3. QED
    BY <1>1, <1>2, TextOfNone

\* Two events in one batch.
LEMMA OneAfterOne == ASSUME NEW d, NEW e PROVE <<d>> \o <<e>> = <<d, e>> /\ Len(<<d, e>>) = 2
<1> DEFINE S == {d, e}
<1>1. <<d>> \in Seq(S) /\ <<e>> \in Seq(S) /\ <<d, e>> \in Seq(S)
      /\ Len(<<d>>) = 1 /\ Len(<<e>>) = 1 /\ Len(<<d, e>>) = 2
    OBVIOUS
<1>2. /\ <<d>> \o <<e>> \in Seq(S) /\ Len(<<d>> \o <<e>>) = 2
      /\ (<<d>> \o <<e>>)[1] = d /\ (<<d>> \o <<e>>)[2] = e
  <2> HIDE DEF S
  <2>1. /\ <<d>> \o <<e>> \in Seq(S) /\ Len(<<d>> \o <<e>>) = 1 + 1
        /\ \A i \in 1..1 + 1 : (<<d>> \o <<e>>)[i] = IF i <= 1 THEN <<d>>[i] ELSE <<e>>[i - 1]
    BY <1>1, ConcatProperties
  <2>2. <<d>>[1] = d /\ <<e>>[2 - 1] = e
    OBVIOUS
  <2>3. QED
    BY <2>1, <2>2
<1>3. \A i \in 1..2 : (<<d>> \o <<e>>)[i] = <<d, e>>[i]
    BY <1>2
<1>4. <<d>> \o <<e>> = <<d, e>>
  <2> HIDE DEF S
  <2> QED BY <1>1, <1>2, <1>3, SeqEqual
<1>5. QED
    BY <1>1, <1>4

\* Nothing was held back: the batch is empty.
LEMMA NoneIsFresh == ASSUME buffer = 0 PROVE Fresh(<< >>)
<1>1. << >> \in Seq(Event) /\ Len(<< >>) = 0 /\ DOMAIN << >> = {}
    OBVIOUS
<1>2. ToSet(<< >>) = {}
    BY <1>1 DEF ToSet
<1>3. Weighed(ToSet(<< >>)) /\ TextOf(ToSet(<< >>)) = 0
  <2>1. Weighed({}) /\ TextOf({}) = 0
    BY TextOfNone, FS_EmptySet DEF Weighed
  <2>2. QED
    BY <1>2, <2>1, Zenon
<1>4. TextOf(ToSet(<< >>)) + 0 = buffer
    BY <1>3
<1>5. QED
    BY <1>1, <1>3, <1>4 DEF Fresh, Leaves

LEMMA NumberedIsAnEvent ==
    ASSUME NEW n \in Nat, n <= MaxSequence, NEW kind \in Kinds, NEW deltas \in 0..MaxDeltas
    PROVE  LET e == Numbered(n, kind, deltas)
           IN  e \in Event /\ e.sequence = n /\ e.cursor = 0 /\ e.deltas = deltas /\ e.deltas \in Nat
BY DEF Numbered, Event, MaxSequence, Cursors

\* A batch of one event, which carries some of the text held back.
LEMMA OneLeaves ==
    ASSUME LoopTypeOK, sequence + 1 <= MaxSequence + 1, NEW kind \in Kinds,
           NEW deltas \in 0..MaxDeltas, NEW rest \in Nat, deltas + rest = buffer
    PROVE  Leaves(<<Numbered(sequence, kind, deltas)>>, rest)
<1> DEFINE e == Numbered(sequence, kind, deltas)
<1>1. sequence \in Nat /\ buffer \in 0..MaxDeltas /\ sequence <= MaxSequence
    BY DEF LoopTypeOK, MaxSequence
<1>2. e \in Event /\ e.sequence = sequence /\ e.cursor = 0 /\ e.deltas = deltas /\ e.deltas \in Nat
    BY <1>1, NumberedIsAnEvent
<1>3. Weighed({e}) /\ TextOf({e}) = deltas
  <2> HIDE DEF e
  <2> QED BY <1>2, TextOfEvent
<1> HIDE DEF e
<1>4. <<e>> \in Seq(Event) /\ Len(<<e>>) = 1 /\ DOMAIN <<e>> = {1} /\ <<e>>[1] = e
    BY <1>2
<1>5. ToSet(<<e>>) = {e}
    BY <1>4 DEF ToSet
<1>6. Weighed(ToSet(<<e>>)) /\ TextOf(ToSet(<<e>>)) + rest = buffer
  <2>1. Weighed(ToSet(<<e>>)) /\ TextOf(ToSet(<<e>>)) = deltas
    BY <1>3, <1>5, Zenon
  <2>2. QED
    BY <2>1
<1>7. sequence \in sequence..(sequence + 1 - 1)
    BY <1>1
<1>8. Leaves(<<e>>, rest)
    BY <1>2, <1>4, <1>6, <1>7 DEF Leaves
<1>9. QED
    BY <1>8 DEF e

LEMMA OneIsFresh ==
    ASSUME LoopTypeOK, sequence + 1 <= MaxSequence + 1, NEW kind \in Kinds
    PROVE  Fresh(<<Numbered(sequence, kind, buffer)>>)
<1>1. buffer \in 0..MaxDeltas /\ 0 \in Nat /\ buffer + 0 = buffer
    BY DEF LoopTypeOK
<1>2. QED
    BY <1>1, OneLeaves DEF Fresh

\* A batch of the text held back and the event that made it come out, whichever of the
\* two has the first number.
LEMMA TwoAreFresh ==
    ASSUME LoopTypeOK, sequence + 2 <= MaxSequence + 1, NEW kind \in Kinds,
           NEW m \in {sequence, sequence + 1}, NEW n \in {sequence, sequence + 1}, m # n
    PROVE  Fresh(<<Numbered(m, "text", buffer), Numbered(n, kind, 0)>>)
<1> DEFINE d == Numbered(m, "text", buffer)
           e == Numbered(n, kind, 0)
<1>1. sequence \in Nat /\ buffer \in 0..MaxDeltas /\ sequence + 1 <= MaxSequence /\ sequence + 1 \in Nat
      /\ sequence <= MaxSequence /\ 0 \in 0..MaxDeltas /\ "text" \in Kinds
      /\ m \in Nat /\ m <= MaxSequence /\ n \in Nat /\ n <= MaxSequence
    BY DEF LoopTypeOK, MaxSequence, Kinds
<1>2. d \in Event /\ d.sequence = m /\ d.cursor = 0 /\ d.deltas = buffer /\ d.deltas \in Nat
    BY <1>1, NumberedIsAnEvent
<1>3. e \in Event /\ e.sequence = n /\ e.cursor = 0 /\ e.deltas = 0 /\ e.deltas \in Nat
    BY <1>1, NumberedIsAnEvent
<1> HIDE DEF d, e
<1>4. Weighed({d, e}) /\ TextOf({d, e}) = buffer
  <2>1. Weighed({d}) /\ TextOf({d}) = buffer /\ Weighed({e}) /\ TextOf({e}) = 0
    BY <1>2, <1>3, TextOfEvent
  <2>2. {d} \intersect {e} = {} /\ {d, e} = {d} \union {e}
    BY <1>1, <1>2, <1>3
  <2>3. Weighed({d} \union {e}) /\ TextOf({d} \union {e}) = TextOf({d}) + TextOf({e})
    BY <2>1, <2>2, TextOfBoth
  <2>4. Weighed({d, e}) /\ TextOf({d, e}) = TextOf({d} \union {e})
    BY <2>2, <2>3
  <2>5. QED
    BY <1>1, <2>1, <2>3, <2>4
<1>5. /\ <<d, e>> \in Seq(Event) /\ Len(<<d, e>>) = 2 /\ DOMAIN <<d, e>> = {1, 2}
      /\ <<d, e>>[1] = d /\ <<d, e>>[2] = e
    BY <1>2, <1>3
<1>6. ToSet(<<d, e>>) = {d, e}
    BY <1>5 DEF ToSet
<1>7. Fresh(<<d, e>>)
  <2>1. Weighed(ToSet(<<d, e>>)) /\ TextOf(ToSet(<<d, e>>)) = buffer
    BY <1>4, <1>6, Zenon
  <2>2. TextOf(ToSet(<<d, e>>)) + 0 = buffer
    BY <1>1, <2>1
  <2>3. m \in sequence..(sequence + 2 - 1) /\ n \in sequence..(sequence + 2 - 1)
    BY <1>1
  <2>4. \A i \in DOMAIN <<d, e>> : i = 1 \/ i = 2
    BY <1>5
  <2>5. \A i \in DOMAIN <<d, e>> :
            /\ <<d, e>>[i].sequence \in sequence..(sequence + 2 - 1)
            /\ <<d, e>>[i].cursor = 0
            /\ \A j \in DOMAIN <<d, e>> : <<d, e>>[i].sequence = <<d, e>>[j].sequence => i = j
    BY <1>2, <1>3, <1>5, <2>3, <2>4
  <2>6. QED
    BY <1>5, <2>1, <2>2, <2>5 DEF Fresh, Leaves
<1>8. QED
    BY <1>7 DEF d, e

\* What is held back takes at most one number.
LEMMA FlushedIsFresh ==
    ASSUME LoopTypeOK, LoopInv, received + called + Ended <= MaxSequence
    PROVE  /\ Fresh(Flushed)
           /\ Len(Flushed) <= buffer
<1>0. sequence \in Nat /\ buffer \in Nat /\ received \in Nat /\ called \in Nat /\ Ended \in Nat
      /\ MaxSequence \in Nat
    BY DEF LoopTypeOK, Ended, MaxSequence
<1>1. CASE buffer = 0
  <2>1. Flushed = << >> /\ Len(<< >>) = 0
    BY <1>1 DEF Flushed
  <2>2. QED
    BY <1>1, <2>1, NoneIsFresh
<1>2. CASE buffer # 0
  <2>1. Flushed = <<Numbered(sequence, "text", buffer)>> /\ Len(<<Numbered(sequence, "text", buffer)>>) = 1
    BY <1>2 DEF Flushed
  <2>2. sequence + 1 <= MaxSequence + 1 /\ "text" \in Kinds
    BY <1>0, <1>2 DEF LoopInv, Kinds
  <2>3. Fresh(<<Numbered(sequence, "text", buffer)>>)
    BY <2>2, OneIsFresh
  <2>4. QED
    BY <1>0, <1>2, <2>1, <2>3
<1>3. QED
    BY <1>1, <1>2

\* Another event takes the next number after it.
LEMMA FlushedThenOneIsFresh ==
    ASSUME LoopTypeOK, LoopInv, received + called + Ended < MaxSequence, NEW kind \in Kinds
    PROVE  LET batch == Flushed \o <<Numbered(sequence + Len(Flushed), kind, 0)>>
           IN  Fresh(batch) /\ Len(batch) <= buffer + 1
<1>0. sequence \in Nat /\ buffer \in Nat /\ received \in Nat /\ called \in Nat /\ Ended \in Nat
      /\ MaxSequence \in Nat
    BY DEF LoopTypeOK, Ended, MaxSequence
<1> DEFINE batch == Flushed \o <<Numbered(sequence + Len(Flushed), kind, 0)>>
<1>1. CASE buffer = 0
  <2> DEFINE e == Numbered(sequence, kind, 0)
  <2>1. Flushed = << >> /\ sequence + Len(Flushed) = sequence
    BY <1>0, <1>1 DEF Flushed
  <2>2. batch = << >> \o <<e>>
    BY <2>1
  <2>3. batch = <<e>> /\ Len(<<e>>) = 1
    <3> HIDE DEF batch, e
    <3> QED BY <2>2
  <2>4. Fresh(<<Numbered(sequence, kind, buffer)>>)
    BY <1>0, <1>1, OneIsFresh DEF LoopInv
  <2>5. Fresh(<<e>>)
    BY <1>1, <2>4
  <2> HIDE DEF batch, e
  <2>6. Fresh(batch) /\ Len(batch) <= buffer + 1
    BY <1>0, <2>3, <2>5
  <2>7. QED
    BY <2>6 DEF batch
<1>2. CASE buffer # 0
  <2> DEFINE d == Numbered(sequence, "text", buffer)
             e == Numbered(sequence + 1, kind, 0)
  <2>1. Flushed = <<d>>
    BY <1>2 DEF Flushed
  <2>2. sequence + Len(Flushed) = sequence + 1
    BY <2>1
  <2>3. batch = <<d>> \o <<e>>
    BY <2>1, <2>2
  <2>4. batch = <<d, e>> /\ Len(<<d, e>>) = 2
    <3> HIDE DEF batch, d, e
    <3> QED BY <2>3, OneAfterOne
  <2>5. sequence + 2 <= MaxSequence + 1
    BY <1>0, <1>2 DEF LoopInv
  <2>6. Fresh(<<d, e>>)
    <3>1. sequence \in {sequence, sequence + 1} /\ sequence + 1 \in {sequence, sequence + 1}
          /\ sequence # sequence + 1
      BY <1>0
    <3>2. QED
      BY <2>5, <3>1, TwoAreFresh
  <2> HIDE DEF batch, d, e
  <2>7. Fresh(batch) /\ Len(batch) <= buffer + 1
    BY <1>0, <1>2, <2>4, <2>6
  <2>8. QED
    BY <2>7 DEF batch
<1>3. QED
    BY <1>1, <1>2

\* So does the error, whose number comes first.
LEMMA ErrorIsFresh ==
    ASSUME LoopTypeOK, LoopInv, received + called + Ended < MaxSequence
    PROVE  Fresh(ErrorBatch) /\ Len(ErrorBatch) <= buffer + 1
<1>0. sequence \in Nat /\ buffer \in Nat /\ received \in Nat /\ called \in Nat /\ Ended \in Nat
      /\ MaxSequence \in Nat /\ "end" \in Kinds
    BY DEF LoopTypeOK, Ended, MaxSequence, Kinds
<1>1. CASE buffer = 0
  <2>1. ErrorBatch = <<Numbered(sequence, "end", buffer)>> /\ Len(<<Numbered(sequence, "end", buffer)>>) = 1
    BY <1>1 DEF ErrorBatch
  <2>2. Fresh(<<Numbered(sequence, "end", buffer)>>)
    BY <1>0, <1>1, OneIsFresh DEF LoopInv
  <2>3. QED
    BY <1>0, <2>1, <2>2
<1>2. CASE buffer # 0
  <2> DEFINE d == Numbered(sequence + 1, "text", buffer)
             e == Numbered(sequence, "end", 0)
  <2>1. ErrorBatch = <<d, e>> /\ Len(<<d, e>>) = 2
    BY <1>2 DEF ErrorBatch
  <2>2. /\ sequence + 2 <= MaxSequence + 1 /\ sequence # sequence + 1
        /\ sequence \in {sequence, sequence + 1} /\ sequence + 1 \in {sequence, sequence + 1}
    BY <1>0, <1>2 DEF LoopInv
  <2>3. Fresh(<<d, e>>)
    BY <1>0, <2>2, TwoAreFresh
  <2> HIDE DEF d, e
  <2>4. QED
    BY <1>0, <1>2, <2>1, <2>3
<1>3. QED
    BY <1>1, <1>2

\* A batch that is given to an idle writer adds its events, and nothing else changes hands.
LEMMA GivesKeepsNumbers ==
    ASSUME NumbersInv, TextInv, NEW w \in Writers, Waits(w), NEW batch, NEW rest,
           Leaves(batch, rest), Gives(w, batch, rest),
           UNCHANGED <<identity, rows, rowLock>>, received' = received, LoopTypeOK'
    PROVE  NumbersInv' /\ TextInv'
<1>1. /\ TableTypeOK /\ rows \subseteq Event /\ RowsInv /\ CursorInv /\ sequence \in Nat /\ buffer \in Nat
      /\ identity \in Nat /\ received \in Nat
      /\ \A x \in Writers : BatchInv(x)
    BY DEF NumbersInv, TableTypeOK, LoopTypeOK, Cursors
<1>2. /\ batch \in Seq(Event) /\ Len(batch) \in Nat /\ Len(batch) <= 2 /\ DOMAIN batch = 1..Len(batch)
      /\ \A i \in DOMAIN batch :
             /\ batch[i].sequence \in sequence..(sequence + Len(batch) - 1)
             /\ batch[i].cursor = 0
             /\ \A j \in DOMAIN batch : batch[i].sequence = batch[j].sequence => i = j
      /\ TextOf(ToSet(batch)) + rest = buffer /\ rest \in Nat
    BY LenProperties DEF Leaves
<1>3. writer[w].batch = << >> /\ writer[w].pc = "idle"
    BY <1>1 DEF BatchInv, Waits
<1>4. sequence' = sequence + Len(batch) /\ buffer' = rest
    BY DEF Gives
<1>5. CASE batch = << >>
  <2>1. writer' = writer /\ Len(batch) = 0 /\ ToSet(batch) = {}
    BY <1>2, <1>5 DEF Gives, ToSet
  <2>2. buffer' = buffer /\ sequence' = sequence
    BY <1>1, <1>2, <1>4, <2>1, TextOfNone
  <2>3. Events' = Events /\ TableTypeOK'
    <3>1. Events' = Events
      BY <2>1 DEF Events, InFlight, Uncommitted
    <3>2. TableTypeOK'
      BY <1>1, <2>1 DEF TableTypeOK
    <3>3. QED
      BY <3>1, <3>2
  <2>4. (\A x \in Writers : BatchInv(x))' /\ RowsInv' /\ CursorInv'
    BY <1>1, <2>1, <2>2, <2>3 DEF BatchInv, RowsInv, CursorInv
  <2>5. TextInv'
    BY <1>4, <2>2, <2>3 DEF TextInv
  <2>6. QED
    BY <2>3, <2>4, <2>5 DEF NumbersInv
<1>6. CASE batch # << >>
  <2>1. /\ writer' = [writer EXCEPT ![w] = [pc |-> "insert", batch |-> batch, inserted |-> 0]]
        /\ Len(batch) > 0
    BY <1>2, <1>6, EmptySeq DEF Gives
  <2>2. writer'[w] = [pc |-> "insert", batch |-> batch, inserted |-> 0]
        /\ \A x \in Writers : x # w => writer'[x] = writer[x]
    BY <1>1, <2>1 DEF TableTypeOK
  <2>3. TableTypeOK'
    <3>1. [pc |-> "insert", batch |-> batch, inserted |-> 0] \in WriterRecords
      BY <1>2 DEF WriterRecords, WriterPCs
    <3>2. QED
      BY <1>1, <2>1, <3>1 DEF TableTypeOK
  <2>4. \A e : e \in Events' <=> e \in Events \/ e \in ToSet(batch)
    <3>1. ASSUME NEW e, e \in Events' PROVE e \in Events \/ e \in ToSet(batch)
      <4>1. CASE e \in rows'
        BY <4>1, EventsAre
      <4>2. ASSUME NEW x \in Writers, NEW i \in DOMAIN writer'[x].batch,
                   writer'[x].pc # "publish", e = writer'[x].batch[i]
            PROVE  e \in Events \/ e \in ToSet(batch)
        <5>1. CASE x = w
          BY <2>2, <4>2, <5>1 DEF ToSet
        <5>2. CASE x # w
          BY <2>2, <4>2, <5>2, EventsAre
        <5>3. QED BY <5>1, <5>2
      <4>3. QED
        BY <3>1, <4>1, <4>2, EventsAreNext
    <3>2. ASSUME NEW e, e \in Events PROVE e \in Events'
      <4>1. CASE e \in rows
        BY <4>1, EventsAreNext
      <4>2. ASSUME NEW x \in Writers, NEW i \in DOMAIN writer[x].batch,
                   writer[x].pc # "publish", e = writer[x].batch[i]
            PROVE  e \in Events'
        <5>1. x # w
          BY <1>3, <4>2
        <5>2. writer'[x] = writer[x]
          BY <2>2, <5>1
        <5>3. QED
          BY <4>2, <5>2, EventsAreNext
      <4>3. QED
        BY <3>2, <4>1, <4>2, EventsAre
    <3>3. ASSUME NEW e, e \in ToSet(batch) PROVE e \in Events'
      <4>1. PICK i \in DOMAIN batch : e = batch[i]
        BY <3>3 DEF ToSet
      <4>2. QED
        BY <2>2, <4>1, EventsAreNext
    <3>4. QED
      BY <3>1, <3>2, <3>3
  <2>5. ASSUME NEW e \in ToSet(batch) PROVE e.sequence \in Nat /\ e.sequence >= sequence /\ e.cursor = 0
                                            /\ e \in Event /\ e.deltas \in Nat
    <3>1. PICK i \in DOMAIN batch : e = batch[i]
      BY DEF ToSet
    <3>2. e \in Event
      BY <1>2, <3>1, ElementOfSeq
    <3>3. QED
      BY <1>1, <1>2, <3>1, <3>2 DEF Event
  <2>6. CursorInv'
    BY <1>1, <2>4, <2>5 DEF CursorInv
  <2>7. RowsInv'
    <3>1. \A e \in rows : e.sequence \in Nat
      BY <1>1 DEF Event
    <3>2. QED
      BY <1>1, <1>2, <1>4, <3>1 DEF RowsInv
  <2>8. ASSUME NEW x \in Writers PROVE BatchInv(x)'
    <3>1. \A e \in rows : e.sequence \in Nat /\ e.sequence < sequence
      BY <1>1 DEF Event, RowsInv
    <3>2. \A y \in Writers : \A j \in DOMAIN writer[y].batch :
              writer[y].batch[j].sequence \in Nat /\ writer[y].batch[j].sequence < sequence
      BY <1>1, BatchTyped DEF BatchInv, Event
    <3>3. \A i \in DOMAIN batch : batch[i].sequence \in Nat /\ batch[i].sequence >= sequence
      BY <1>1, <1>2
    <3>4. CASE x = w
      <4>1. \A i \in DOMAIN batch : batch[i].sequence < sequence' /\ ~ (batch[i].cursor # 0) /\ ~ (i <= 0)
        BY <1>1, <1>2, <1>4
      <4>2. \A i \in DOMAIN batch : \A e \in rows : e.sequence # batch[i].sequence
        BY <1>1, <3>1, <3>3
      <4>3. ASSUME NEW i \in DOMAIN batch, NEW y \in Writers, NEW j \in DOMAIN writer'[y].batch,
                   batch[i].sequence = writer'[y].batch[j].sequence
            PROVE  w = y /\ i = j
        <5>1. CASE y = w
          BY <1>1, <1>2, <2>2, <4>3, <5>1
        <5>2. CASE y # w
          <6>1. writer'[y] = writer[y]
            BY <2>2, <5>2
          <6>2. QED
            BY <1>1, <3>2, <3>3, <4>3, <6>1
        <5>3. QED BY <5>1, <5>2
      <4>4. QED
        BY <1>2, <2>1, <2>2, <3>4, <4>1, <4>2, <4>3 DEF BatchInv
    <3>5. CASE x # w
      <4>1. writer'[x] = writer[x]
        BY <2>2, <3>5
      <4>2. \A i \in DOMAIN writer[x].batch : writer[x].batch[i].sequence < sequence'
        BY <1>1, <1>2, <1>4, <3>2
      <4>3. ASSUME NEW i \in DOMAIN writer[x].batch, NEW y \in Writers, NEW j \in DOMAIN writer'[y].batch,
                   writer[x].batch[i].sequence = writer'[y].batch[j].sequence
            PROVE  x = y /\ i = j
        <5>1. CASE y = w
          <6>1. writer'[y].batch = batch
            BY <2>2, <5>1
          <6>2. QED
            BY <1>1, <3>2, <3>3, <4>3, <6>1
        <5>2. CASE y # w
          <6>1. writer'[y] = writer[y]
            BY <2>2, <5>2
          <6>2. QED
            BY <1>1, <4>3, <6>1 DEF BatchInv
        <5>3. QED BY <5>1, <5>2
      <4>4. BatchInv(x)
        BY <1>1
      <4>5. QED
        BY <4>1, <4>2, <4>3, <4>4 DEF BatchInv
    <3>6. QED
      BY <3>4, <3>5
  <2>9. NumbersInv'
    BY <2>3, <2>6, <2>7, <2>8 DEF NumbersInv
  <2>10. TextInv'
    <3>1. Weighed(Events)
      BY EventsAreWeighed
    <3>2. Weighed(ToSet(batch))
      BY DEF Leaves
    <3>3. Events \intersect ToSet(batch) = {}
      <4>1. \A e \in Events : e.sequence \in Nat /\ e.sequence < sequence
        BY EventsHaveNumbers
      <4>2. QED
        BY <1>1, <2>5, <4>1
    <3>4. TextOf(Events \union ToSet(batch)) = TextOf(Events) + TextOf(ToSet(batch))
      BY <3>1, <3>2, <3>3, TextOfBoth
    <3>5. Events' = Events \union ToSet(batch)
      BY <2>4
    <3>6. TextOf(Events') = TextOf(Events) + TextOf(ToSet(batch))
      BY <3>4, <3>5
    <3>7. TextOf(Events) \in Nat /\ TextOf(ToSet(batch)) \in Nat
      BY <3>1, <3>2, TextOfSome
    <3>8. TextOf(Events') = TextOf(Events)'
      OBVIOUS
    <3>9. QED
      BY <1>1, <1>2, <1>4, <3>6, <3>7, <3>8 DEF TextInv
  <2>11. QED
    BY <2>9, <2>10
<1>7. QED
    BY <1>5, <1>6

-----------------------------------------------------------------------------
(* The transactions *)

\* The event a row is inserted for, and what it becomes.
NextRow(w) == writer[w].batch[writer[w].inserted + 1]
Inserted(w) == [NextRow(w) EXCEPT !.cursor = identity + 1]

\* What an insertion writes: the next event of the batch, with its identity.
LEMMA InsertWrites ==
    ASSUME NumbersInv, NEW w \in Writers, InsertRow(w)
    PROVE  LET n == writer[w].inserted + 1  b == writer[w].batch
           IN  /\ n \in DOMAIN b /\ n \in 1..2 /\ NextRow(w) \in Event /\ Inserted(w) \in Event
               /\ Inserted(w).sequence = NextRow(w).sequence /\ Inserted(w).deltas = NextRow(w).deltas
               /\ Inserted(w).cursor = identity + 1
               /\ writer' \in [Writers -> WriterRecords]
               /\ writer'[w].batch = [b EXCEPT ![n] = Inserted(w)]
               /\ writer'[w].inserted = n
               /\ writer'[w].pc = IF n = Len(b) THEN "lock" ELSE "insert"
               /\ \A x \in Writers : x # w => writer'[x] = writer[x]
<1> DEFINE n == writer[w].inserted + 1
           b == writer[w].batch
           record == [pc |-> IF n = Len(b) THEN "lock" ELSE "insert",
                      batch |-> [b EXCEPT ![n] = Inserted(w)], inserted |-> n]
<1>1. writer[w] \in WriterRecords /\ writer \in [Writers -> WriterRecords]
    BY DEF NumbersInv, TableTypeOK
<1>2. b \in Seq(Event) /\ Len(b) \in Nat /\ DOMAIN b = 1..Len(b) /\ writer[w].inserted \in 0..3
      /\ \A i \in DOMAIN b : b[i] \in Event
    BY BatchTyped DEF NumbersInv
<1>3. writer[w].inserted < Len(b) /\ Len(b) <= 2
    BY DEF NumbersInv, BatchInv, InsertRow
<1>4. n \in DOMAIN b /\ n \in 1..2
    BY <1>2, <1>3
<1>5. NextRow(w) \in Event
    BY <1>2, <1>4 DEF NextRow
<1>6. identity + 1 \in Cursors
  <2>2. NextRow(w) \in Events
    BY <1>4, EventsAre DEF NextRow, InsertRow
  <2>3. NextRow(w).cursor = 0
    <3>1. BatchInv(w) /\ ~ (n <= writer[w].inserted)
      BY <1>2 DEF NumbersInv
    <3>2. QED
      BY <1>4, <3>1 DEF BatchInv, NextRow
  <2>4. identity < sequence
    BY <2>2, <2>3, IdentitiesAreCounted
  <2>5. sequence <= MaxSequence /\ sequence \in Nat /\ identity \in Nat /\ MaxSequence \in Nat
    BY DEF NumbersInv, LoopTypeOK, TableTypeOK, Cursors, MaxSequence
  <2>6. QED
    BY <2>4, <2>5 DEF Cursors
<1>7. /\ Inserted(w) \in Event
      /\ Inserted(w).sequence = NextRow(w).sequence /\ Inserted(w).deltas = NextRow(w).deltas
      /\ Inserted(w).cursor = identity + 1
    BY <1>5, <1>6, Zenon DEF Inserted, Event
<1>8. [b EXCEPT ![n] = Inserted(w)] \in Seq(Event)
    BY <1>2, <1>4, <1>7, ExceptSeq
<1>9. record \in WriterRecords
    BY <1>4, <1>8 DEF WriterRecords, WriterPCs
<1>10. writer' = [writer EXCEPT ![w] = record]
  <2>1. writer' = [writer EXCEPT ![w].batch[n].cursor = identity + 1, ![w].inserted = n,
                                 ![w].pc = IF n = Len(b) THEN "lock" ELSE "insert"]
    BY DEF InsertRow
  <2>2. QED
    BY <1>1, <1>2, <1>4, <1>5, <2>1 DEF Inserted, NextRow, WriterRecords
<1>11. writer'[w] = record /\ \A x \in Writers : x # w => writer'[x] = writer[x]
    BY <1>1, <1>10
<1>12. writer' \in [Writers -> WriterRecords]
    BY <1>1, <1>9, <1>10
<1>13. QED
    BY <1>4, <1>5, <1>7, <1>11, <1>12

\* The event that is inserted takes the place of itself without a cursor.
LEMMA InsertReplaces ==
    ASSUME NumbersInv, NEW w \in Writers, InsertRow(w)
    PROVE  /\ NextRow(w) \in Events /\ NextRow(w).cursor = 0 /\ NextRow(w) \notin rows
           /\ Inserted(w) \notin Events
           /\ Events' = (Events \ {NextRow(w)}) \union {Inserted(w)}
<1> DEFINE n == writer[w].inserted + 1
           b == writer[w].batch
           d == NextRow(w)
           e == Inserted(w)
<1>1. /\ n \in DOMAIN b /\ e.sequence = d.sequence /\ e.cursor = identity + 1
      /\ writer'[w].batch = [b EXCEPT ![n] = e] /\ writer'[w].pc \in {"lock", "insert"}
      /\ \A x \in Writers : x # w => writer'[x] = writer[x]
    BY InsertWrites
<1>2. writer[w].pc = "insert" /\ rows' = rows
    BY DEF InsertRow
<1>3. BatchInv(w) /\ writer[w].inserted \in Nat /\ identity \in Nat /\ d = b[n]
    BY BatchTyped DEF NumbersInv, TableTypeOK, Cursors, NextRow
<1>4. d \in Events
    BY <1>1, <1>2, <1>3, EventsAre
<1>5. d.cursor = 0 /\ d \notin rows
    BY <1>1, <1>2, <1>3 DEF BatchInv
<1>6. \A x \in Writers : \A j \in DOMAIN writer[x].batch :
          writer[x].batch[j] = d => x = w /\ j = n
    BY <1>1, <1>3 DEF BatchInv
<1>7. e \notin Events
  <2>1. \A c \in Events : c.cursor <= identity
    BY DEF NumbersInv, CursorInv
  <2>2. ~ (e.cursor <= identity)
    BY <1>1, <1>3
  <2>3. QED
    BY <2>1, <2>2
<1>8. DOMAIN writer'[w].batch = DOMAIN b /\ writer'[w].batch[n] = e
      /\ \A j \in DOMAIN b : j # n => writer'[w].batch[j] = b[j]
    BY <1>1
<1> HIDE DEF n, b, d, e
<1>9. ASSUME NEW c \in Events, c # d PROVE c \in Events'
  <2>1. CASE c \in rows
    BY <1>2, <2>1, EventsAreNext
  <2>2. ASSUME NEW x \in Writers, NEW j \in DOMAIN writer[x].batch, writer[x].pc # "publish",
               c = writer[x].batch[j]
        PROVE  c \in Events'
    <3>1. CASE x = w
      <4>1. DOMAIN writer[x].batch = DOMAIN b /\ c = b[j] /\ j # n
        BY <1>3, <1>9, <2>2, <3>1 DEF b, d
      <4>2. j \in DOMAIN writer'[w].batch /\ c = writer'[w].batch[j] /\ writer'[w].pc # "publish"
        BY <1>1, <1>8, <2>2, <4>1
      <4>3. QED
        BY <4>2, EventsAreNext
    <3>2. CASE x # w
      BY <1>1, <2>2, <3>2, EventsAreNext
    <3>3. QED BY <3>1, <3>2
  <2>3. QED
    BY <2>1, <2>2, EventsAre
<1>10. e \in Events'
  <2>1. n \in DOMAIN writer'[w].batch /\ e = writer'[w].batch[n] /\ writer'[w].pc # "publish"
    BY <1>1, <1>8
  <2>2. QED
    BY <2>1, EventsAreNext
<1>11. ASSUME NEW c \in Events', c # e PROVE c \in Events /\ c # d
  <2>1. CASE c \in rows'
    BY <1>2, <1>5, <2>1, EventsAre
  <2>2. ASSUME NEW x \in Writers, NEW j \in DOMAIN writer'[x].batch, writer'[x].pc # "publish",
               c = writer'[x].batch[j]
        PROVE  c \in Events /\ c # d
    <3>1. CASE x = w
      <4>1. j \in DOMAIN b /\ j # n /\ c = b[j]
        BY <1>8, <1>11, <2>2, <3>1
      <4>2. QED
        BY <1>2, <1>6, <3>1, <4>1, EventsAre DEF b
    <3>2. CASE x # w
      BY <1>1, <1>6, <2>2, <3>2, EventsAre
    <3>3. QED BY <3>1, <3>2
  <2>3. QED
    BY <2>1, <2>2, EventsAreNext
<1>12. Events' = (Events \ {d}) \union {e}
    BY <1>9, <1>10, <1>11
<1>13. QED
    BY <1>4, <1>5, <1>7, <1>12 DEF d, e

\* An insertion keeps the numbers and the text.
LEMMA InsertKeepsNumbers ==
    ASSUME NumbersInv, TextInv, NEW w \in Writers, InsertRow(w)
    PROVE  NumbersInv' /\ TextInv'
<1> DEFINE n == writer[w].inserted + 1
           b == writer[w].batch
           d == NextRow(w)
           e == Inserted(w)
<1>0. /\ UNCHANGED <<received, called, buffer, sequence, ticking, loop, rows, rowLock>>
      /\ identity' = identity + 1 /\ writer[w].pc = "insert"
    BY DEF InsertRow, normalizerVars
<1>1. /\ n \in DOMAIN b /\ n \in 1..2 /\ d \in Event /\ e \in Event
      /\ e.sequence = d.sequence /\ e.deltas = d.deltas
      /\ e.cursor = identity + 1
      /\ writer' \in [Writers -> WriterRecords]
      /\ writer'[w].batch = [b EXCEPT ![n] = e]
      /\ writer'[w].inserted = n
      /\ writer'[w].pc = IF n = Len(b) THEN "lock" ELSE "insert"
      /\ \A x \in Writers : x # w => writer'[x] = writer[x]
    BY InsertWrites
<1>2. /\ d \in Events /\ d.cursor = 0 /\ d \notin rows /\ e \notin Events
      /\ Events' = (Events \ {d}) \union {e}
    BY InsertReplaces
<1>3. /\ identity \in Nat /\ LoopTypeOK /\ TableTypeOK /\ RowsInv /\ CursorInv /\ d = b[n]
      /\ \A x \in Writers : BatchInv(x)
    BY DEF NumbersInv, TableTypeOK, Cursors, NextRow
<1>4. b \in Seq(Event) /\ Len(b) \in Nat /\ DOMAIN b = 1..Len(b) /\ writer[w].inserted \in 0..3
    BY <1>3, BatchTyped
<1>5. /\ Len(writer'[w].batch) = Len(b) /\ DOMAIN writer'[w].batch = DOMAIN b /\ writer'[w].batch[n] = e
      /\ \A j \in DOMAIN b : j # n => writer'[w].batch[j] = b[j]
  <2>1. Len([b EXCEPT ![n] = e]) = Len(b)
    BY <1>1, <1>4, ExceptSeq
  <2>2. QED
    BY <1>1, <2>1
<1> HIDE DEF n, b, d, e
<1>6. TableTypeOK'
  <2>1. identity' \in Cursors
    BY <1>0, <1>1 DEF Event
  <2>2. QED
    BY <1>0, <1>1, <1>3, <2>1 DEF TableTypeOK
<1>7. LoopTypeOK' /\ RowsInv'
    BY <1>0, <1>3 DEF LoopTypeOK, RowsInv
<1>8. CursorInv'
  <2>1. \A c \in Events : c.cursor \in Nat /\ c.cursor <= identity
    <3>1. \A c \in Events : c \in Event
      BY EventsHaveNumbers
    <3>2. QED
      BY <1>3, <3>1 DEF CursorInv, Event, Cursors
  <2>2. \A c \in Events' : c.cursor <= identity'
    BY <1>0, <1>1, <1>2, <1>3, <2>1
  <2>3. \A c, f \in Events' : c.cursor = f.cursor /\ c.cursor # 0 => c = f
    <3> SUFFICES ASSUME NEW c \in Events', NEW f \in Events', c.cursor = f.cursor, c.cursor # 0 PROVE c = f
      OBVIOUS
    <3>1. CASE c \in Events /\ f \in Events
      BY <1>3, <3>1 DEF CursorInv
    <3>2. CASE c = e /\ f = e
      BY <3>2
    <3>3. CASE c = e /\ f \in Events
      BY <1>1, <1>3, <2>1, <3>3
    <3>4. CASE c \in Events /\ f = e
      BY <1>1, <1>3, <2>1, <3>4
    <3>5. QED
      BY <1>2, <3>1, <3>2, <3>3, <3>4
  <2>4. \A k \in 1..identity' : \E c \in Events' : c.cursor = k
    <3> SUFFICES ASSUME NEW k \in 1..identity' PROVE \E c \in Events' : c.cursor = k
      OBVIOUS
    <3>1. CASE k = identity + 1
      BY <1>1, <1>2, <3>1
    <3>2. CASE k # identity + 1
      <4>1. k \in 1..identity
        BY <1>0, <1>3, <3>2
      <4>2. PICK c \in Events : c.cursor = k
        BY <1>3, <4>1 DEF CursorInv
      <4>3. c # d
        BY <1>2, <4>1, <4>2
      <4>4. QED
        BY <1>2, <4>2, <4>3
    <3>3. QED BY <3>1, <3>2
  <2>5. QED
    BY <2>2, <2>3, <2>4 DEF CursorInv
<1>9. ASSUME NEW x \in Writers PROVE BatchInv(x)'
  <2>1. \A y \in Writers : DOMAIN writer'[y].batch = DOMAIN writer[y].batch
        /\ \A j \in DOMAIN writer[y].batch : writer'[y].batch[j].sequence = writer[y].batch[j].sequence
    <3> SUFFICES ASSUME NEW y \in Writers
                 PROVE  DOMAIN writer'[y].batch = DOMAIN writer[y].batch
                        /\ \A j \in DOMAIN writer[y].batch : writer'[y].batch[j].sequence = writer[y].batch[j].sequence
      OBVIOUS
    <3>1. CASE y = w
      BY <1>1, <1>3, <1>5, <3>1 DEF b
    <3>2. CASE y # w
      BY <1>1, <3>2
    <3>3. QED BY <3>1, <3>2
  <2>2. BatchInv(x)
    BY <1>3
  <2>3. CASE x # w
    <3>1. writer'[x] = writer[x]
      BY <1>1, <2>3
    <3>2. QED
      BY <1>0, <2>1, <2>2, <3>1 DEF BatchInv
  <2>4. CASE x = w
    <3>1. /\ Len(b) <= 2 /\ writer[w].inserted < Len(b) /\ n = writer[w].inserted + 1
          /\ \A i \in DOMAIN b : /\ b[i].sequence < sequence
                                 /\ b[i].cursor # 0 <=> i <= writer[w].inserted
                                 /\ \A f \in rows : f.sequence # b[i].sequence
                                 /\ \A y \in Writers : \A j \in DOMAIN writer[y].batch :
                                        b[i].sequence = writer[y].batch[j].sequence => w = y /\ i = j
      BY <1>0, <2>2, <2>4 DEF BatchInv, n, b
    <3>2. \A i \in DOMAIN b : writer'[w].batch[i].sequence = b[i].sequence
      BY <2>1 DEF b
    <3>3. \A i \in DOMAIN b : writer'[w].batch[i].cursor # 0 <=> i <= n
      <4> SUFFICES ASSUME NEW i \in DOMAIN b PROVE writer'[w].batch[i].cursor # 0 <=> i <= n
        OBVIOUS
      <4>1. CASE i = n
        BY <1>1, <1>3, <1>4, <1>5, <4>1
      <4>2. CASE i # n
        BY <1>4, <1>5, <3>1, <4>2
      <4>3. QED BY <4>1, <4>2
    <3>4. writer'[w].batch # << >>
      <4>1. Len(<< >>) = 0
        OBVIOUS
      <4>2. QED
        BY <1>1, <1>4, <1>5, <3>1, <4>1
    <3>5. /\ Len(writer'[w].batch) <= 2 /\ writer'[w].inserted <= Len(writer'[w].batch)
          /\ writer'[w].pc \in {"lock", "insert"}
          /\ writer'[w].pc = "insert" => writer'[w].inserted < Len(writer'[w].batch)
          /\ writer'[w].pc = "lock" => writer'[w].inserted = Len(writer'[w].batch)
      BY <1>1, <1>4, <1>5, <3>1
    <3>6. \A i \in DOMAIN writer'[w].batch :
              /\ writer'[w].batch[i].sequence < sequence
              /\ writer'[w].batch[i].cursor # 0 <=> i <= writer'[w].inserted
              /\ \A f \in rows : f.sequence # writer'[w].batch[i].sequence
              /\ \A y \in Writers : \A j \in DOMAIN writer'[y].batch :
                     writer'[w].batch[i].sequence = writer'[y].batch[j].sequence => w = y /\ i = j
      BY <1>1, <1>5, <2>1, <3>1, <3>2, <3>3
    <3>7. QED
      BY <1>0, <2>4, <3>4, <3>5, <3>6 DEF BatchInv
  <2>5. QED BY <2>3, <2>4
<1>10. TextInv'
  <2>1. Weighed(Events)
    BY EventsAreWeighed
  <2>2. TextOf((Events \ {d}) \union {e}) = TextOf(Events)
    BY <1>1, <1>2, <2>1, TextOfReplaced
  <2>3. TextOf(Events') = TextOf(Events)
    BY <1>2, <2>2
  <2>4. QED
    BY <1>0, <2>3 DEF TextInv
<1>11. QED
    BY <1>6, <1>7, <1>8, <1>9, <1>10 DEF NumbersInv

\* A step of a transaction that inserts nothing writes its own record only.
LEMMA WriterMoves ==
    ASSUME NumbersInv, NEW w \in Writers, LockRun(w) \/ Commit(w) \/ Publish(w)
    PROVE  /\ writer' \in [Writers -> WriterRecords]
           /\ \A x \in Writers : x # w => writer'[x] = writer[x]
           /\ LockRun(w) => /\ writer[w].pc = "lock" /\ writer'[w].pc = "commit"
                            /\ writer'[w].batch = writer[w].batch /\ writer'[w].inserted = writer[w].inserted
           /\ Commit(w) => /\ writer[w].pc = "commit" /\ writer'[w].pc = "publish"
                           /\ writer'[w].batch = writer[w].batch /\ writer'[w].inserted = writer[w].inserted
           /\ Publish(w) => /\ writer[w].pc = "publish" /\ writer'[w].pc = "idle"
                            /\ writer'[w].batch = << >> /\ writer'[w].inserted = 0
           /\ UNCHANGED <<received, called, buffer, sequence, ticking, loop, identity>>
<1>1. writer \in [Writers -> WriterRecords] /\ writer[w] \in WriterRecords
    BY DEF NumbersInv, TableTypeOK
<1>2. CASE LockRun(w)
  <2>1. writer' = [writer EXCEPT ![w] = [writer[w] EXCEPT !.pc = "commit"]]
    BY <1>1, <1>2 DEF LockRun
  <2>2. [writer[w] EXCEPT !.pc = "commit"] \in WriterRecords
    BY <1>1 DEF WriterRecords, WriterPCs
  <2>3. QED
    BY <1>1, <1>2, <2>1, <2>2 DEF LockRun, Commit, Publish, normalizerVars, WriterRecords
<1>3. CASE Commit(w)
  <2>1. writer' = [writer EXCEPT ![w] = [writer[w] EXCEPT !.pc = "publish"]]
    BY <1>1, <1>3 DEF Commit
  <2>2. [writer[w] EXCEPT !.pc = "publish"] \in WriterRecords
    BY <1>1 DEF WriterRecords, WriterPCs
  <2>3. QED
    BY <1>1, <1>3, <2>1, <2>2 DEF LockRun, Commit, Publish, normalizerVars, WriterRecords
<1>4. CASE Publish(w)
  <2>1. writer' = [writer EXCEPT ![w] = IdleWriter]
    BY <1>4 DEF Publish
  <2>2. IdleWriter \in WriterRecords
    BY DEF WriterRecords, WriterPCs, IdleWriter
  <2>3. QED
    BY <1>1, <1>4, <2>1, <2>2 DEF LockRun, Commit, Publish, normalizerVars, tableVars, WriterRecords, IdleWriter
<1>5. QED
    BY <1>2, <1>3, <1>4

\* These steps leave the events as they are.
LEMMA EventsStay ==
    ASSUME NumbersInv, NEW w \in Writers, LockRun(w) \/ Commit(w) \/ Publish(w)
    PROVE  /\ Events' = Events /\ rows \subseteq rows'
           /\ rows' = IF Commit(w) THEN rows \union ToSet(writer[w].batch) ELSE rows
<1>1. /\ \A x \in Writers : x # w => writer'[x] = writer[x]
      /\ LockRun(w) => /\ writer[w].pc = "lock" /\ writer'[w].pc = "commit"
                       /\ writer'[w].batch = writer[w].batch
      /\ Commit(w) => /\ writer[w].pc = "commit" /\ writer'[w].pc = "publish"
                      /\ writer'[w].batch = writer[w].batch
      /\ Publish(w) => /\ writer[w].pc = "publish" /\ writer'[w].pc = "idle"
                       /\ writer'[w].batch = << >>
    BY WriterMoves
<1>2. rows' = IF Commit(w) THEN rows \union ToSet(writer[w].batch) ELSE rows
    BY <1>1 DEF LockRun, Commit, Publish, tableVars
<1>3. ASSUME NEW e \in Events PROVE e \in Events'
  <2>1. CASE e \in rows
    BY <1>2, <2>1, EventsAreNext
  <2>2. ASSUME NEW x \in Writers, NEW j \in DOMAIN writer[x].batch, writer[x].pc # "publish",
               e = writer[x].batch[j]
        PROVE  e \in Events'
    <3>1. CASE x # w \/ LockRun(w)
      <4>1. writer'[x].batch = writer[x].batch /\ writer'[x].pc # "publish"
        BY <1>1, <2>2, <3>1
      <4>2. QED
        BY <2>2, <4>1, EventsAreNext
    <3>2. CASE x = w /\ Commit(w)
      <4>1. e \in ToSet(writer[w].batch)
        BY <2>2, <3>2 DEF ToSet
      <4>2. QED
        BY <1>2, <3>2, <4>1, EventsAreNext
    <3>3. CASE x = w /\ Publish(w)
      BY <1>1, <2>2, <3>3
    <3>4. QED
      BY <3>1, <3>2, <3>3
  <2>3. QED
    BY <2>1, <2>2, EventsAre
<1>4. ASSUME NEW e \in Events' PROVE e \in Events
  <2>1. CASE e \in rows
    BY <2>1, EventsAre
  <2>2. CASE e \in rows' /\ e \notin rows
    <3>1. Commit(w) /\ e \in ToSet(writer[w].batch) /\ writer[w].pc = "commit"
      BY <1>1, <1>2, <2>2
    <3>2. QED
      BY <3>1, EventsAre DEF ToSet
  <2>3. ASSUME NEW x \in Writers, NEW j \in DOMAIN writer'[x].batch, writer'[x].pc # "publish",
               e = writer'[x].batch[j]
        PROVE  e \in Events
    <3>1. CASE x # w \/ LockRun(w)
      <4>1. writer'[x].batch = writer[x].batch /\ writer[x].pc # "publish"
        BY <1>1, <2>3, <3>1
      <4>2. QED
        BY <2>3, <4>1, EventsAre
    <3>2. CASE x = w /\ Commit(w)
      BY <1>1, <2>3, <3>2
    <3>3. CASE x = w /\ Publish(w)
      <4>1. DOMAIN writer'[x].batch = {}
        BY <1>1, <3>3
      <4>2. QED
        BY <2>3, <4>1
    <3>4. QED
      BY <3>1, <3>2, <3>3
  <2>4. QED
    BY <2>1, <2>2, <2>3, EventsAreNext
<1>5. QED
    BY <1>2, <1>3, <1>4

\* So do the lock, the commit and the publication.
LEMMA TransactionKeepsNumbers ==
    ASSUME NumbersInv, TextInv, NEW w \in Writers, LockRun(w) \/ Commit(w) \/ Publish(w)
    PROVE  NumbersInv' /\ TextInv'
<1>0. /\ UNCHANGED <<received, called, buffer, sequence, ticking, loop, identity>>
      /\ writer' \in [Writers -> WriterRecords]
      /\ \A x \in Writers : x # w => writer'[x] = writer[x]
      /\ LockRun(w) => /\ writer[w].pc = "lock" /\ writer'[w].pc = "commit"
                       /\ writer'[w].batch = writer[w].batch /\ writer'[w].inserted = writer[w].inserted
      /\ Commit(w) => /\ writer[w].pc = "commit" /\ writer'[w].pc = "publish"
                      /\ writer'[w].batch = writer[w].batch /\ writer'[w].inserted = writer[w].inserted
      /\ Publish(w) => /\ writer[w].pc = "publish" /\ writer'[w].pc = "idle"
                       /\ writer'[w].batch = << >> /\ writer'[w].inserted = 0
    BY WriterMoves
<1>1. /\ Events' = Events /\ rows \subseteq rows'
      /\ rows' = IF Commit(w) THEN rows \union ToSet(writer[w].batch) ELSE rows
    BY EventsStay
<1>2. /\ LoopTypeOK /\ TableTypeOK /\ RowsInv /\ CursorInv
      /\ \A x \in Writers : BatchInv(x)
    BY DEF NumbersInv
<1>3. CursorInv' /\ LoopTypeOK' /\ TextInv'
    BY <1>0, <1>1, <1>2 DEF CursorInv, LoopTypeOK, TextInv
<1>4. \A e \in rows' : e \in Events
    BY <1>1, EventsAreNext
<1>5. \A e \in Events : e \in Event /\ e.sequence < sequence
    BY EventsHaveNumbers
<1>6. RowsInv'
  <2>1. ASSUME NEW e \in rows' PROVE e.cursor # 0
    <3>1. CASE e \in rows
      BY <1>2, <3>1 DEF RowsInv
    <3>2. CASE e \notin rows
      <4>1. Commit(w) /\ writer[w].pc = "commit" /\ e \in ToSet(writer[w].batch)
        BY <1>0, <1>1, <3>2
      <4>2. PICK i \in DOMAIN writer[w].batch : e = writer[w].batch[i]
        BY <4>1 DEF ToSet
      <4>3. i <= writer[w].inserted
        BY <1>2, <4>1, <4>2, BatchTyped DEF BatchInv
      <4>4. QED
        BY <1>2, <4>2, <4>3 DEF BatchInv
    <3>3. QED BY <3>1, <3>2
  <2>2. \A d, e \in Events : d.sequence = e.sequence => d = e
    BY EventsHaveNumbers DEF SequencesAreDistinct, Events
  <2>3. QED
    BY <1>0, <1>4, <1>5, <2>1, <2>2 DEF RowsInv
<1>7. TableTypeOK'
  <2>1. rowLock' \in Writers \union {Nobody}
    BY <1>2 DEF TableTypeOK, LockRun, Commit, Publish, tableVars
  <2>2. rows' \subseteq Event
    BY <1>4, <1>5
  <2>3. QED
    BY <1>0, <1>2, <2>1, <2>2 DEF TableTypeOK
<1>8. ASSUME NEW x \in Writers PROVE BatchInv(x)'
  <2>0. BatchInv(x) /\ BatchInv(w)
    BY <1>2
  <2>1. ASSUME NEW y \in Writers
        PROVE  \/ writer'[y].batch = writer[y].batch
               \/ DOMAIN writer'[y].batch = {} /\ writer'[y].batch = << >>
    BY <1>0
  <2>2. CASE x = w /\ Publish(w)
    <3>1. DOMAIN writer'[x].batch = {} /\ Len(writer'[x].batch) = 0 /\ writer'[x].pc = "idle"
          /\ writer'[x].inserted = 0 /\ writer'[x].batch = << >>
      BY <1>0, <2>2
    <3>2. QED
      BY <3>1 DEF BatchInv
  <2>3. CASE x # w \/ ~ Publish(w)
    <3>1. /\ writer'[x].batch = writer[x].batch /\ writer'[x].inserted = writer[x].inserted
          /\ x # w => writer'[x].pc = writer[x].pc
      BY <1>0, <2>3
    <3>2. \A i \in DOMAIN writer[x].batch : \A y \in Writers : \A j \in DOMAIN writer'[y].batch :
              writer[x].batch[i].sequence = writer'[y].batch[j].sequence => x = y /\ i = j
      BY <2>0, <2>1 DEF BatchInv
    <3>3. ASSUME NEW i \in DOMAIN writer[x].batch, writer'[x].pc # "publish", NEW e \in rows'
          PROVE  e.sequence # writer[x].batch[i].sequence
      <4>0. writer[x].pc # "publish"
        BY <1>0, <2>3, <3>1, <3>3
      <4>1. CASE e \in rows
        BY <2>0, <4>0, <4>1 DEF BatchInv
      <4>2. CASE e \notin rows
        <5>1. Commit(w) /\ e \in ToSet(writer[w].batch) /\ writer'[w].pc = "publish"
          BY <1>0, <1>1, <4>2
        <5>2. PICK j \in DOMAIN writer[w].batch : e = writer[w].batch[j]
          BY <5>1 DEF ToSet
        <5>3. x # w
          BY <3>3, <5>1
        <5>4. QED
          BY <2>0, <5>2, <5>3 DEF BatchInv
      <4>3. QED BY <4>1, <4>2
    <3>4. writer'[x].pc = "publish" => ToSet(writer[x].batch) \subseteq rows'
      <4>1. CASE x # w
        BY <1>1, <2>0, <3>1, <4>1 DEF BatchInv
      <4>2. CASE x = w
        BY <1>0, <1>1, <2>3, <4>2
      <4>3. QED BY <4>1, <4>2
    <3>5. /\ writer'[x].pc = "idle" <=> writer[x].pc = "idle"
          /\ writer'[x].pc = "insert" => writer[x].pc = "insert"
          /\ writer'[x].pc \in {"lock", "commit", "publish"} => writer[x].pc \in {"lock", "commit", "publish"}
      BY <1>0, <2>3, <3>1
    <3>6. QED
      BY <1>0, <2>0, <3>1, <3>2, <3>3, <3>4, <3>5 DEF BatchInv
  <2>4. QED BY <2>2, <2>3
<1>9. QED
    BY <1>3, <1>6, <1>7, <1>8 DEF NumbersInv

-----------------------------------------------------------------------------
(* The loop and the timer *)

\* What is held back and numbered was received.
LEMMA CountsAreTyped ==
    ASSUME NumbersIInv
    PROVE  /\ sequence \in Nat /\ received \in Nat /\ called \in Nat /\ buffer \in Nat /\ Ended \in {0, 1}
           /\ MaxSequence \in Nat /\ MaxSequence = MaxDeltas + MaxCalls + 1
           /\ received <= MaxDeltas /\ called <= MaxCalls /\ buffer <= received
           /\ sequence + buffer <= received + called + Ended
           /\ received + called + Ended <= MaxSequence
<1>1. /\ sequence \in 0..MaxSequence /\ received \in 0..MaxDeltas /\ called \in 0..MaxCalls
      /\ buffer \in 0..MaxDeltas /\ Ended \in {0, 1} /\ MaxSequence \in Nat
      /\ MaxSequence = MaxDeltas + MaxCalls + 1 /\ MaxDeltas \in Nat /\ MaxCalls \in Nat
    BY DEF NumbersIInv, NumbersInv, LoopTypeOK, Ended, MaxSequence
<1>2. TextOf(Events) \in Nat
    BY EventsAreWeighed, TextOfSome DEF NumbersIInv
<1>3. buffer <= received
    BY <1>1, <1>2 DEF NumbersIInv, TextInv
<1>4. QED
    BY <1>1, <1>3 DEF NumbersIInv, LoopInv

\* The numbers stay in their range as long as they stay below what was received.
LEMMA LoopTyped ==
    ASSUME LoopInv', received' \in 0..MaxDeltas, called' \in 0..MaxCalls, buffer' \in 0..MaxDeltas,
           sequence' \in Nat, ticking' \in BOOLEAN, loop' \in LoopPCs
    PROVE  LoopTypeOK'
<1>1. Ended' \in {0, 1}
    BY DEF Ended
<1>2. sequence' <= MaxSequence
  <2>1. /\ received' \in Nat /\ received' <= MaxDeltas /\ called' \in Nat /\ called' <= MaxCalls
        /\ buffer' \in Nat /\ sequence' \in Nat /\ Ended' \in Nat /\ Ended' <= 1
        /\ MaxDeltas \in Nat /\ MaxCalls \in Nat
    BY <1>1
  <2>2. sequence' + buffer' <= received' + called' + Ended'
    BY DEF LoopInv
  <2>3. MaxSequence = MaxDeltas + MaxCalls + 1
    BY DEF MaxSequence
  <2>4. \A s, b, r, c, n, d, m \in Nat :
           s + b <= r + c + n /\ r <= d /\ c <= m /\ n <= 1 => s <= d + m + 1
    OBVIOUS
  <2>5. QED
    BY <2>1, <2>2, <2>3, <2>4
<1>3. MaxSequence \in Nat
    BY DEF MaxSequence
<1>4. QED
    BY <1>2, <1>3 DEF LoopTypeOK

\* A batch of the loop or of the timer.
LEMMA GivesIsSafe ==
    ASSUME NumbersIInv, NEW w \in Writers, Waits(w), NEW batch, NEW rest,
           Leaves(batch, rest), Gives(w, batch, rest), loop' = "read" \/ rest = 0,
           UNCHANGED <<received, tableVars, messageVars>>, called' \in 0..MaxCalls, ticking' \in BOOLEAN, loop' \in LoopPCs,
           Len(batch) + rest + received + called + Ended <= received + called' + Ended' + buffer
    PROVE  NumbersIInv'
<1>1. /\ sequence \in Nat /\ received \in Nat /\ called \in Nat /\ buffer \in Nat /\ Ended \in {0, 1}
      /\ received <= MaxDeltas /\ sequence + buffer <= received + called + Ended
    BY CountsAreTyped
<1>2. Len(batch) \in Nat /\ sequence' = sequence + Len(batch) /\ buffer' = rest /\ rest \in Nat
    BY LenProperties DEF Leaves, Gives
<1>3. Ended' \in {0, 1} /\ called' \in Nat
    BY DEF Ended
<1>4. LoopInv'
    BY <1>1, <1>2, <1>3 DEF LoopInv
<1>5. LoopTypeOK'
  <2>1. received' \in 0..MaxDeltas /\ sequence' \in Nat
    BY <1>1, <1>2
  <2>2. buffer' <= buffer
    <3>1. TextOf(ToSet(batch)) \in Nat
      BY TextOfSome DEF Leaves
    <3>2. QED
      BY <1>1, <1>2, <3>1 DEF Leaves
  <2>3. buffer' \in 0..MaxDeltas
    BY <1>1, <1>2, <2>2, CountsAreTyped, EventStreamAssumption
  <2>4. QED
    BY <1>4, <2>1, <2>3, LoopTyped
<1>6. NumbersInv' /\ TextInv'
  <2>1. NumbersInv /\ TextInv
    BY DEF NumbersIInv
  <2>2. UNCHANGED <<identity, rows, rowLock>> /\ received' = received
    BY DEF tableVars
  <2>3. QED
    BY <1>5, <2>1, <2>2, GivesKeepsNumbers
<1>7. listed' \subseteq rows' /\ message' \subseteq rows'
    BY DEF NumbersIInv, tableVars, messageVars
<1>8. QED
    BY <1>4, <1>6, <1>7 DEF NumbersIInv

\* The same when nothing is left.
LEMMA PersistsIsSafe ==
    ASSUME NumbersIInv, NEW w \in Writers, Waits(w), NEW batch, Fresh(batch), Persists(w, batch),
           UNCHANGED <<received, tableVars, messageVars>>, called' \in 0..MaxCalls, ticking' \in BOOLEAN, loop' \in LoopPCs,
           Len(batch) + received + called + Ended <= received + called' + Ended' + buffer
    PROVE  NumbersIInv'
<1>1. Leaves(batch, 0) /\ Gives(w, batch, 0) /\ Len(batch) + 0 = Len(batch)
    BY LenProperties DEF Fresh, Persists, Leaves
<1>2. QED
    BY <1>1, GivesIsSafe

\* The steps of consumeAgentStream keep the numbers and the text.
LEMMA ConsumingIsSafe == ASSUME NumbersIInv, Consuming PROVE NumbersIInv'
<1>0. /\ sequence \in Nat /\ received \in Nat /\ called \in Nat /\ buffer \in Nat /\ Ended \in {0, 1}
      /\ MaxSequence \in Nat /\ MaxSequence = MaxDeltas + MaxCalls + 1
      /\ received <= MaxDeltas /\ called <= MaxCalls /\ buffer <= received
      /\ sequence + buffer <= received + called + Ended
      /\ received + called + Ended <= MaxSequence
    BY CountsAreTyped
<1>t. LoopTypeOK /\ LoopInv /\ TextInv /\ NumbersInv /\ TableTypeOK /\ Loop \in Writers
    BY DEF NumbersIInv, NumbersInv, Writers
<1>c. called \in 0..MaxCalls /\ ticking \in BOOLEAN /\ loop \in LoopPCs
    BY <1>t DEF LoopTypeOK
<1>1. CASE ReceiveDelta
  <2>1. /\ received' = received + 1 /\ buffer' = buffer + 1 /\ received < MaxDeltas
        /\ UNCHANGED <<called, sequence, ticking, loop, writer, identity, rows, rowLock, listed, message>>
    BY <1>1 DEF ReceiveDelta, tableVars, messageVars
  <2>2. LoopInv'
    <3>1. loop = "read" /\ loop' = "read"
      BY <1>1 DEF ReceiveDelta
    <3>2. Ended' = Ended
      BY <3>1 DEF Ended
    <3>3. QED
      BY <1>0, <2>1, <3>1, <3>2 DEF LoopInv
  <2>3. LoopTypeOK'
    BY <1>0, <1>c, <2>1, <2>2, LoopTyped
  <2>4. Events' = Events
    BY <2>1 DEF Events, InFlight, Uncommitted
  <2>5. TextInv'
    <3>1. TextOf(Events) \in Nat
      BY <1>t, EventsAreWeighed, TextOfSome
    <3>2. TextOf(Events') = TextOf(Events)
      BY <2>4
    <3>3. QED
      BY <1>0, <1>t, <2>1, <3>1, <3>2 DEF TextInv
  <2>6. NumbersInv'
    BY <1>t, <2>1, <2>3, <2>4 DEF NumbersInv, TableTypeOK, BatchInv, RowsInv, CursorInv
  <2>7. QED
    BY <2>1, <2>2, <2>5, <2>6 DEF NumbersIInv
<1>2. CASE ReceiveCall
  <2> DEFINE batch == Flushed \o <<Numbered(sequence + Len(Flushed), "call", 0)>>
  <2>1. /\ called' = called + 1 /\ called < MaxCalls /\ loop = "read" /\ Waits(Loop) /\ Persists(Loop, batch)
        /\ UNCHANGED <<received, ticking, loop, tableVars, messageVars>>
    BY <1>2 DEF ReceiveCall
  <2>2. Ended = 0 /\ Ended' = 0
    BY <2>1 DEF Ended
  <2>3. Fresh(batch) /\ Len(batch) <= buffer + 1
    BY <1>0, <1>t, <2>1, <2>2, FlushedThenOneIsFresh DEF Kinds
  <2>4. Len(batch) \in Nat
    BY <2>3, LenProperties DEF Fresh, Leaves
  <2> HIDE DEF batch
  <2>5. called' \in 0..MaxCalls /\ Len(batch) + received + called + Ended <= received + called' + Ended' + buffer
    BY <1>0, <2>1, <2>2, <2>3, <2>4
  <2>6. UNCHANGED <<received, tableVars, messageVars>> /\ ticking' \in BOOLEAN /\ loop' \in LoopPCs
    BY <1>c, <2>1
  <2>7. QED
    BY <1>t, <2>1, <2>3, <2>5, <2>6, PersistsIsSafe
<1>3. CASE ReceiveCompleted
  <2> DEFINE batch == Flushed \o <<Numbered(sequence + Len(Flushed), "end", 0)>>
  <2>1. /\ loop = "read" /\ loop' \in {"complete", "closing"} /\ Waits(Loop) /\ Persists(Loop, batch)
        /\ UNCHANGED <<received, called, ticking, tableVars, messageVars>>
    BY <1>3 DEF ReceiveCompleted
  <2>2. Ended = 0 /\ Ended' = 1
    BY <2>1 DEF Ended
  <2>3. Fresh(batch) /\ Len(batch) <= buffer + 1
    BY <1>0, <1>t, <2>1, <2>2, FlushedThenOneIsFresh DEF Kinds
  <2>4. Len(batch) \in Nat
    BY <2>3, LenProperties DEF Fresh, Leaves
  <2> HIDE DEF batch
  <2>5. called' \in 0..MaxCalls /\ Len(batch) + received + called + Ended <= received + called' + Ended' + buffer
    BY <1>0, <1>c, <2>1, <2>2, <2>3, <2>4
  <2>6. UNCHANGED <<received, tableVars, messageVars>> /\ ticking' \in BOOLEAN /\ loop' \in LoopPCs
    BY <1>c, <2>1 DEF LoopPCs
  <2>7. QED
    BY <1>t, <2>1, <2>3, <2>5, <2>6, PersistsIsSafe
<1>4. CASE CompleteRead \/ CompleteWrite
  <2>1. /\ UNCHANGED <<received, called, buffer, sequence, ticking, writer, identity, rows, rowLock>>
        /\ loop \in {"complete", "message"} /\ loop' \in {"message", "closing"}
        /\ listed' \subseteq rows /\ message' \subseteq rows
    BY <1>4 DEF CompleteRead, CompleteWrite, tableVars, NumbersIInv
  <2>2. LoopInv' /\ LoopTypeOK' /\ Ended' = Ended
    BY <1>t, <2>1 DEF LoopInv, Ended, LoopTypeOK, LoopPCs
  <2>3. Events' = Events
    BY <2>1 DEF Events, InFlight, Uncommitted
  <2>4. NumbersInv' /\ TextInv'
    BY <1>t, <2>1, <2>2, <2>3 DEF NumbersInv, TableTypeOK, BatchInv, RowsInv, CursorInv, TextInv
  <2>5. QED
    BY <2>1, <2>2, <2>4 DEF NumbersIInv
<1>5. CASE StreamCloses
  <2>1. /\ loop \in {"read", "closing"} /\ loop' \in LoopPCs /\ ticking' = FALSE /\ Waits(Loop)
        /\ Persists(Loop, Flushed) /\ (loop = "closing" => loop' = "ended")
        /\ loop' \in {"ended", "failing"}
        /\ UNCHANGED <<received, called, tableVars, messageVars>>
    BY <1>5 DEF StreamCloses, LoopPCs
  <2>2. Ended <= Ended' /\ Ended' \in {0, 1}
    BY <2>1 DEF Ended
  <2>3. Fresh(Flushed) /\ Len(Flushed) <= buffer
    BY <1>0, <1>t, FlushedIsFresh
  <2>4. Len(Flushed) \in Nat
    BY <2>3, LenProperties DEF Fresh, Leaves
  <2>5. called' \in 0..MaxCalls /\ Len(Flushed) + received + called + Ended <= received + called' + Ended' + buffer
    BY <1>0, <1>c, <2>1, <2>2, <2>3, <2>4
  <2>6. UNCHANGED <<received, tableVars, messageVars>> /\ ticking' \in BOOLEAN /\ loop' \in LoopPCs
    BY <2>1
  <2>7. QED
    BY <1>t, <2>1, <2>3, <2>5, <2>6, PersistsIsSafe
<1>6. CASE PersistError
  <2> DEFINE batch == <<Numbered(sequence, "end", 0)>>
  <2>1. /\ loop = "failing" /\ loop' = "ended" /\ Waits(Loop) /\ Persists(Loop, batch)
        /\ UNCHANGED <<received, called, ticking, tableVars, messageVars>>
    BY <1>6 DEF PersistError
  <2>2. Ended = 0 /\ Ended' = 1 /\ buffer = 0
    BY <1>t, <2>1 DEF Ended, LoopInv
  <2>3. Fresh(batch)
    <3>1. sequence + 1 <= MaxSequence + 1 /\ "end" \in Kinds
      BY <1>0 DEF Kinds
    <3>2. Fresh(<<Numbered(sequence, "end", buffer)>>)
      BY <1>t, <3>1, OneIsFresh
    <3>3. QED
      BY <2>2, <3>2
  <2>4. Len(batch) = 1
    OBVIOUS
  <2> HIDE DEF batch
  <2>5. called' \in 0..MaxCalls /\ Len(batch) + received + called + Ended <= received + called' + Ended' + buffer
    BY <1>0, <1>c, <2>1, <2>2, <2>4
  <2>6. UNCHANGED <<received, tableVars, messageVars>> /\ ticking' \in BOOLEAN /\ loop' \in LoopPCs
    BY <1>c, <2>1 DEF LoopPCs
  <2>7. QED
    BY <1>t, <2>1, <2>3, <2>5, <2>6, PersistsIsSafe
<1>7. CASE ReceiveResult
  <2> DEFINE batch == <<Numbered(sequence, "call", 0)>>
  <2>1. /\ called' = called + 1 /\ called < MaxCalls /\ loop = "read" /\ Waits(Loop)
        /\ Gives(Loop, batch, buffer)
        /\ UNCHANGED <<received, ticking, loop, tableVars, messageVars>>
    BY <1>7 DEF ReceiveResult
  <2>2. Ended = 0 /\ Ended' = 0
    BY <2>1 DEF Ended
  <2>3. Leaves(batch, buffer)
    <3>1. sequence + 1 <= MaxSequence + 1 /\ "call" \in Kinds /\ 0 \in 0..MaxDeltas /\ 0 + buffer = buffer
      BY <1>0, <2>1 DEF Kinds
    <3>2. QED
      BY <1>0, <1>t, <3>1, OneLeaves
  <2>4. Len(batch) = 1
    OBVIOUS
  <2> HIDE DEF batch
  <2>5. /\ called' \in 0..MaxCalls
        /\ Len(batch) + buffer + received + called + Ended <= received + called' + Ended' + buffer
    BY <1>0, <2>1, <2>2, <2>4
  <2>6. UNCHANGED <<received, tableVars, messageVars>> /\ ticking' \in BOOLEAN /\ loop' \in LoopPCs
        /\ loop' = "read"
    BY <1>c, <2>1
  <2>7. QED
    BY <1>t, <2>1, <2>3, <2>5, <2>6, GivesIsSafe
<1>8. CASE StreamFails
  <2> DEFINE notice == Flushed \o <<Numbered(sequence + Len(Flushed), "end", 0)>>
  <2>1. /\ loop = "read" /\ loop' = "ended" /\ ticking' = FALSE /\ Waits(Loop)
        /\ Persists(Loop, Flushed) \/ Persists(Loop, notice) \/ Persists(Loop, ErrorBatch)
        /\ UNCHANGED <<received, called, tableVars, messageVars>>
    BY <1>8 DEF StreamFails
  <2>2. Ended = 0 /\ Ended' = 1 /\ received + called + Ended < MaxSequence
    BY <1>0, <2>1 DEF Ended
  <2>3. PICK batch : Persists(Loop, batch) /\ Fresh(batch) /\ Len(batch) <= buffer + 1
    <3>1. Fresh(Flushed) /\ Len(Flushed) <= buffer + 1
      <4>1. Fresh(Flushed) /\ Len(Flushed) <= buffer /\ Len(Flushed) \in Nat
        BY <1>0, <1>t, FlushedIsFresh, LenProperties DEF Fresh, Leaves
      <4>2. QED
        BY <1>0, <4>1
    <3>2. Fresh(notice) /\ Len(notice) <= buffer + 1
      BY <1>0, <1>t, <2>2, FlushedThenOneIsFresh DEF Kinds
    <3>3. Fresh(ErrorBatch) /\ Len(ErrorBatch) <= buffer + 1
      BY <1>0, <1>t, <2>2, ErrorIsFresh
    <3> HIDE DEF notice
    <3>4. QED
      BY <2>1, <3>1, <3>2, <3>3
  <2>4. Len(batch) \in Nat
    BY <2>3, LenProperties DEF Fresh, Leaves
  <2>5. called' \in 0..MaxCalls /\ Len(batch) + received + called + Ended <= received + called' + Ended' + buffer
    BY <1>0, <1>c, <2>1, <2>2, <2>3, <2>4
  <2>6. UNCHANGED <<received, tableVars, messageVars>> /\ ticking' \in BOOLEAN /\ loop' \in LoopPCs
    BY <2>1 DEF LoopPCs
  <2>7. QED
    BY <1>t, <2>1, <2>3, <2>5, <2>6, PersistsIsSafe
<1>9. CASE FailsAfterEnd
  <2> DEFINE batch == <<Numbered(sequence, "end", 0)>>
  <2>1. /\ loop = "closing" /\ loop' = "ended" /\ ticking' = FALSE /\ Waits(Loop)
        /\ called < MaxCalls /\ called' = called + 1 /\ Persists(Loop, ErrorBatch)
        /\ UNCHANGED <<received, tableVars, messageVars>>
    BY <1>9 DEF FailsAfterEnd
  <2>2. Ended = 1 /\ Ended' = 1 /\ buffer = 0
    BY <1>t, <2>1 DEF Ended, LoopInv
  <2>3. Persists(Loop, batch)
    BY <2>1, <2>2 DEF ErrorBatch
  <2>4. Fresh(batch)
    <3>1. sequence + 1 <= MaxSequence + 1 /\ "end" \in Kinds
      BY <1>0, <2>1, <2>2 DEF Kinds
    <3>2. Fresh(<<Numbered(sequence, "end", buffer)>>)
      BY <1>t, <3>1, OneIsFresh
    <3>3. QED
      BY <2>2, <3>2
  <2>5. Len(batch) = 1
    OBVIOUS
  <2> HIDE DEF batch
  <2>6. called' \in 0..MaxCalls /\ Len(batch) + received + called + Ended <= received + called' + Ended' + buffer
    BY <1>0, <2>1, <2>2, <2>5
  <2>7. UNCHANGED <<received, tableVars, messageVars>> /\ ticking' \in BOOLEAN /\ loop' \in LoopPCs
    BY <2>1 DEF LoopPCs
  <2>8. QED
    BY <1>t, <2>1, <2>3, <2>4, <2>6, <2>7, PersistsIsSafe
<1>10. QED
    BY <1>1, <1>2, <1>3, <1>4, <1>5, <1>6, <1>7, <1>8, <1>9 DEF Consuming

\* So does the timer.
LEMMA TimerIsSafe == ASSUME NumbersIInv, NEW t \in Timers, TimerFires(t) PROVE NumbersIInv'
<1>0. /\ received \in Nat /\ called \in Nat /\ buffer \in Nat /\ Ended \in {0, 1}
      /\ received + called + Ended <= MaxSequence
    BY CountsAreTyped
<1>1. LoopTypeOK /\ LoopInv /\ t \in Writers
    BY DEF NumbersIInv, NumbersInv, Writers
<1>2. /\ Waits(t) /\ Persists(t, Flushed)
      /\ UNCHANGED <<received, called, ticking, loop, tableVars, messageVars>>
    BY DEF TimerFires
<1>3. called' \in 0..MaxCalls /\ ticking' \in BOOLEAN /\ loop' \in LoopPCs /\ Ended' = Ended
    BY <1>1, <1>2 DEF LoopTypeOK, Ended
<1>4. Fresh(Flushed) /\ Len(Flushed) <= buffer
    BY <1>0, <1>1, FlushedIsFresh
<1>5. Len(Flushed) \in Nat
    BY <1>4, LenProperties DEF Fresh, Leaves
<1>6. Len(Flushed) + received + called + Ended <= received + called' + Ended' + buffer
    BY <1>0, <1>2, <1>3, <1>4, <1>5
<1>7. UNCHANGED <<received, tableVars, messageVars>>
    BY <1>2
<1>8. QED
    BY <1>1, <1>2, <1>3, <1>4, <1>6, <1>7, PersistsIsSafe

\* So do the transactions.
LEMMA PersistingIsSafe == ASSUME NumbersIInv, NEW w \in Writers, Persisting(w) PROVE NumbersIInv'
<1>1. NumbersInv /\ TextInv /\ LoopInv
    BY DEF NumbersIInv
<1>2. NumbersInv' /\ TextInv'
    BY <1>1, InsertKeepsNumbers, TransactionKeepsNumbers DEF Persisting
<1>3. rows \subseteq rows'
    BY <1>1, EventsStay DEF Persisting, InsertRow
<1>4. UNCHANGED <<received, called, buffer, sequence, loop, listed, message>>
    BY DEF Persisting, InsertRow, LockRun, Commit, Publish, normalizerVars, messageVars
<1>5. LoopInv'
    BY <1>1, <1>4 DEF LoopInv, Ended
<1>6. QED
    BY <1>2, <1>3, <1>4, <1>5 DEF NumbersIInv

LEMMA NumbersStart == StreamInit => NumbersIInv
<1> SUFFICES ASSUME StreamInit PROVE NumbersIInv
    OBVIOUS
<1>1. /\ received = 0 /\ called = 0 /\ buffer = 0 /\ sequence = 0 /\ ticking = TRUE /\ loop = "read"
      /\ identity = 0 /\ rows = {} /\ rowLock = Nobody /\ listed = {} /\ message = {}
      /\ writer = [w \in Writers |-> IdleWriter]
    BY DEF StreamInit
<1>2. IdleWriter \in WriterRecords /\ \A w \in Writers : writer[w] = IdleWriter
    BY <1>1 DEF WriterRecords, WriterPCs, IdleWriter
<1>3. LoopTypeOK /\ TableTypeOK
    BY <1>1, <1>2 DEF LoopTypeOK, TableTypeOK, LoopPCs, Cursors, MaxSequence
<1>4. Events = {}
  <2>1. \A w \in Writers : DOMAIN writer[w].batch = {}
    BY <1>2 DEF IdleWriter
  <2>2. QED
    BY <1>1, <2>1, EventsAre
<1>5. RowsInv /\ CursorInv
    BY <1>1, <1>4 DEF RowsInv, CursorInv
<1>6. ASSUME NEW w \in Writers PROVE BatchInv(w)
    BY <1>2 DEF BatchInv, IdleWriter
<1>7. LoopInv /\ TextInv
  <2>1. TextOf(Events) = 0
    BY <1>4, TextOfNone
  <2>2. Ended = 0
    BY <1>1 DEF Ended
  <2>3. QED
    BY <1>1, <2>1, <2>2 DEF LoopInv, TextInv
<1>8. QED
    BY <1>1, <1>3, <1>5, <1>6, <1>7 DEF NumbersIInv, NumbersInv

LEMMA NumbersStep == NumbersIInv /\ [StreamNext]_streamVars => NumbersIInv'
<1> SUFFICES ASSUME NumbersIInv, [StreamNext]_streamVars PROVE NumbersIInv'
    OBVIOUS
<1>1. CASE Consuming
    BY <1>1, ConsumingIsSafe
<1>2. ASSUME NEW t \in Timers, TimerFires(t) PROVE NumbersIInv'
    BY <1>2, TimerIsSafe
<1>3. ASSUME NEW w \in Writers, Persisting(w) PROVE NumbersIInv'
    BY <1>3, PersistingIsSafe
<1>4. CASE UNCHANGED <<normalizerVars, writer, tableVars, messageVars>>
  <2>1. UNCHANGED <<received, called, buffer, sequence, ticking, loop, writer, identity, rows, rowLock, listed, message>>
    BY <1>4 DEF normalizerVars, tableVars, messageVars
  <2>2. Events' = Events
    BY <2>1 DEF Events, InFlight, Uncommitted
  <2>3. NumbersInv' /\ TextInv' /\ LoopInv'
    BY <2>1, <2>2 DEF NumbersIInv, NumbersInv, TableTypeOK, LoopTypeOK, BatchInv, RowsInv, CursorInv, TextInv, LoopInv, Ended
  <2>4. QED
    BY <2>1, <2>3 DEF NumbersIInv
<1>5. ASSUME NEW v \in Viewers, Viewing(v) PROVE UNCHANGED <<normalizerVars, writer, tableVars, messageVars>>
    BY <1>5 DEF Viewing, Subscribe, ListBacklog, QueueBacklog, Send, Poll, Disconnect, OnlyViewer
<1>6. UNCHANGED streamVars => UNCHANGED <<normalizerVars, writer, tableVars, messageVars>>
    BY DEF streamVars
<1>7. QED
    BY <1>1, <1>2, <1>3, <1>4, <1>5, <1>6 DEF StreamNext

-----------------------------------------------------------------------------
(* The list of the rows after a cursor *)

\* A finite set of rows has one with the least cursor.
LEMMA LeastKey ==
    ASSUME NEW S, IsFiniteSet(S), S # {}, NEW key, \A e \in S : key[e] \in Nat
    PROVE  \E d \in S : \A e \in S : key[d] <= key[e]
<1> DEFINE G == {T \in SUBSET S : T = {} \/ \E d \in T : \A e \in T : key[d] <= key[e]}
<1>1. ASSUME NEW T \in SUBSET S, \A U \in SUBSET T : U # T => U \in G
      PROVE  T \in G
  <2>1. CASE T = {}
    BY <2>1
  <2>2. CASE T # {}
    <3>1. PICK x : x \in T
      BY <2>2
    <3>2. T \ {x} \in SUBSET T /\ T \ {x} # T
      BY <3>1
    <3>3. CASE T \ {x} = {}
      BY <3>1, <3>3
    <3>4. CASE T \ {x} # {}
      <4>1. PICK d \in T \ {x} : \A e \in T \ {x} : key[d] <= key[e]
        BY <1>1, <3>2, <3>4
      <4>2. key[x] \in Nat /\ key[d] \in Nat
        BY <3>1
      <4>3. CASE key[d] <= key[x]
        BY <4>1, <4>3
      <4>4. CASE ~ (key[d] <= key[x])
        BY <3>1, <4>1, <4>2, <4>4
      <4>5. QED BY <4>3, <4>4
    <3>5. QED BY <3>3, <3>4
  <2>3. QED BY <2>1, <2>2
<1>2. S \in G
  <2> HIDE DEF G
  <2> QED BY <1>1, BySubsets
<1>3. QED
    BY <1>2

OrderedBy(key, list) == \A i, j \in DOMAIN list : i < j => key[list[i]] < key[list[j]]

\* What has keys of its own can be listed by increasing key: the rows, the cursors.
LEMMA OrderedExists ==
    ASSUME NEW S, IsFiniteSet(S), NEW key, \A e \in S : key[e] \in Nat,
           \A d, e \in S : key[d] = key[e] => d = e
    PROVE  \E list \in [1..Cardinality(S) -> S] : OrderedBy(key, list)
<1> DEFINE G == {T \in SUBSET S : \E list \in [1..Cardinality(T) -> T] : OrderedBy(key, list)}
<1>1. ASSUME NEW T \in SUBSET S, \A U \in SUBSET T : U # T => U \in G
      PROVE  T \in G
  <2>0. IsFiniteSet(T)
    BY FS_Subset
  <2>1. CASE T = {}
    <3> DEFINE none == [i \in 1..0 |-> i]
    <3>1. Cardinality(T) = 0
      BY <2>1, FS_EmptySet
    <3>2. none \in [1..0 -> T] /\ OrderedBy(key, none)
      BY DEF OrderedBy
    <3>3. QED
      <4> HIDE DEF none
      <4> QED BY <3>1, <3>2
  <2>2. CASE T # {}
    <3>1. PICK d \in T : \A e \in T : key[d] <= key[e]
      BY <2>0, <2>2, LeastKey
    <3> DEFINE U == T \ {d}
               n == Cardinality(T)
               m == Cardinality(U)
    <3>2. IsFiniteSet(U) /\ m = n - 1 /\ n \in Nat /\ m \in Nat
      BY <2>0, FS_RemoveElement, FS_CardinalityType
    <3>3. U \in SUBSET T /\ U # T
      OBVIOUS
    <3>4. PICK list \in [1..m -> U] : OrderedBy(key, list)
      BY <1>1, <3>3
    <3> HIDE DEF n, m
    <3> DEFINE longer == [i \in 1..n |-> IF i = 1 THEN d ELSE list[i - 1]]
    <3>5. \A i \in 1..n : i # 1 => i - 1 \in 1..m
      BY <3>2
    <3>6. longer \in [1..n -> T]
      BY <3>4, <3>5
    <3>7. \A e \in U : key[d] < key[e]
      <4>1. \A e \in U : key[e] # key[d] /\ key[e] \in Nat /\ key[d] \in Nat
        OBVIOUS
      <4>2. QED BY <3>1, <4>1
    <3>8. ASSUME NEW i \in 1..n, NEW j \in 1..n, i < j
          PROVE  key[longer[i]] < key[longer[j]]
      <4>1. j # 1 /\ j - 1 \in 1..m /\ longer[j] = list[j - 1]
        BY <3>2, <3>5, <3>8
      <4>2. CASE i = 1
        <5>1. longer[i] = d /\ list[j - 1] \in U
          BY <3>4, <4>1, <4>2
        <5> HIDE DEF longer
        <5> QED BY <3>7, <4>1, <5>1
      <4>3. CASE i # 1
        <5>1. longer[i] = list[i - 1] /\ i - 1 \in 1..m
          BY <3>5, <4>3
        <5>2. DOMAIN list = 1..m /\ i - 1 < j - 1
          BY <3>2, <3>8
        <5> HIDE DEF longer
        <5> QED BY <3>4, <4>1, <5>1, <5>2 DEF OrderedBy
      <4>4. QED BY <4>2, <4>3
    <3>9. OrderedBy(key, longer)
      <4>1. DOMAIN longer = 1..n
        OBVIOUS
      <4> HIDE DEF longer
      <4> QED BY <3>8, <4>1 DEF OrderedBy
    <3>10. QED
      <4> HIDE DEF longer
      <4> QED BY <3>6, <3>9 DEF n
  <2>3. QED BY <2>1, <2>2
<1>2. S \in G
  <2> HIDE DEF G
  <2> QED BY <1>1, BySubsets
<1>3. QED
    BY <1>2

Ordered(list) == \A i, j \in DOMAIN list : i < j => list[i].cursor < list[j].cursor

\* The list has the rows after the cursor and no other.
LEMMA RowsAfterAre ==
    ASSUME NumbersInv, NEW c \in Nat
    PROVE  RowsAfter(c) \in Seq(Event) /\ ToSet(RowsAfter(c)) = After(c)
<1> DEFINE S == After(c)
           n == Cardinality(S)
           list == RowsAfter(c)
<1>1. rows \subseteq Event /\ RowsInv /\ CursorInv
    BY DEF NumbersInv, TableTypeOK
<1>2. S \subseteq rows
    BY DEF After
<1>3. IsFiniteSet(S)
  <2>1. IsFiniteSet(Events)
    BY EventsAreWeighed DEF Weighed
  <2>2. S \in SUBSET Events
    BY <1>2 DEF Events
  <2>3. QED
    BY <2>1, <2>2, FS_Subset
<1>4. \A e \in S : e.cursor \in Nat /\ e \in Event /\ e \in Events /\ e.cursor # 0
    BY <1>1, <1>2 DEF Event, Cursors, RowsInv, Events, MaxSequence
<1>5. \A d, e \in S : d.cursor = e.cursor => d = e
    BY <1>1, <1>4 DEF CursorInv
<1>6. n \in Nat
    BY <1>3, FS_CardinalityType
<1>7. list \in [1..n -> S] /\ Ordered(list)
  <2> DEFINE key == [e \in S |-> e.cursor]
  <2>1. \E some \in [1..n -> S] : Ordered(some)
    <3>1. \A e \in S : key[e] = e.cursor /\ key[e] \in Nat
      BY <1>4
    <3> HIDE DEF S, n, key
    <3>2. \A d, e \in S : key[d] = key[e] => d = e
      BY <1>5, <3>1
    <3>3. PICK some \in [1..n -> S] : OrderedBy(key, some)
      BY <1>3, <3>1, <3>2, OrderedExists DEF n
    <3>4. \A i \in DOMAIN some : some[i] \in S
      BY <3>3
    <3>5. Ordered(some)
      BY <3>1, <3>3, <3>4 DEF OrderedBy, Ordered
    <3>6. QED
      BY <3>3, <3>5
  <2>2. \E some \in [1..n -> S] : \A i, j \in DOMAIN some : i < j => some[i].cursor < some[j].cursor
    BY <2>1 DEF Ordered
  <2>3. QED
    BY <2>2 DEF RowsAfter, Ordered
<1>8. list \in Injection(1..n, S)
  <2> SUFFICES ASSUME NEW i \in 1..n, NEW j \in 1..n, list[i] = list[j] PROVE i = j
    BY <1>7 DEF Injection, IsInjective
  <2>1. list[i].cursor = list[j].cursor /\ list[i].cursor \in Nat /\ DOMAIN list = 1..n
    BY <1>4, <1>7
  <2>2. ~ (i < j) /\ ~ (j < i)
    BY <1>7, <2>1 DEF Ordered
  <2>3. QED
    BY <2>2
<1>9. list \in Surjection(1..n, S)
  <2>1. Cardinality(1..n) = n
    BY <1>6, FS_Interval
  <2> HIDE DEF list, S
  <2>2. QED
    BY <1>3, <1>8, <2>1, FS_Injection
<1>10. ToSet(list) = S
  <2>1. DOMAIN list = 1..n
    BY <1>7
  <2> HIDE DEF list, S
  <2>2. QED
    BY <1>7, <1>9, <2>1 DEF Surjection, ToSet
<1>11. list \in Seq(Event)
  <2>1. list \in [1..n -> Event]
    BY <1>4, <1>7
  <2>2. Seq(Event) = UNION {[1..k -> Event] : k \in Nat}
    BY SeqDef
  <2> HIDE DEF list, n
  <2>3. QED
    BY <1>6, <2>1, <2>2
<1>12. QED
    BY <1>10, <1>11

-----------------------------------------------------------------------------
(* The streams *)

\* The events of the batches that are committed and not published yet.
Told == UNION {ToSet(writer[w].batch) : w \in {x \in Writers : writer[x].pc = "publish"}}

\* What a stream that is open has sent, will send, or will be told of.
Reaches(view, e) ==
    \/ e.cursor <= view.cursor
    \/ e \in ToSet(view.queue) \union ToSet(view.backlog)
    \/ view.pc = "listing" /\ e.cursor > view.start
    \/ e \in Told

Increases(view) ==
    /\ \A i \in DOMAIN view.sent : view.sent[i].cursor <= view.cursor
    /\ Ordered(view.sent)

ViewInv(view) ==
    /\ view \in ViewerRecords
    /\ Increases(view)
    /\ view.pc \in {"off", "listing", "live"} => view.backlog = << >>
    /\ view.pc \in {"listing", "backlog", "live"} => \A e \in rows : Reaches(view, e)

ViewersInv == viewer \in [Viewers -> ViewerRecords] /\ \A v \in Viewers : ViewInv(viewer[v])

\* The fields of a stream have their types.
LEMMA ViewTyped ==
    ASSUME NEW view \in ViewerRecords
    PROVE  /\ view.pc \in ViewerPCs /\ view.once \in BOOLEAN /\ view.start \in Nat /\ view.cursor \in Nat
           /\ view.start \in Cursors /\ view.cursor \in Cursors
           /\ view.queue \in Seq(Event) /\ view.backlog \in Seq(Event) /\ view.ahead \in Nat
           /\ view.sent \in Seq(Event)
BY DEF ViewerRecords, Cursors, MaxSequence

LEMMA EventTyped == ASSUME NEW e \in Event PROVE e.cursor \in Cursors /\ e.cursor \in Nat
BY DEF Event, Cursors, MaxSequence

\* What a queue holds after another queue is put behind it ...
LEMMA SetOfBoth ==
    ASSUME NEW s \in Seq(Event), NEW t \in Seq(Event)
    PROVE  s \o t \in Seq(Event) /\ ToSet(s \o t) = ToSet(s) \union ToSet(t)
<1>1. Range(s \o t) = Range(s) \union Range(t)
    BY RangeConcatenation
<1>2. ToSet(s) = Range(s) /\ ToSet(t) = Range(t) /\ ToSet(s \o t) = Range(s \o t)
    BY DEF ToSet, Range
<1>3. QED
    BY <1>1, <1>2, ConcatProperties

\* ... after one event is ...
LEMMA SetOfAppended ==
    ASSUME NEW s \in Seq(Event), NEW e \in Event
    PROVE  Append(s, e) \in Seq(Event) /\ ToSet(Append(s, e)) = ToSet(s) \union {e}
<1>1. Append(s, e) = s \o <<e>> /\ Append(s, e) \in Seq(Event)
    BY AppendIsConcat, AppendProperties
<1>2. <<e>> \in Seq(Event) /\ ToSet(<<e>>) = {e}
    BY DEF ToSet
<1>3. ToSet(s \o <<e>>) = ToSet(s) \union ToSet(<<e>>)
    BY <1>2, SetOfBoth
<1>4. ToSet(Append(s, e)) = ToSet(s \o <<e>>)
    BY <1>1, Zenon
<1>5. QED
    BY <1>1, <1>2, <1>3, <1>4

\* ... and what is left when its first event is taken.
LEMMA SetOfHeadAndTail ==
    ASSUME NEW s \in Seq(Event), s # << >>
    PROVE  /\ Head(s) \in Event /\ Tail(s) \in Seq(Event)
           /\ ToSet(s) = {Head(s)} \union ToSet(Tail(s))
<1>1. /\ Head(s) \in Event /\ Tail(s) \in Seq(Event) /\ Len(Tail(s)) = Len(s) - 1
      /\ \A i \in 1..Len(Tail(s)) : Tail(s)[i] = s[i + 1]
    BY HeadTailProperties
<1>2. /\ DOMAIN s = 1..Len(s) /\ DOMAIN Tail(s) = 1..Len(Tail(s)) /\ Len(s) \in Nat /\ Len(s) # 0
      /\ Head(s) = s[1]
    BY <1>1, LenProperties, EmptySeq
<1>3. ASSUME NEW e \in ToSet(s) PROVE e \in {Head(s)} \union ToSet(Tail(s))
  <2>1. PICK i \in 1..Len(s) : e = s[i]
    BY <1>2, <1>3 DEF ToSet
  <2>2. CASE i = 1
    BY <1>2, <2>1, <2>2
  <2>3. CASE i # 1
    <3>1. i - 1 \in 1..Len(Tail(s)) /\ Tail(s)[i - 1] = s[i]
      <4>1. i - 1 \in 1..Len(Tail(s)) /\ (i - 1) + 1 = i
        BY <1>1, <1>2, <2>3
      <4>2. Tail(s)[i - 1] = s[(i - 1) + 1]
        BY <1>1, <4>1
      <4>3. QED BY <4>1, <4>2
    <3>2. QED
      BY <1>2, <2>1, <3>1 DEF ToSet
  <2>4. QED BY <2>2, <2>3
<1>4. ASSUME NEW e \in ToSet(Tail(s)) PROVE e \in ToSet(s)
  <2>1. PICK i \in 1..Len(Tail(s)) : e = Tail(s)[i]
    BY <1>2, <1>4 DEF ToSet
  <2>2. i + 1 \in 1..Len(s) /\ e = s[i + 1]
    BY <1>1, <1>2, <2>1
  <2>3. QED
    BY <1>2, <2>2 DEF ToSet
<1>5. Head(s) \in ToSet(s)
    BY <1>2 DEF ToSet
<1>6. QED
    BY <1>1, <1>3, <1>4, <1>5

\* One stream moves, and nothing else.
Moves(v, view) == viewer' = [viewer EXCEPT ![v] = view]

\* A stream that starts will list every row after its cursor, and has sent the others.
LEMMA SubscribeIsServed ==
    ASSUME NumbersInv, ViewersInv, NEW v \in Viewers, Subscribe(v)
    PROVE  \E view \in ViewerRecords : ViewInv(view) /\ Moves(v, view)
<1> DEFINE old == viewer[v]
           view == [old EXCEPT !.pc = "listing", !.start = old.cursor]
<1>1. ViewInv(old) /\ old \in ViewerRecords /\ viewer \in [Viewers -> ViewerRecords]
    BY DEF ViewersInv, ViewInv
<1>2. Moves(v, view)
    BY <1>1 DEF Subscribe, Moves
<1>3. old.cursor \in Cursors /\ old.cursor \in Nat
    BY <1>1, ViewTyped
<1>4. /\ view \in ViewerRecords /\ view.pc = "listing" /\ view.start = old.cursor /\ view.cursor = old.cursor
      /\ view.sent = old.sent /\ view.backlog = old.backlog /\ view.queue = old.queue
    BY <1>1, <1>3 DEF ViewerRecords, ViewerPCs
<1>5. old.backlog = << >>
    BY <1>1 DEF Subscribe, ViewInv
<1>6. \A e \in rows : e.cursor \in Nat
    BY EventTyped DEF NumbersInv, TableTypeOK
<1> HIDE DEF view
<1>7. \A e \in rows : Reaches(view, e)
    BY <1>3, <1>4, <1>6 DEF Reaches
<1>8. Increases(view)
    BY <1>1, <1>4 DEF ViewInv, Increases, Ordered
<1>9. QED
    BY <1>2, <1>4, <1>5, <1>7, <1>8 DEF ViewInv

\* A stream with its list, asked for no more.
LEMMA ListedIs ==
    ASSUME NEW old \in ViewerRecords, NEW list \in Seq(Event)
    PROVE  LET view == [old EXCEPT !.pc = "backlog", !.start = 0, !.backlog = list]
           IN  /\ view \in ViewerRecords /\ view.pc = "backlog" /\ view.cursor = old.cursor
               /\ view.sent = old.sent /\ view.backlog = list /\ view.queue = old.queue
<1>1. 0 \in Cursors /\ "backlog" \in ViewerPCs
    BY DEF Cursors, MaxSequence, ViewerPCs
<1>2. QED
    BY <1>1 DEF ViewerRecords

\* The list holds every row the stream was to list.
LEMMA ListIsServed ==
    ASSUME NumbersInv, ViewersInv, NEW v \in Viewers, ListBacklog(v)
    PROVE  \E view \in ViewerRecords : ViewInv(view) /\ Moves(v, view)
<1> DEFINE old == viewer[v]
           list == RowsAfter(old.start)
           view == [old EXCEPT !.pc = "backlog", !.start = 0, !.backlog = list]
<1>1. ViewInv(old) /\ old \in ViewerRecords /\ viewer \in [Viewers -> ViewerRecords]
    BY DEF ViewersInv, ViewInv
<1>2. Moves(v, view)
    BY <1>1 DEF ListBacklog, Moves
<1>3. old.start \in Nat /\ old.pc = "listing"
    BY <1>1, ViewTyped DEF ListBacklog
<1>4. list \in Seq(Event) /\ ToSet(list) = After(old.start)
    BY <1>3, RowsAfterAre
<1> HIDE DEF list
<1>5. /\ view \in ViewerRecords /\ view.pc = "backlog" /\ view.cursor = old.cursor
      /\ view.sent = old.sent /\ view.backlog = list /\ view.queue = old.queue
    BY <1>1, <1>4, ListedIs
<1>6. old.backlog = << >> /\ \A e \in rows : Reaches(old, e)
    BY <1>1, <1>3 DEF ViewInv
<1>7. ToSet(view.backlog) = After(old.start)
    BY <1>4, <1>5
<1> HIDE DEF view
<1>8. \A e \in rows : Reaches(view, e)
  <2> SUFFICES ASSUME NEW e \in rows PROVE Reaches(view, e)
    OBVIOUS
  <2>1. Reaches(old, e)
    BY <1>6
  <2>2. e \notin ToSet(old.backlog)
    BY <1>6 DEF ToSet
  <2>3. e.cursor > old.start => e \in ToSet(view.backlog)
    BY <1>7 DEF After
  <2>4. QED
    BY <1>5, <2>1, <2>2, <2>3 DEF Reaches
<1>9. Increases(view)
    BY <1>1, <1>5 DEF ViewInv, Increases, Ordered
<1>10. QED
    BY <1>2, <1>5, <1>8, <1>9 DEF ViewInv

\* What leaves the list is in the queue.
LEMMA QueueIsServed ==
    ASSUME NumbersInv, ViewersInv, NEW v \in Viewers, QueueBacklog(v)
    PROVE  \E view \in ViewerRecords : ViewInv(view) /\ Moves(v, view)
<1> DEFINE old == viewer[v]
<1>1. ViewInv(old) /\ old \in ViewerRecords /\ viewer \in [Viewers -> ViewerRecords]
    BY DEF ViewersInv, ViewInv
<1>2. old.pc = "backlog" /\ \A e \in rows : Reaches(old, e)
    BY <1>1 DEF QueueBacklog, ViewInv
<1>3. old.queue \in Seq(Event) /\ old.backlog \in Seq(Event)
    BY <1>1, ViewTyped
<1>4. CASE old.backlog = << >>
  <2> DEFINE view == [old EXCEPT !.pc = "live"]
  <2>1. Moves(v, view)
    BY <1>1, <1>4 DEF QueueBacklog, Moves
  <2>2. /\ view \in ViewerRecords /\ view.pc = "live" /\ view.cursor = old.cursor /\ view.start = old.start
        /\ view.sent = old.sent /\ view.backlog = old.backlog /\ view.queue = old.queue
    BY <1>1 DEF ViewerRecords, ViewerPCs
  <2> HIDE DEF view
  <2>3. \A e \in rows : Reaches(view, e)
    BY <1>2, <2>2 DEF Reaches
  <2>4. Increases(view)
    BY <1>1, <2>2 DEF ViewInv, Increases, Ordered
  <2>5. QED
    BY <1>4, <2>1, <2>2, <2>3, <2>4 DEF ViewInv
<1>5. CASE old.backlog # << >>
  <2> DEFINE view == Queued(old)
  <2>1. Moves(v, view)
    BY <1>1, <1>5 DEF QueueBacklog, Moves
  <2>2. /\ Head(old.backlog) \in Event /\ Tail(old.backlog) \in Seq(Event)
        /\ ToSet(old.backlog) = {Head(old.backlog)} \union ToSet(Tail(old.backlog))
    BY <1>3, <1>5, SetOfHeadAndTail
  <2>3. /\ Append(old.queue, Head(old.backlog)) \in Seq(Event)
        /\ ToSet(Append(old.queue, Head(old.backlog))) = ToSet(old.queue) \union {Head(old.backlog)}
    BY <1>3, <2>2, SetOfAppended
  <2>4. Len(old.queue) + 1 \in Nat
    BY <1>3, LenProperties
  <2>5. /\ view \in ViewerRecords /\ view.pc = "backlog" /\ view.cursor = old.cursor /\ view.start = old.start
        /\ view.sent = old.sent /\ view.backlog = Tail(old.backlog)
        /\ view.queue = Append(old.queue, Head(old.backlog))
    BY <1>1, <1>2, <2>2, <2>3, <2>4 DEF Queued, ViewerRecords, ViewerPCs
  <2> HIDE DEF view
  <2>6. ToSet(view.queue) \union ToSet(view.backlog) = ToSet(old.queue) \union ToSet(old.backlog)
    <3>1. /\ ToSet(view.queue) = ToSet(Append(old.queue, Head(old.backlog)))
          /\ ToSet(view.backlog) = ToSet(Tail(old.backlog))
      BY <2>5, Zenon
    <3>2. QED
      BY <2>2, <2>3, <3>1
  <2>7. \A e \in rows : Reaches(view, e)
    BY <1>2, <2>5, <2>6 DEF Reaches
  <2>8. Increases(view)
    BY <1>1, <2>5 DEF ViewInv, Increases, Ordered
  <2>9. QED
    BY <2>1, <2>5, <2>7, <2>8 DEF ViewInv
<1>6. QED
    BY <1>4, <1>5

\* A poll puts every row after the cursor in the queue.
LEMMA PollIsServed ==
    ASSUME NumbersInv, ViewersInv, NEW v \in Viewers, Poll(v)
    PROVE  \E view \in ViewerRecords : ViewInv(view) /\ Moves(v, view)
<1> DEFINE old == viewer[v]
           list == RowsAfter(old.cursor)
           view == [old EXCEPT !.queue = list]
<1>1. ViewInv(old) /\ old \in ViewerRecords /\ viewer \in [Viewers -> ViewerRecords]
    BY DEF ViewersInv, ViewInv
<1>2. Moves(v, view)
    BY <1>1 DEF Poll, Moves
<1>3. old.cursor \in Nat /\ old.pc = "live" /\ old.backlog = << >>
    BY <1>1, ViewTyped DEF Poll, ViewInv
<1>4. list \in Seq(Event) /\ ToSet(list) = After(old.cursor)
    BY <1>3, RowsAfterAre
<1> HIDE DEF list
<1>5. /\ view \in ViewerRecords /\ view.pc = "live" /\ view.cursor = old.cursor
      /\ view.sent = old.sent /\ view.backlog = << >> /\ view.queue = list
    BY <1>1, <1>3, <1>4 DEF ViewerRecords, ViewerPCs
<1> HIDE DEF view
<1>6. \A e \in rows : Reaches(view, e)
  <2>1. \A e \in rows : e.cursor \in Nat
    BY EventTyped DEF NumbersInv, TableTypeOK
  <2>2. ToSet(view.queue) = {e \in rows : e.cursor > old.cursor}
    BY <1>4, <1>5 DEF After
  <2>3. QED
    BY <1>3, <1>5, <2>1, <2>2 DEF Reaches
<1>7. Increases(view)
    BY <1>1, <1>5 DEF ViewInv, Increases, Ordered
<1>8. QED
    BY <1>2, <1>5, <1>6, <1>7 DEF ViewInv

\* A stream that is off owes nothing.
LEMMA DisconnectIsServed ==
    ASSUME NumbersInv, ViewersInv, NEW v \in Viewers, Disconnect(v)
    PROVE  \E view \in ViewerRecords : ViewInv(view) /\ Moves(v, view)
<1> DEFINE old == viewer[v]
           last == IF old.once THEN "closed" ELSE "off"
           view == [old EXCEPT !.pc = last, !.start = 0, !.queue = << >>, !.backlog = << >>, !.ahead = 0]
<1>1. ViewInv(old) /\ old \in ViewerRecords /\ viewer \in [Viewers -> ViewerRecords]
    BY DEF ViewersInv, ViewInv
<1>2. Moves(v, view)
    BY <1>1 DEF Disconnect, Moves
<1>3. last \in {"off", "closed"} /\ << >> \in Seq(Event) /\ 0 \in Cursors
    BY DEF Cursors, MaxSequence
<1> HIDE DEF last
<1>4. /\ view \in ViewerRecords /\ view.pc = last /\ view.cursor = old.cursor
      /\ view.sent = old.sent /\ view.backlog = << >>
    BY <1>1, <1>3 DEF ViewerRecords, ViewerPCs
<1> HIDE DEF view
<1>5. Increases(view)
    BY <1>1, <1>4 DEF ViewInv, Increases, Ordered
<1>6. QED
    BY <1>2, <1>3, <1>4, <1>5 DEF ViewInv

\* What follows the event at the head of the queue, with that event sent or dropped.
LEMMA HeadOfQueue ==
    ASSUME NEW old \in ViewerRecords, old.queue # << >>
    PROVE  /\ Skipped(old) \in ViewerRecords /\ Sent(old) \in ViewerRecords
           /\ Head(old.queue) \in Event /\ Tail(old.queue) \in Seq(Event)
           /\ ToSet(old.queue) = {Head(old.queue)} \union ToSet(Tail(old.queue))
           /\ Skipped(old).queue = Tail(old.queue) /\ Sent(old).queue = Tail(old.queue)
           /\ Skipped(old).backlog = old.backlog /\ Sent(old).backlog = old.backlog
           /\ Skipped(old).pc = old.pc /\ Sent(old).pc \in {old.pc, "closed"}
           /\ Skipped(old).start = old.start /\ Sent(old).start = old.start
           /\ Skipped(old).cursor = old.cursor /\ Sent(old).cursor = Head(old.queue).cursor
           /\ Skipped(old).sent = old.sent /\ Sent(old).sent = Append(old.sent, Head(old.queue))
<1> DEFINE e == Head(old.queue)
           others == Tail(old.queue)
           fewer == IF old.ahead = 0 THEN 0 ELSE old.ahead - 1
           next == IF old.once /\ e.kind = "end" THEN "closed" ELSE old.pc
           sent == Append(old.sent, e)
<1>1. /\ old.queue \in Seq(Event) /\ old.ahead \in Nat /\ old.sent \in Seq(Event) /\ old.pc \in ViewerPCs
    BY ViewTyped
<1>2. /\ e \in Event /\ others \in Seq(Event)
      /\ ToSet(old.queue) = {e} \union ToSet(others)
    BY <1>1, SetOfHeadAndTail
<1>3. sent \in Seq(Event)
    BY <1>1, <1>2, SetOfAppended
<1>4. fewer \in Nat /\ next \in ViewerPCs /\ next \in {old.pc, "closed"}
    BY <1>1 DEF ViewerPCs
<1>5. e.cursor \in Cursors
    BY <1>2, EventTyped
<1>6. Skipped(old) = [old EXCEPT !.queue = others, !.ahead = fewer]
    BY DEF Skipped
<1>7. Sent(old) = [Skipped(old) EXCEPT !.cursor = e.cursor, !.sent = sent, !.pc = next]
  <2>1. Skipped(old).sent = old.sent /\ Skipped(old).pc = old.pc
    BY DEF Skipped, ViewerRecords
  <2>2. Sent(old) = [Skipped(old) EXCEPT !.cursor = e.cursor, !.sent = Append(Skipped(old).sent, e),
                                         !.pc = IF old.once /\ e.kind = "end" THEN "closed" ELSE Skipped(old).pc]
    BY DEF Sent
  <2>3. QED
    BY <2>1, <2>2
<1> HIDE DEF others, fewer, next, sent
<1>8. /\ Skipped(old) \in ViewerRecords
      /\ Skipped(old).queue = others /\ Skipped(old).backlog = old.backlog /\ Skipped(old).pc = old.pc
      /\ Skipped(old).start = old.start /\ Skipped(old).cursor = old.cursor /\ Skipped(old).sent = old.sent
    BY <1>2, <1>4, <1>6 DEF ViewerRecords
<1> DEFINE skipped == Skipped(old)
<1>9. skipped \in ViewerRecords
    BY <1>8
<1> HIDE DEF skipped, e
<1>10. [skipped EXCEPT !.cursor = e.cursor, !.sent = sent, !.pc = next] \in ViewerRecords
    BY <1>3, <1>4, <1>5, <1>9 DEF ViewerRecords
<1>11. LET new == [skipped EXCEPT !.cursor = e.cursor, !.sent = sent, !.pc = next]
       IN  /\ new.queue = skipped.queue /\ new.backlog = skipped.backlog /\ new.pc = next
           /\ new.start = skipped.start /\ new.cursor = e.cursor /\ new.sent = sent
    BY <1>9 DEF ViewerRecords
<1>12. Sent(old) = [skipped EXCEPT !.cursor = e.cursor, !.sent = sent, !.pc = next]
    BY <1>7 DEF skipped
<1>13. QED
    BY <1>2, <1>4, <1>8, <1>10, <1>11, <1>12 DEF skipped, e, others, sent

\* What leaves the queue was sent or is behind the cursor.
LEMMA SendIsServed ==
    ASSUME NumbersInv, ViewersInv, NEW v \in Viewers, Send(v)
    PROVE  \E view \in ViewerRecords : ViewInv(view) /\ Moves(v, view)
<1> DEFINE old == viewer[v]
           e == Head(old.queue)
           others == Tail(old.queue)
<1>1. ViewInv(old) /\ old \in ViewerRecords /\ viewer \in [Viewers -> ViewerRecords]
    BY DEF ViewersInv, ViewInv
<1>2. old.queue # << >> /\ old.pc \in {"listing", "backlog", "live"}
    BY DEF Send, Open
<1>3. /\ Skipped(old) \in ViewerRecords /\ Sent(old) \in ViewerRecords
      /\ e \in Event /\ others \in Seq(Event) /\ ToSet(old.queue) = {e} \union ToSet(others)
      /\ Skipped(old).queue = others /\ Sent(old).queue = others
      /\ Skipped(old).backlog = old.backlog /\ Sent(old).backlog = old.backlog
      /\ Skipped(old).pc = old.pc /\ Sent(old).pc \in {old.pc, "closed"}
      /\ Skipped(old).start = old.start /\ Sent(old).start = old.start
      /\ Skipped(old).cursor = old.cursor /\ Sent(old).cursor = e.cursor
      /\ Skipped(old).sent = old.sent /\ Sent(old).sent = Append(old.sent, e)
    BY <1>1, <1>2, HeadOfQueue
<1>4. \A d \in rows : Reaches(old, d) /\ d.cursor \in Nat
    BY <1>1, <1>2, EventTyped DEF ViewInv, NumbersInv, TableTypeOK
<1>5. e.cursor \in Nat /\ old.cursor \in Nat /\ old.sent \in Seq(Event)
    BY <1>1, <1>3, EventTyped, ViewTyped
<1>6. Increases(old) /\ (old.pc \in {"off", "listing", "live"} => old.backlog = << >>)
    BY <1>1 DEF ViewInv
<1>7. CASE e.cursor <= old.cursor
  <2> DEFINE view == Skipped(old)
  <2>1. Moves(v, view)
    BY <1>1, <1>7 DEF Send, Moves
  <2>2. /\ view \in ViewerRecords /\ view.queue = others /\ view.backlog = old.backlog /\ view.pc = old.pc
        /\ view.start = old.start /\ view.cursor = old.cursor /\ view.sent = old.sent
    BY <1>3
  <2> HIDE DEF view
  <2>3. \A d \in rows : Reaches(view, d)
    <3>1. ToSet(old.queue) = {e} \union ToSet(view.queue) /\ ToSet(view.backlog) = ToSet(old.backlog)
      BY <1>3, <2>2
    <3> HIDE DEF e, others, old
    <3>2. QED
      BY <1>4, <1>7, <2>2, <3>1 DEF Reaches
  <2>4. Increases(view)
    BY <1>6, <2>2 DEF Increases, Ordered
  <2>5. QED
    BY <1>6, <2>1, <2>2, <2>3, <2>4 DEF ViewInv
<1>8. CASE ~ (e.cursor <= old.cursor)
  <2> DEFINE view == Sent(old)
             n == Len(old.sent)
  <2>1. Moves(v, view)
    BY <1>1, <1>8 DEF Send, Moves
  <2>2. /\ view \in ViewerRecords /\ view.queue = others /\ view.backlog = old.backlog
        /\ view.pc \in {old.pc, "closed"}
        /\ view.start = old.start /\ view.cursor = e.cursor /\ view.sent = Append(old.sent, e)
    BY <1>3
  <2> HIDE DEF view
  <2>3. view.pc # "closed" => \A d \in rows : Reaches(view, d)
    <3>1. ToSet(old.queue) = {e} \union ToSet(view.queue) /\ ToSet(view.backlog) = ToSet(old.backlog)
      BY <1>3, <2>2
    <3> HIDE DEF e, others, old
    <3>2. QED
      BY <1>4, <1>5, <1>8, <2>2, <3>1 DEF Reaches
  <2>4. /\ n \in Nat /\ DOMAIN old.sent = 1..n /\ DOMAIN view.sent = 1..n + 1 /\ view.sent[n + 1] = e
        /\ \A i \in 1..n : view.sent[i] = old.sent[i] /\ old.sent[i].cursor \in Nat
                           /\ old.sent[i].cursor <= old.cursor
    <3>1. n \in Nat /\ DOMAIN old.sent = 1..n
      BY <1>5, LenProperties
    <3>2. /\ view.sent \in Seq(Event) /\ Len(view.sent) = n + 1 /\ view.sent[n + 1] = e
          /\ \A i \in 1..n : view.sent[i] = old.sent[i]
      BY <1>3, <1>5, <2>2, AppendProperties
    <3>3. DOMAIN view.sent = 1..n + 1
      BY <3>2, LenProperties
    <3>4. \A i \in 1..n : old.sent[i] \in Event
      BY <1>5, ElementOfSeq
    <3>5. QED
      BY <1>6, <3>1, <3>2, <3>3, <3>4, EventTyped DEF Increases
  <2>5. Increases(view)
    <3> HIDE DEF n, e, old
    <3>1. \A i \in 1..n : view.sent[i].cursor < e.cursor
      BY <1>5, <1>8, <2>4
    <3>2. \A i, j \in 1..n : i < j => view.sent[i].cursor < view.sent[j].cursor
      BY <1>6, <2>4 DEF Increases, Ordered
    <3>3. \A i \in 1..n + 1 : i \in 1..n \/ i = n + 1
      BY <2>4
    <3>4. \A i \in 1..n + 1 : view.sent[i].cursor <= view.cursor
      BY <1>5, <2>2, <2>4, <3>1, <3>3
    <3>5. \A i, j \in 1..n + 1 : i < j => i \in 1..n /\ (j \in 1..n \/ j = n + 1)
      BY <2>4
    <3>6. QED
      BY <2>4, <3>1, <3>2, <3>4, <3>5 DEF Increases, Ordered
  <2>6. QED
    BY <1>2, <1>6, <2>1, <2>2, <2>3, <2>5 DEF ViewInv
<1>9. QED
    BY <1>7, <1>8

\* The steps of a stream keep the invariant of every stream.
LEMMA ViewingIsServed ==
    ASSUME NumbersInv, ViewersInv, NEW v \in Viewers, Viewing(v)
    PROVE  ViewersInv'
<1>1. PICK view \in ViewerRecords : ViewInv(view) /\ Moves(v, view)
    BY SubscribeIsServed, ListIsServed, QueueIsServed, SendIsServed, PollIsServed, DisconnectIsServed DEF Viewing
<1>2. UNCHANGED <<writer, rows>>
    BY DEF Viewing, Subscribe, ListBacklog, QueueBacklog, Send, Poll, Disconnect, OnlyViewer, tableVars
<1>3. viewer \in [Viewers -> ViewerRecords] /\ \A x \in Viewers : ViewInv(viewer[x])
    BY DEF ViewersInv
<1>4. /\ viewer' \in [Viewers -> ViewerRecords]
      /\ \A x \in Viewers : viewer'[x] = IF x = v THEN view ELSE viewer[x]
    BY <1>1, <1>3 DEF Moves
<1>5. ASSUME NEW x \in Viewers PROVE ViewInv(viewer'[x])
    BY <1>1, <1>3, <1>4
<1>6. Told' = Told
    BY <1>2 DEF Told
<1>7. ASSUME NEW x \in Viewers PROVE ViewInv(viewer[x])'
  <2>1. ViewInv(viewer'[x])
    BY <1>5
  <2>2. QED
    BY <1>2, <1>6, <2>1 DEF ViewInv, Reaches, Increases, Ordered
<1>8. QED
    BY <1>4, <1>7 DEF ViewersInv

\* The other steps: what they commit is published later.
LEMMA OthersAreServed ==
    ASSUME ViewersInv, UNCHANGED viewer, Told \subseteq Told', rows' \subseteq rows \union Told'
    PROVE  ViewersInv'
<1>1. viewer \in [Viewers -> ViewerRecords] /\ \A v \in Viewers : ViewInv(viewer[v])
    BY DEF ViewersInv
<1>2. ASSUME NEW v \in Viewers PROVE ViewInv(viewer[v])'
  <2>1. ViewInv(viewer[v]) /\ viewer'[v] = viewer[v]
    BY <1>1
  <2>2. ASSUME viewer[v].pc \in {"listing", "backlog", "live"}, NEW e \in rows'
        PROVE  Reaches(viewer[v], e)'
    <3>1. CASE e \in rows
      <4>1. Reaches(viewer[v], e)
        BY <2>1, <2>2, <3>1 DEF ViewInv
      <4>2. QED
        BY <2>1, <4>1 DEF Reaches
    <3>2. CASE e \in Told'
      BY <3>2 DEF Reaches
    <3>3. QED
      BY <3>1, <3>2
  <2>3. QED
    BY <2>1, <2>2 DEF ViewInv, Increases, Ordered
<1>3. QED
    BY <1>1, <1>2 DEF ViewersInv

\* A batch is told of as long as its record says so.
LEMMA ToldStays ==
    ASSUME TableTypeOK, NEW w \in Writers, writer[w].pc # "publish" \/ writer'[w] = writer[w],
           \A x \in Writers : x # w => writer'[x] = writer[x]
    PROVE  Told \subseteq Told'
<1> SUFFICES ASSUME NEW e \in Told PROVE e \in Told'
    OBVIOUS
<1>1. PICK x \in Writers : writer[x].pc = "publish" /\ e \in ToSet(writer[x].batch)
    BY DEF Told
<1>2. writer'[x] = writer[x]
    BY <1>1
<1>3. writer'[x].pc = "publish" /\ e \in ToSet(writer'[x].batch)
    BY <1>1, <1>2
<1>4. QED
    BY <1>3 DEF Told

\* A new batch is told of once it is committed.
LEMMA GivesIsServed ==
    ASSUME NumbersInv, ViewersInv, NEW w \in Writers, NEW batch, NEW rest, Waits(w),
           Gives(w, batch, rest), UNCHANGED <<tableVars, viewer>>
    PROVE  ViewersInv'
<1>1. TableTypeOK /\ writer \in [Writers -> WriterRecords] /\ rows' = rows
    BY DEF NumbersInv, TableTypeOK, tableVars
<1>2. \A x \in Writers : x # w => writer'[x] = writer[x]
    BY <1>1 DEF Gives
<1>3. Told \subseteq Told'
    BY <1>1, <1>2, ToldStays DEF Waits
<1>4. QED
    BY <1>1, <1>3, OthersAreServed

\* A publication puts the batch in the queue of every stream that is open.
LEMMA PublishIsServed ==
    ASSUME NumbersInv, ViewersInv, NEW w \in Writers, Publish(w)
    PROVE  ViewersInv'
<1> DEFINE batch == writer[w].batch
           queued(v) == viewer[v].queue \o batch
           new(v) == IF Open(v) THEN [viewer[v] EXCEPT !.queue = queued(v)] ELSE viewer[v]
<1>1. TableTypeOK /\ writer \in [Writers -> WriterRecords] /\ rows' = rows
    BY DEF NumbersInv, TableTypeOK, Publish, tableVars
<1>2. viewer' = [v \in Viewers |-> new(v)]
    BY DEF Publish, Subscribed
<1>3. batch \in Seq(Event)
    BY <1>1, BatchTyped
<1>4. viewer \in [Viewers -> ViewerRecords] /\ \A v \in Viewers : ViewInv(viewer[v])
    BY DEF ViewersInv
<1>5. Told \subseteq Told' \union ToSet(batch)
  <2> SUFFICES ASSUME NEW e \in Told, e \notin ToSet(batch) PROVE e \in Told'
    OBVIOUS
  <2>1. PICK x \in Writers : writer[x].pc = "publish" /\ e \in ToSet(writer[x].batch)
    BY DEF Told
  <2>2. x # w /\ writer'[x] = writer[x]
    BY <1>1, <2>1 DEF Publish
  <2>3. writer'[x].pc = "publish" /\ e \in ToSet(writer'[x].batch)
    BY <2>1, <2>2
  <2>4. QED
    BY <2>3 DEF Told
<1>6. ASSUME NEW v \in Viewers
      PROVE  new(v) \in ViewerRecords /\ ViewInv(viewer[v])'
  <2>1. ViewInv(viewer[v]) /\ viewer[v] \in ViewerRecords /\ viewer'[v] = new(v)
    BY <1>2, <1>4
  <2>2. CASE Open(v)
    <3>1. viewer[v].queue \in Seq(Event)
      BY <2>1, ViewTyped
    <3>2. queued(v) \in Seq(Event) /\ ToSet(queued(v)) = ToSet(viewer[v].queue) \union ToSet(batch)
      BY <1>3, <3>1, SetOfBoth
    <3> DEFINE longer == queued(v)
    <3>3. new(v) = [viewer[v] EXCEPT !.queue = longer]
      BY <2>2
    <3>4. longer \in Seq(Event) /\ ToSet(longer) = ToSet(viewer[v].queue) \union ToSet(batch)
      BY <3>2
    <3> HIDE DEF new, longer
    <3>5. /\ new(v) \in ViewerRecords /\ new(v).queue = longer /\ new(v).backlog = viewer[v].backlog
          /\ new(v).pc = viewer[v].pc /\ new(v).start = viewer[v].start /\ new(v).cursor = viewer[v].cursor
          /\ new(v).sent = viewer[v].sent
      BY <2>1, <3>3, <3>4 DEF ViewerRecords
    <3>6. \A e \in rows : Reaches(viewer[v], e)
      BY <2>1, <2>2 DEF ViewInv, Open
    <3>7. ASSUME NEW e \in rows PROVE Reaches(viewer[v], e)'
      <4>1. Reaches(viewer[v], e)
        BY <3>6
      <4>2. ToSet(new(v).queue) = ToSet(viewer[v].queue) \union ToSet(batch)
        BY <3>4, <3>5
      <4> HIDE DEF batch
      <4>3. /\ viewer'[v].queue = new(v).queue /\ viewer'[v].backlog = viewer[v].backlog
            /\ viewer'[v].pc = viewer[v].pc /\ viewer'[v].start = viewer[v].start
            /\ viewer'[v].cursor = viewer[v].cursor
        BY <2>1, <3>5
      <4>4. QED
        BY <1>5, <4>1, <4>2, <4>3 DEF Reaches
    <3>8. ViewInv(viewer[v])'
      <4>1. /\ viewer'[v] \in ViewerRecords /\ viewer'[v].backlog = viewer[v].backlog
            /\ viewer'[v].pc = viewer[v].pc /\ viewer'[v].cursor = viewer[v].cursor
            /\ viewer'[v].sent = viewer[v].sent
        BY <2>1, <3>5
      <4>2. Increases(viewer[v])'
        BY <2>1, <4>1 DEF ViewInv, Increases, Ordered
      <4>3. viewer'[v].pc \in {"off", "listing", "live"} => viewer'[v].backlog = << >>
        BY <2>1, <4>1 DEF ViewInv
      <4>4. QED
        BY <1>1, <3>7, <4>1, <4>2, <4>3 DEF ViewInv
    <3>9. QED
      BY <3>5, <3>8
  <2>3. CASE ~ Open(v)
    <3>1. viewer'[v] = viewer[v]
      BY <2>1, <2>3
    <3>2. ~ (viewer[v].pc \in {"listing", "backlog", "live"})
      BY <2>3 DEF Open
    <3>3. ViewInv(viewer[v])'
      BY <2>1, <3>1, <3>2 DEF ViewInv, Increases, Ordered
    <3>4. QED
      BY <2>1, <2>3, <3>3
  <2>4. QED
    BY <2>2, <2>3
<1>7. viewer' \in [Viewers -> ViewerRecords]
  <2> HIDE DEF new
  <2> QED BY <1>2, <1>6
<1>8. QED
  <2> HIDE DEF new
  <2> QED BY <1>6, <1>7 DEF ViewersInv

\* The rows of a commit are those its writer tells of.
LEMMA PersistingIsServed ==
    ASSUME NumbersInv, ViewersInv, NEW w \in Writers, Persisting(w)
    PROVE  ViewersInv'
<1>1. TableTypeOK
    BY DEF NumbersInv
<1>2. CASE InsertRow(w)
  <2>1. writer[w].pc # "publish" /\ rows' = rows /\ viewer' = viewer
    BY <1>2 DEF InsertRow
  <2>2. \A x \in Writers : x # w => writer'[x] = writer[x]
    BY <1>2, InsertWrites
  <2>3. Told \subseteq Told'
    BY <1>1, <2>1, <2>2, ToldStays
  <2>4. QED
    BY <2>1, <2>3, OthersAreServed
<1>3. CASE LockRun(w)
  <2>1. writer[w].pc # "publish" /\ rows' = rows /\ viewer' = viewer
    BY <1>3 DEF LockRun
  <2>2. \A x \in Writers : x # w => writer'[x] = writer[x]
    BY <1>3, WriterMoves
  <2>3. Told \subseteq Told'
    BY <1>1, <2>1, <2>2, ToldStays
  <2>4. QED
    BY <2>1, <2>3, OthersAreServed
<1>4. CASE Commit(w)
  <2>1. writer[w].pc # "publish" /\ rows' = rows \union ToSet(writer[w].batch) /\ viewer' = viewer
    BY <1>4 DEF Commit
  <2>2. /\ \A x \in Writers : x # w => writer'[x] = writer[x]
        /\ writer'[w].pc = "publish" /\ writer'[w].batch = writer[w].batch
    BY <1>4, WriterMoves
  <2>3. Told \subseteq Told'
    BY <1>1, <2>1, <2>2, ToldStays
  <2>4. ToSet(writer[w].batch) \subseteq Told'
    BY <2>2 DEF Told
  <2>5. rows' \subseteq rows \union Told'
    BY <2>1, <2>4
  <2>6. QED
    BY <2>1, <2>3, <2>5, OthersAreServed
<1>5. CASE Publish(w)
    BY <1>5, PublishIsServed
<1>6. QED
    BY <1>2, <1>3, <1>4, <1>5 DEF Persisting

\* The loop and the timer leave the table and the streams alone.
LEMMA ConsumingIsServed ==
    ASSUME NumbersInv, ViewersInv, Consuming \/ \E t \in Timers : TimerFires(t)
    PROVE  ViewersInv'
<1>1. Loop \in Writers /\ \A t \in Timers : t \in Writers
    BY DEF Writers
<1>2. CASE ReceiveCall
    BY <1>1, <1>2, GivesIsServed DEF Persists, ReceiveCall
<1>3. CASE ReceiveCompleted
    BY <1>1, <1>3, GivesIsServed DEF Persists, ReceiveCompleted
<1>4. CASE StreamCloses
    BY <1>1, <1>4, GivesIsServed DEF Persists, StreamCloses
<1>5. CASE PersistError
    BY <1>1, <1>5, GivesIsServed DEF Persists, PersistError
<1>6. CASE \E t \in Timers : TimerFires(t)
    BY <1>1, <1>6, GivesIsServed DEF Persists, TimerFires
<1>7. CASE ReceiveDelta \/ CompleteRead \/ CompleteWrite
  <2>1. UNCHANGED <<writer, rows, viewer>>
    BY <1>7 DEF ReceiveDelta, CompleteRead, CompleteWrite, tableVars
  <2>2. Told' = Told
    BY <2>1 DEF Told
  <2>3. QED
    BY <2>1, <2>2, OthersAreServed
<1>8. CASE ReceiveResult
    BY <1>1, <1>8, GivesIsServed DEF ReceiveResult
<1>9. CASE StreamFails
    BY <1>1, <1>9, GivesIsServed DEF Persists, StreamFails
<1>10. CASE FailsAfterEnd
    BY <1>1, <1>10, GivesIsServed DEF Persists, FailsAfterEnd
<1>11. QED
    BY <1>2, <1>3, <1>4, <1>5, <1>6, <1>7, <1>8, <1>9, <1>10 DEF Consuming

LEMMA ViewersStart == StreamInit => ViewersInv
<1> SUFFICES ASSUME StreamInit PROVE ViewersInv
    OBVIOUS
<1>1. viewer \in [Viewers -> {NewViewer(once) : once \in BOOLEAN}] /\ rows = {}
    BY DEF StreamInit
<1>2. ASSUME NEW once \in BOOLEAN PROVE ViewInv(NewViewer(once))
  <2>1. NewViewer(once) \in ViewerRecords
    <3>1. 0 \in Cursors /\ 0 \in Nat /\ << >> \in Seq(Event) /\ "off" \in ViewerPCs
      BY DEF Cursors, MaxSequence, ViewerPCs
    <3>2. QED
      BY <3>1 DEF NewViewer, ViewerRecords
  <2>2. NewViewer(once).pc = "off" /\ NewViewer(once).backlog = << >> /\ DOMAIN NewViewer(once).sent = {}
    BY DEF NewViewer
  <2>3. QED
    BY <2>1, <2>2 DEF ViewInv, Increases, Ordered
<1>3. \A v \in Viewers : viewer[v] \in {NewViewer(once) : once \in BOOLEAN}
    BY <1>1
<1>4. \A v \in Viewers : ViewInv(viewer[v])
    BY <1>2, <1>3
<1>5. viewer \in [Viewers -> ViewerRecords]
    BY <1>1, <1>4 DEF ViewInv
<1>6. QED
    BY <1>4, <1>5 DEF ViewersInv

LEMMA ViewersStep == NumbersIInv /\ ViewersInv /\ [StreamNext]_streamVars => ViewersInv'
<1> SUFFICES ASSUME NumbersIInv, ViewersInv, [StreamNext]_streamVars PROVE ViewersInv'
    OBVIOUS
<1>1. NumbersInv
    BY DEF NumbersIInv
<1>2. CASE Consuming \/ \E t \in Timers : TimerFires(t)
    BY <1>1, <1>2, ConsumingIsServed
<1>3. CASE \E w \in Writers : Persisting(w)
    BY <1>1, <1>3, PersistingIsServed
<1>4. CASE \E v \in Viewers : Viewing(v)
    BY <1>1, <1>4, ViewingIsServed
<1>5. CASE UNCHANGED streamVars
  <2>1. UNCHANGED <<writer, rows, viewer>>
    BY <1>5 DEF streamVars, tableVars
  <2>2. Told' = Told
    BY <2>1 DEF Told
  <2>3. QED
    BY <2>1, <2>2, OthersAreServed
<1>6. QED
    BY <1>2, <1>3, <1>4, <1>5 DEF StreamNext

-----------------------------------------------------------------------------
(* What follows from the invariants *)

\* The text: the invariant sums over all events, the property over two parts of them.
LEMMA TextFollows ==
    ASSUME NumbersIInv
    PROVE  TextIsConserved /\ MessageLacksOnlyOpenBatches
<1>1. NumbersInv /\ LoopInv /\ received = buffer + TextOf(Events) /\ message \subseteq rows
    BY DEF NumbersIInv, TextInv
<1>2. Weighed(Events)
    BY <1>1, EventsAreWeighed
<1>3. \A S \in SUBSET Events : Weighed(S)
    BY <1>2, FS_Subset DEF Weighed
<1>4. buffer \in Nat
    BY <1>1 DEF NumbersInv, LoopTypeOK
<1>5. TextIsConserved
  <2>1. InFlight \intersect rows = {}
    <3> SUFFICES ASSUME NEW e \in InFlight, e \in rows PROVE FALSE
      OBVIOUS
    <3>1. PICK w \in Writers : e \in Uncommitted(w)
      BY DEF InFlight
    <3>2. writer[w].pc # "publish" /\ e \in ToSet(writer[w].batch)
      BY <3>1 DEF Uncommitted
    <3>3. PICK i \in DOMAIN writer[w].batch : e = writer[w].batch[i]
      BY <3>2 DEF ToSet
    <3>4. BatchInv(w)
      BY <1>1 DEF NumbersInv
    <3>5. QED
      BY <3>2, <3>3, <3>4 DEF BatchInv
  <2>2. Weighed(InFlight) /\ Weighed(rows)
    BY <1>3 DEF Events
  <2>3. TextOf(InFlight \union rows) = TextOf(InFlight) + TextOf(rows)
    BY <2>1, <2>2, TextOfBoth
  <2>4. TextOf(Events) = TextOf(InFlight) + TextOf(rows)
    BY <2>3 DEF Events
  <2>5. TextOf(InFlight) \in Nat /\ TextOf(rows) \in Nat
    BY <2>2, TextOfSome
  <2>6. QED
    BY <1>1, <1>4, <2>4, <2>5 DEF TextIsConserved
<1>6. MessageLacksOnlyOpenBatches
  <2> DEFINE rest == (rows \union InFlight) \ message
  <2>1. SUFFICES ASSUME loop = "closing" PROVE received = TextOf(message) + TextOf(rest)
    BY DEF MessageLacksOnlyOpenBatches
  <2>2. buffer = 0
    BY <1>1, <2>1 DEF LoopInv
  <2>3. Weighed(message) /\ Weighed(rest) /\ message \intersect rest = {} /\ message \union rest = Events
    BY <1>1, <1>3 DEF Events
  <2> HIDE DEF rest
  <2>4. TextOf(message \union rest) = TextOf(message) + TextOf(rest)
    BY <2>3, TextOfBoth
  <2>5. TextOf(Events) = TextOf(message) + TextOf(rest)
    BY <2>3, <2>4
  <2>6. TextOf(message) \in Nat /\ TextOf(rest) \in Nat
    BY <2>3, TextOfSome
  <2>7. QED
    BY <1>1, <2>2, <2>5, <2>6
<1>7. QED
    BY <1>5, <1>6

\* The types of the two invariants are those of the module.
LEMMA TypesFollow == ASSUME NumbersIInv, ViewersInv PROVE StreamTypeOK
<1>1. /\ LoopTypeOK /\ TableTypeOK /\ listed \subseteq rows /\ message \subseteq rows
      /\ viewer \in [Viewers -> ViewerRecords] /\ MaxSequence \in Nat
    BY DEF NumbersIInv, NumbersInv, ViewersInv, MaxSequence
<1>2. sequence \in 0..(MaxSequence + 1)
    BY <1>1 DEF LoopTypeOK
<1>3. QED
    BY <1>1, <1>2 DEF StreamTypeOK, LoopTypeOK, TableTypeOK, WriterRecords, ViewerRecords

\* Nobody writes and the queue is empty: every row is behind the cursor.
LEMMA ServedFollows == ASSUME ViewersInv PROVE ViewersAreServed
<1>1. \A v \in Viewers : ViewInv(viewer[v])
    BY DEF ViewersInv
<1>2. SentInOrder
    BY <1>1 DEF ViewInv, Increases, Ordered, SentInOrder
<1>3. ASSUME NEW v \in Viewers, Quiet(v), NEW e \in rows PROVE e.cursor <= viewer[v].cursor
  <2>1. /\ viewer[v].pc = "live" /\ viewer[v].queue = << >> /\ viewer[v].backlog = << >>
        /\ Reaches(viewer[v], e)
    BY <1>1, <1>3 DEF ViewInv, Quiet
  <2>2. ToSet(viewer[v].queue) = {} /\ ToSet(viewer[v].backlog) = {}
    BY <2>1 DEF ToSet
  <2>3. Told = {}
    BY <1>3 DEF Told, Quiet
  <2>4. QED
    BY <2>1, <2>2, <2>3 DEF Reaches
<1>4. QED
    BY <1>2, <1>3 DEF NewestIsSent, ViewersAreServed

-----------------------------------------------------------------------------

\* The text of a run is neither lost nor written twice and its numbers are never
\* given twice, whatever the order of the transactions of the loop and of the timer
\* (HermesEventNormalizer, persistEvents), and the message of a completed run lacks
\* only what those transactions had open (completeRun).
THEOREM TextAndNumbersAreKept == StreamSpec => []StreamInvariant
<1>1. StreamInit => NumbersIInv /\ ViewersInv
    BY NumbersStart, ViewersStart
<1>2. (NumbersIInv /\ ViewersInv) /\ [StreamNext]_streamVars => (NumbersIInv /\ ViewersInv)'
    BY NumbersStep, ViewersStep
<1>3. NumbersIInv /\ ViewersInv => StreamInvariant
  <2> SUFFICES ASSUME NumbersIInv, ViewersInv PROVE StreamInvariant
    OBVIOUS
  <2>1. SequencesAreDistinct
    BY EventsHaveNumbers DEF NumbersIInv
  <2>2. QED
    BY <2>1, TextFollows, TypesFollow DEF StreamInvariant
<1>4. QED
    BY <1>1, <1>2, <1>3, PTL DEF StreamSpec

\* A stream sends every event at most once and by increasing cursor, through lists,
\* publications, polls and reconnections, and one that is up to date has sent what
\* the table has (createProductEventStream, publishThreadEvent).
THEOREM ViewersStayServed == StreamSpec => []ViewersAreServed
<1>1. StreamInit => NumbersIInv /\ ViewersInv
    BY NumbersStart, ViewersStart
<1>2. (NumbersIInv /\ ViewersInv) /\ [StreamNext]_streamVars => (NumbersIInv /\ ViewersInv)'
    BY NumbersStep, ViewersStep
<1>3. NumbersIInv /\ ViewersInv => ViewersAreServed
    BY ServedFollows
<1>4. QED
    BY <1>1, <1>2, <1>3, PTL DEF StreamSpec

-----------------------------------------------------------------------------
(* The screen of a conversation *)

Statuses == {"pending", "running", "awaiting_approval", "closed"}
LiveRun == [id : Nat, status : Statuses]
LogEntry == [run : Nat, kind : LiveKinds]
Snapshots == [known : BOOLEAN, runs : Seq(LiveRun), events : Seq(Nat), cursor : Nat]
FetchRecords ==
    [stage : {"idle", "asked", "runs", "events", "answered", "refused"},
     runs : Seq(LiveRun), upto : Nat, live : BOOLEAN]
SendRecords ==
    [pc : {"idle", "waiting", "posting", "refused", "streaming", "refreshing"},
     before : Snapshots, run : Nat, at : Nat, meta : BOOLEAN, barred : BOOLEAN]

Distinct(runs) == \A i, j \in DOMAIN runs : runs[i].id = runs[j].id => i = j
HasId(runs, id) == \E i \in DOMAIN runs : runs[i].id = id

\* The first n runs are those of the server: what a snapshot can have.
Given(runs, n) ==
    /\ runs \in Seq(LiveRun)
    /\ \A i \in DOMAIN runs : runs[i].id \in 1 .. n
    /\ Distinct(runs)

\* The events that the screen shows are up to its cursor, which is one of the m of the log.
SoundEvents(events, cursor, m) ==
    /\ \A i \in DOMAIN events : events[i] \in 1 .. cursor
    /\ Increasing(events)
    /\ cursor <= m

SoundCopy(s, n, m) ==
    s \in Snapshots /\ Given(s.runs, n) /\ SoundEvents(s.events, s.cursor, m)

\* A run that the server has not made is the last one, and it is active.
SoundScreen(s, n, m) ==
    /\ s \in Snapshots
    /\ Distinct(s.runs)
    /\ \A i \in DOMAIN s.runs :
        /\ s.runs[i].id <= n
        /\ s.runs[i].id = Optimistic => i = Len(s.runs) /\ s.runs[i].status # "closed"
    /\ SoundEvents(s.events, s.cursor, m)

SoundFetches(fetches, n, m) ==
    /\ fetches \in [Fetches -> FetchRecords]
    /\ \A f \in Fetches : Given(fetches[f].runs, n) /\ fetches[f].upto <= m

SoundSend(s, n, m) ==
    /\ s \in SendRecords
    /\ SoundCopy(s.before, n, m)
    /\ s.run <= n
    /\ s.pc \in {"idle", "waiting", "refreshing"} => s.run = 0
    /\ s.pc = "streaming" => s.run # 0

\* The message under way will find its place on a screen that shows runs: its
\* optimistic run alone stands for it, until onMeta tells which run it is.
HasPlace(s, runs) ==
    /\ s.pc = "waiting" => ~HasId(runs, Optimistic)
    /\ s.run # 0 /\ ~s.meta /\ HasId(runs, Optimistic) => ~HasId(runs, s.run)

\* The first snapshot will not be shown any more.
FirstIsOver(fetches) == fetches["first"].stage = "idle" \/ ~fetches["first"].live

LiveServerInv == Given(thread, Len(thread)) /\ log \in Seq(LogEntry) /\ unwritten \in LiveKinds \union {"none"}

LiveScreenInv ==
    /\ SoundScreen(screen, Len(thread), Len(log))
    /\ SoundCopy(chrome, Len(thread), Len(log))
    /\ complete \in BOOLEAN /\ denied \in BOOLEAN /\ stopped \in BOOLEAN
    /\ SoundFetches(fetch, Len(thread), Len(log))
    /\ denied => FirstIsOver(fetch)
    /\ SoundSend(send, Len(thread), Len(log))
    /\ HasPlace(send, screen.runs)

LiveInv == LiveServerInv /\ LiveScreenInv

\* The least of the cursors.
LEMMA LeastIs ==
    ASSUME NEW S \in SUBSET Nat, IsFiniteSet(S), S # {}
    PROVE  Min(S) \in S
<1> DEFINE key == [c \in S |-> c]
<1>1. \A c \in S : key[c] \in Nat /\ key[c] = c
    OBVIOUS
<1>2. PICK d \in S : \A e \in S : key[d] <= key[e]
  <2> HIDE DEF key
  <2> QED BY <1>1, LeastKey
<1>3. \A e \in S : d =< e
    BY <1>1, <1>2
<1>4. QED
    BY <1>3 DEF Min

\* The cursors of two lists, sorted.
LEMMA ByCursorIs ==
    ASSUME NEW S \in SUBSET Nat, IsFiniteSet(S)
    PROVE  /\ ByCursor(S) \in Seq(Nat)
           /\ \A i \in DOMAIN ByCursor(S) : ByCursor(S)[i] \in S
           /\ Increasing(ByCursor(S))
<1> DEFINE key == [c \in S |-> c]
           n == Cardinality(S)
           list == ByCursor(S)
<1>1. \A c \in S : key[c] \in Nat /\ key[c] = c
    OBVIOUS
<1>2. PICK some \in [1..n -> S] : OrderedBy(key, some)
  <2>1. \A d, e \in S : key[d] = key[e] => d = e
    BY <1>1
  <2> HIDE DEF key
  <2>2. QED
    BY <1>1, <2>1, OrderedExists
<1>3. n \in Nat
    BY FS_CardinalityType
<1>4. Increasing(some)
  <2> HIDE DEF key, n
  <2>1. \A i \in DOMAIN some : key[some[i]] = some[i]
    BY <1>1, <1>2
  <2>2. QED
    BY <1>2, <2>1 DEF OrderedBy, Increasing
<1>5. list \in [1..n -> S] /\ Increasing(list)
    BY <1>4 DEF ByCursor
<1>6. list \in Seq(Nat)
  <2>1. list \in [1..n -> Nat]
    BY <1>5
  <2>2. Seq(Nat) = UNION {[1..k -> Nat] : k \in Nat}
    BY SeqDef
  <2> HIDE DEF list, n
  <2>3. QED
    BY <1>3, <2>1, <2>2
<1>7. QED
  <2> HIDE DEF list, n
  <2> QED BY <1>5, <1>6 DEF list

\* A greatest of two numbers.
LEMMA MaxOfTwo ==
    ASSUME NEW a \in Nat, NEW b \in Nat
    PROVE  Max({a, b}) \in Nat /\ Max({a, b}) >= a /\ Max({a, b}) >= b /\ Max({a, b}) \in {a, b}
<1>1. \E x \in {a, b} : \A y \in {a, b} : x >= y
    OBVIOUS
<1>2. Max({a, b}) \in {a, b} /\ \A y \in {a, b} : Max({a, b}) >= y
    BY <1>1 DEF Max
<1>3. QED
    BY <1>2

-----------------------------------------------------------------------------
(* What the steps do to lists of runs, to snapshots and to requests *)

LEMMA IsSeqOf ==
    ASSUME NEW S, NEW n \in Nat, NEW f \in [1..n -> S]
    PROVE  f \in Seq(S) /\ Len(f) = n
<1>1. Seq(S) = UNION {[1..k -> S] : k \in Nat}
    BY SeqDef
<1>2. f \in Seq(S)
    BY <1>1
<1>3. QED
    BY <1>2

LEMMA ElementOf ==
    ASSUME NEW S, NEW s \in Seq(S), NEW i \in DOMAIN s
    PROVE  s[i] \in S
<1>1. DOMAIN s = 1..Len(s)
    OBVIOUS
<1>2. QED
    BY <1>1

\* What two lists of runs that have the same identities have in common.
Alike(a, b) == DOMAIN a = DOMAIN b /\ \A i \in DOMAIN a : a[i].id = b[i].id

LEMMA AlikeIs ==
    ASSUME NEW a, NEW b, Alike(a, b)
    PROVE  /\ Distinct(a) <=> Distinct(b)
           /\ \A id : HasId(a, id) <=> HasId(b, id)
<1>1. DOMAIN a = DOMAIN b /\ \A i \in DOMAIN a : a[i].id = b[i].id
    BY DEF Alike
<1>2. QED
    BY <1>1 DEF Distinct, HasId

LEMMA AlikeIsGiven ==
    ASSUME NEW n, NEW a \in Seq(LiveRun), NEW b, Alike(a, b), Given(b, n)
    PROVE  Given(a, n)
<1>1. Distinct(a)
    BY AlikeIs DEF Given
<1>2. QED
    BY <1>1 DEF Given, Alike

LEMMA SetsIs ==
    ASSUME NEW runs \in Seq(LiveRun), NEW id, NEW status \in Statuses
    PROVE  /\ Sets(runs, id, status) \in Seq(LiveRun) /\ Len(Sets(runs, id, status)) = Len(runs)
           /\ Alike(Sets(runs, id, status), runs)
           /\ \A i \in DOMAIN runs : Sets(runs, id, status)[i].status \in {runs[i].status, status}
<1> DEFINE set == Sets(runs, id, status)
<1>1. DOMAIN set = 1..Len(runs) /\ DOMAIN runs = 1..Len(runs) /\ Len(runs) \in Nat
    BY DEF Sets
<1>2. ASSUME NEW i \in DOMAIN runs
      PROVE  set[i] \in LiveRun /\ set[i].id = runs[i].id /\ set[i].status \in {runs[i].status, status}
  <2>1. runs[i] \in LiveRun
    BY <1>1
  <2>2. set[i] = IF runs[i].id = id THEN [runs[i] EXCEPT !.status = status] ELSE runs[i]
    BY DEF Sets
  <2> HIDE DEF set
  <2>3. QED
    BY <2>1, <2>2 DEF LiveRun
<1>3. set = [i \in 1..Len(runs) |-> set[i]]
    BY <1>1 DEF Sets
<1> HIDE DEF set
<1>4. set \in [1..Len(runs) -> LiveRun]
    BY <1>1, <1>2, <1>3
<1>5. QED
    BY <1>1, <1>2, <1>4, IsSeqOf DEF set, Alike

LEMMA StatusAfterIs ==
    ASSUME NEW status \in Statuses, NEW kind
    PROVE  StatusAfter(status, kind) \in Statuses
<1>1. StatusAfter(status, kind) \in {"awaiting_approval", "closed", "running", status}
  <2>1. CASE kind = "ask"
    <3>1. kind # "end"
      BY <2>1
    <3> QED BY <2>1, <3>1, Zenon DEF StatusAfter
  <2> QED BY <2>1 DEF StatusAfter
<1>2. QED
    BY <1>1 DEF Statuses

LEMMA AppliedIs ==
    ASSUME NEW runs \in Seq(LiveRun), NEW event
    PROVE  /\ Applied(runs, event) \in Seq(LiveRun) /\ Len(Applied(runs, event)) = Len(runs)
           /\ Alike(Applied(runs, event), runs)
           /\ \A i \in DOMAIN runs : runs[i].id # event.run => Applied(runs, event)[i] = runs[i]
<1> DEFINE set == Applied(runs, event)
<1>1. DOMAIN set = 1..Len(runs) /\ DOMAIN runs = 1..Len(runs) /\ Len(runs) \in Nat
    BY DEF Applied
<1>2. ASSUME NEW i \in DOMAIN runs
      PROVE  set[i] \in LiveRun /\ set[i].id = runs[i].id /\ (runs[i].id # event.run => set[i] = runs[i])
  <2>1. runs[i] \in LiveRun /\ runs[i].status \in Statuses
    <3>1. runs[i] \in LiveRun
      BY ElementOf
    <3>2. QED
      BY <3>1 DEF LiveRun
  <2>2. set[i] = IF runs[i].id = event.run
                 THEN [runs[i] EXCEPT !.status = StatusAfter(runs[i].status, event.kind)] ELSE runs[i]
    BY DEF Applied
  <2>3. StatusAfter(runs[i].status, event.kind) \in Statuses
    BY <2>1, StatusAfterIs
  <2> HIDE DEF set
  <2>4. QED
    BY <2>1, <2>2, <2>3 DEF LiveRun
<1>3. set = [i \in 1..Len(runs) |-> set[i]]
    BY <1>1 DEF Applied
<1> HIDE DEF set
<1>4. set \in [1..Len(runs) -> LiveRun]
    BY <1>1, <1>2, <1>3
<1>5. QED
    BY <1>1, <1>2, <1>4, IsSeqOf DEF set, Alike

LEMMA AdoptedIs ==
    ASSUME NEW runs \in Seq(LiveRun), NEW run \in Nat
    PROVE  /\ Adopted(runs, run) \in Seq(LiveRun) /\ Len(Adopted(runs, run)) = Len(runs)
           /\ DOMAIN Adopted(runs, run) = DOMAIN runs
           /\ \A i \in DOMAIN runs :
                /\ runs[i].id = Optimistic => Adopted(runs, run)[i].id = run
                /\ runs[i].id # Optimistic => Adopted(runs, run)[i] = runs[i]
<1> DEFINE set == Adopted(runs, run)
<1>1. DOMAIN set = 1..Len(runs) /\ DOMAIN runs = 1..Len(runs) /\ Len(runs) \in Nat
    BY DEF Adopted
<1>2. ASSUME NEW i \in DOMAIN runs
      PROVE  /\ set[i] \in LiveRun
             /\ runs[i].id = Optimistic => set[i].id = run
             /\ runs[i].id # Optimistic => set[i] = runs[i]
  <2>1. runs[i] \in LiveRun
    BY <1>1
  <2>2. set[i] = IF runs[i].id = Optimistic THEN [id |-> run, status |-> "pending"] ELSE runs[i]
    BY DEF Adopted
  <2> HIDE DEF set
  <2>3. QED
    BY <2>1, <2>2 DEF LiveRun, Statuses
<1>3. set = [i \in 1..Len(runs) |-> set[i]]
    BY <1>1 DEF Adopted
<1> HIDE DEF set
<1>4. set \in [1..Len(runs) -> LiveRun]
    BY <1>1, <1>2, <1>3
<1>5. QED
    BY <1>1, <1>2, <1>4, IsSeqOf DEF set

\* A run is added at the end, with an identity that is not there.
LEMMA AppendIs ==
    ASSUME NEW runs \in Seq(LiveRun), NEW run \in LiveRun, Distinct(runs), ~HasId(runs, run.id)
    PROVE  /\ Append(runs, run) \in Seq(LiveRun) /\ Distinct(Append(runs, run))
           /\ Len(Append(runs, run)) = Len(runs) + 1 /\ Len(runs) \in Nat
           /\ DOMAIN Append(runs, run) = 1 .. Len(runs) + 1 /\ DOMAIN runs = 1 .. Len(runs)
           /\ \A i \in 1 .. Len(runs) : Append(runs, run)[i] = runs[i]
           /\ Append(runs, run)[Len(runs) + 1] = run
<1> DEFINE more == Append(runs, run)
           n == Len(runs)
<1>1. /\ more \in Seq(LiveRun) /\ Len(more) = n + 1 /\ n \in Nat
      /\ DOMAIN more = 1 .. n + 1 /\ DOMAIN runs = 1 .. n
      /\ \A i \in 1 .. n : more[i] = runs[i]
      /\ more[n + 1] = run
    BY AppendProperties
<1> HIDE DEF more, n
<1>2. ASSUME NEW i \in 1 .. n + 1, NEW j \in 1 .. n + 1, more[i].id = more[j].id PROVE i = j
  <2>1. CASE i \in 1 .. n /\ j \in 1 .. n
    BY <1>1, <1>2, <2>1 DEF Distinct
  <2>2. CASE i = n + 1 /\ j \in 1 .. n
    BY <1>1, <1>2, <2>2 DEF HasId
  <2>3. CASE i \in 1 .. n /\ j = n + 1
    BY <1>1, <1>2, <2>3 DEF HasId
  <2>4. CASE i = n + 1 /\ j = n + 1
    BY <2>4
  <2>5. QED
    BY <1>1, <2>1, <2>2, <2>3, <2>4
<1>3. Distinct(more)
    BY <1>1, <1>2 DEF Distinct
<1>4. QED
    BY <1>1, <1>3 DEF more, n

\* What was sound stays so when runs and events are added on the server.
LEMMA SoundGrows ==
    ASSUME NEW n \in Nat, NEW m \in Nat, NEW p \in Nat, NEW q \in Nat, n <= p, m <= q
    PROVE  /\ \A runs : Given(runs, n) => Given(runs, p)
           /\ \A s : SoundCopy(s, n, m) => SoundCopy(s, p, q)
           /\ \A s : SoundScreen(s, n, m) => SoundScreen(s, p, q)
           /\ \A fetches : SoundFetches(fetches, n, m) => SoundFetches(fetches, p, q)
           /\ \A s : SoundSend(s, n, m) => SoundSend(s, p, q)
<1>1. ASSUME NEW runs, Given(runs, n) PROVE Given(runs, p)
    BY <1>1 DEF Given
<1>2. ASSUME NEW s, s \in Snapshots, SoundEvents(s.events, s.cursor, m)
      PROVE  SoundEvents(s.events, s.cursor, q)
  <2>1. s.cursor \in Nat
    BY <1>2 DEF Snapshots
  <2>2. QED
    BY <1>2, <2>1 DEF SoundEvents
<1>3. ASSUME NEW s, SoundCopy(s, n, m) PROVE SoundCopy(s, p, q)
    BY <1>1, <1>2, <1>3 DEF SoundCopy
<1>4. ASSUME NEW s, SoundScreen(s, n, m) PROVE SoundScreen(s, p, q)
  <2>1. s \in Snapshots /\ Distinct(s.runs) /\ SoundEvents(s.events, s.cursor, q)
    BY <1>2, <1>4 DEF SoundScreen
  <2>2. ASSUME NEW i \in DOMAIN s.runs
        PROVE  /\ s.runs[i].id <= p
               /\ s.runs[i].id = Optimistic => i = Len(s.runs) /\ s.runs[i].status # "closed"
    <3>1. s.runs \in Seq(LiveRun)
      BY <2>1 DEF Snapshots
    <3>2. s.runs[i].id \in Nat
      <4>1. s.runs[i] \in LiveRun
        BY <3>1, ElementOf
      <4>2. QED
        BY <4>1 DEF LiveRun
    <3>3. QED
      BY <1>4, <3>2 DEF SoundScreen
  <2>3. QED
    BY <2>1, <2>2 DEF SoundScreen
<1>5. ASSUME NEW fetches, SoundFetches(fetches, n, m) PROVE SoundFetches(fetches, p, q)
  <2>1. \A f \in Fetches : fetches[f].upto \in Nat
    BY <1>5 DEF SoundFetches, FetchRecords
  <2>2. QED
    BY <1>1, <1>5, <2>1 DEF SoundFetches
<1>6. ASSUME NEW s, SoundSend(s, n, m) PROVE SoundSend(s, p, q)
  <2>1. s.run \in Nat
    BY <1>6 DEF SoundSend, SendRecords
  <2>2. QED
    BY <1>3, <1>6, <2>1 DEF SoundSend
<1>7. QED
    BY <1>1, <1>3, <1>4, <1>5, <1>6

\* What is left of the snapshots in flight: some are over, none has an answer of another.
LEMMA OverIs ==
    ASSUME NEW n \in Nat, NEW m \in Nat, NEW fs, NEW fetches, SoundFetches(fetches, n, m)
    PROVE  /\ SoundFetches(Over(fs, fetches), n, m)
           /\ \A f \in Fetches : Over(fs, fetches)[f].stage = fetches[f].stage
           /\ FirstIsOver(fetches) \/ "first" \in fs => FirstIsOver(Over(fs, fetches))
<1> DEFINE over == Over(fs, fetches)
<1>1. ASSUME NEW f \in Fetches
      PROVE  /\ over[f] \in FetchRecords /\ over[f].stage = fetches[f].stage
             /\ over[f].runs = fetches[f].runs /\ over[f].upto = fetches[f].upto
             /\ fetches[f].live = FALSE => over[f].live = FALSE
             /\ f \in fs /\ fetches[f].stage # "idle" => over[f].live = FALSE
  <2>1. fetches[f] \in FetchRecords
    BY DEF SoundFetches
  <2>2. over[f] = IF f \in fs /\ fetches[f].stage # "idle"
                  THEN [fetches[f] EXCEPT !.live = FALSE] ELSE fetches[f]
    BY DEF Over
  <2> HIDE DEF over
  <2>3. QED
    BY <2>1, <2>2 DEF FetchRecords
<1>2. over \in [Fetches -> FetchRecords]
  <2>1. over = [f \in Fetches |-> over[f]]
    BY DEF Over
  <2> HIDE DEF over
  <2>2. QED
    BY <1>1, <2>1
<1>3. "first" \in Fetches
    BY DEF Fetches
<1>4. \A f \in Fetches : fetches[f].live \in BOOLEAN /\ over[f].live \in BOOLEAN
    BY <1>2 DEF SoundFetches, FetchRecords
<1> HIDE DEF over
<1>5. SoundFetches(over, n, m)
    BY <1>1, <1>2 DEF SoundFetches
<1>6. FirstIsOver(fetches) \/ "first" \in fs => FirstIsOver(over)
    BY <1>1, <1>3, <1>4 DEF FirstIsOver
<1>7. QED
    BY <1>1, <1>5, <1>6 DEF over

LEMMA IdleIsSound == NoFetch \in FetchRecords /\ \A n : Given(NoFetch.runs, n)
<1>1. << >> \in Seq(LiveRun) /\ DOMAIN << >> = {}
    OBVIOUS
<1>2. NoFetch.runs = << >>
    BY DEF NoFetch
<1>3. \A n : Given(NoFetch.runs, n)
    BY <1>1, <1>2 DEF Given, Distinct
<1>4. QED
    BY <1>1, <1>3 DEF NoFetch, FetchRecords

\* A request is asked anew, or is over.
LEMMA AsksIs ==
    ASSUME NEW n \in Nat, NEW m \in Nat, NEW f \in Fetches, NEW fetches, SoundFetches(fetches, n, m)
    PROVE  /\ SoundFetches(Asks(f, fetches), n, m)
           /\ Asks(f, fetches)[f].stage = "asked"
           /\ \A g \in Fetches \ {f} : Asks(f, fetches)[g] = fetches[g]
           /\ f # "first" /\ FirstIsOver(fetches) => FirstIsOver(Asks(f, fetches))
<1> DEFINE asked == [NoFetch EXCEPT !.stage = "asked"]
           asks == Asks(f, fetches)
<1>1. asked \in FetchRecords /\ asked.runs = NoFetch.runs /\ asked.upto = 0 /\ asked.stage = "asked"
    BY IdleIsSound DEF NoFetch, FetchRecords
<1>2. fetches \in [Fetches -> FetchRecords]
    BY DEF SoundFetches
<1> HIDE DEF asked
<1>3. asks \in [Fetches -> FetchRecords] /\ asks[f] = asked /\ \A g \in Fetches \ {f} : asks[g] = fetches[g]
    BY <1>1, <1>2 DEF Asks, asked
<1> HIDE DEF asks
<1>4. Given(asks[f].runs, n) /\ asks[f].upto <= m
    BY <1>1, <1>3, IdleIsSound
<1>5. SoundFetches(asks, n, m)
    BY <1>3, <1>4 DEF SoundFetches
<1>6. f # "first" /\ FirstIsOver(fetches) => FirstIsOver(asks)
    BY <1>3 DEF FirstIsOver, Fetches, Refreshes
<1>7. QED
    BY <1>1, <1>3, <1>5, <1>6 DEF asks

LEMMA SettledIs ==
    ASSUME NEW n \in Nat, NEW m \in Nat, NEW f \in Fetches, SoundFetches(fetch, n, m)
    PROVE  /\ SoundFetches(Settled(f), n, m)
           /\ Settled(f)[f].stage = "idle"
           /\ \A g \in Fetches \ {f} : Settled(f)[g] = fetch[g]
           /\ FirstIsOver(fetch) \/ f = "first" => FirstIsOver(Settled(f))
<1> DEFINE rest == Settled(f)
<1>1. NoFetch \in FetchRecords /\ NoFetch.upto = 0 /\ NoFetch.stage = "idle" /\ Given(NoFetch.runs, n)
    BY IdleIsSound DEF NoFetch
<1>2. fetch \in [Fetches -> FetchRecords]
    BY DEF SoundFetches
<1>3. rest \in [Fetches -> FetchRecords] /\ rest[f] = NoFetch /\ \A g \in Fetches \ {f} : rest[g] = fetch[g]
    BY <1>1, <1>2 DEF Settled
<1> HIDE DEF rest
<1>4. SoundFetches(rest, n, m)
    BY <1>1, <1>3 DEF SoundFetches
<1>5. FirstIsOver(fetch) \/ f = "first" => FirstIsOver(rest)
    BY <1>1, <1>3 DEF FirstIsOver, Fetches, Refreshes
<1>6. QED
    BY <1>1, <1>3, <1>4, <1>5 DEF rest

\* applySnapshot: the screen shows s, and no answer is lost but those it makes too old.
LEMMA ShowsIs ==
    ASSUME NEW n \in Nat, NEW m \in Nat, NEW s, NEW fetches, SoundFetches(fetches, n, m), Shows(s, fetches)
    PROVE  /\ screen' = s
           /\ SoundFetches(fetch', n, m)
           /\ \A f \in Fetches : fetch'[f].stage = fetches[f].stage
           /\ FirstIsOver(fetches) => FirstIsOver(fetch')
BY OverIs DEF Shows

LEMMA FetchedIs ==
    ASSUME NEW n \in Nat, NEW m \in Nat, NEW f \in Fetches, SoundFetches(fetch, n, m)
    PROVE  SoundCopy(Fetched(f), n, m) /\ Fetched(f).known
<1> DEFINE list == [i \in 1 .. fetch[f].upto |-> i]
<1>1. fetch[f].runs \in Seq(LiveRun) /\ fetch[f].upto \in Nat /\ Given(fetch[f].runs, n) /\ fetch[f].upto <= m
    BY DEF SoundFetches, FetchRecords
<1>2. list \in [1 .. fetch[f].upto -> Nat] /\ DOMAIN list = 1 .. fetch[f].upto
    BY <1>1
<1>3. list \in Seq(Nat)
  <2> HIDE DEF list
  <2> QED BY <1>1, <1>2, IsSeqOf
<1>4. \A i \in DOMAIN list : list[i] = i
    OBVIOUS
<1> HIDE DEF list
<1>5. Increasing(list) /\ \A i \in DOMAIN list : list[i] \in 1 .. fetch[f].upto
    BY <1>1, <1>2, <1>4 DEF Increasing
<1>6. Fetched(f) = [known |-> TRUE, runs |-> fetch[f].runs, events |-> list, cursor |-> fetch[f].upto]
    BY DEF Fetched, list
<1>7. QED
    BY <1>1, <1>3, <1>5, <1>6 DEF SoundCopy, SoundEvents, Snapshots

LEMMA NothingIs == \A n \in Nat, m \in Nat : SoundCopy(Nothing, n, m)
<1>1. << >> \in Seq(LiveRun) /\ << >> \in Seq(Nat) /\ DOMAIN << >> = {}
    OBVIOUS
<1>2. QED
    BY <1>1 DEF Nothing, SoundCopy, SoundEvents, Snapshots, Given, Distinct, Increasing

LEMMA HeaderIs ==
    ASSUME NEW n \in Nat, NEW m \in Nat, NEW s, SoundCopy(s, n, m)
    PROVE  SoundCopy(Header(s), n, m)
<1> DEFINE none == << >>
<1>1. none \in Seq(Nat) /\ DOMAIN none = {} /\ Header(s) = [s EXCEPT !.events = none]
    BY DEF Header
<1>2. s \in Snapshots /\ Given(s.runs, n) /\ s.cursor <= m
    BY DEF SoundCopy, SoundEvents
<1> HIDE DEF none
<1>3. Header(s) = [known |-> s.known, runs |-> s.runs, events |-> none, cursor |-> s.cursor]
    BY <1>1, <1>2 DEF Snapshots
<1>4. QED
    BY <1>1, <1>2, <1>3 DEF SoundCopy, SoundEvents, Snapshots, Increasing

\* A snapshot of the server can be shown, and has no optimistic run.
LEMMA CopyIsShown ==
    ASSUME NEW n \in Nat, NEW m \in Nat, NEW s, SoundCopy(s, n, m)
    PROVE  SoundScreen(s, n, m) /\ ~HasId(s.runs, Optimistic)
<1>1. s \in Snapshots /\ Given(s.runs, n) /\ SoundEvents(s.events, s.cursor, m)
    BY DEF SoundCopy
<1>2. \A i \in DOMAIN s.runs : s.runs[i].id \in 1 .. n
    BY <1>1 DEF Given
<1>3. \A i \in DOMAIN s.runs : s.runs[i].id # Optimistic /\ s.runs[i].id <= n
    BY <1>2 DEF Optimistic
<1>4. QED
    BY <1>1, <1>3 DEF SoundScreen, Given, HasId

\* Without the optimistic run, there is nothing but the identities to say.
LEMMA ScreenIsCopy ==
    ASSUME NEW n \in Nat, NEW m \in Nat, NEW s, SoundScreen(s, n, m), ~HasId(s.runs, Optimistic)
    PROVE  SoundCopy(s, n, m)
<1>1. s \in Snapshots /\ s.runs \in Seq(LiveRun) /\ Distinct(s.runs) /\ SoundEvents(s.events, s.cursor, m)
    BY DEF SoundScreen, Snapshots
<1>2. ASSUME NEW i \in DOMAIN s.runs PROVE s.runs[i].id \in 1 .. n
  <2>1. s.runs[i] \in LiveRun
    BY <1>1, ElementOf
  <2>2. s.runs[i].id \in Nat /\ s.runs[i].id # 0 /\ s.runs[i].id <= n
    BY <2>1 DEF LiveRun, HasId, Optimistic, SoundScreen
  <2>3. QED
    BY <2>2
<1>3. QED
    BY <1>1, <1>2 DEF SoundCopy, Given

\* mergeThreadSnapshots: the runs of the server, the events of both in order.
LEMMA MergeIs ==
    ASSUME NEW n \in Nat, NEW m \in Nat, NEW local, NEW server,
           SoundScreen(local, n, m), SoundCopy(server, n, m)
    PROVE  SoundCopy(mergeThreadSnapshots(local, server), n, m)
<1> DEFINE S == Range(local.events) \union Range(server.events)
           c == Max({local.cursor, server.cursor})
<1>1. local \in Snapshots /\ server \in Snapshots
    BY DEF SoundScreen, SoundCopy
<1>2. local.cursor \in Nat /\ server.cursor \in Nat /\ local.cursor <= m /\ server.cursor <= m
    BY <1>1 DEF Snapshots, SoundScreen, SoundCopy, SoundEvents
<1>3. c \in Nat /\ c <= m /\ c >= local.cursor /\ c >= server.cursor
    BY <1>2, MaxOfTwo
<1> HIDE DEF c
<1>4. \A x \in Range(local.events) : x \in 1 .. local.cursor
    BY DEF Range, SoundScreen, SoundEvents
<1>5. \A x \in Range(server.events) : x \in 1 .. server.cursor
    BY DEF Range, SoundCopy, SoundEvents
<1>6. S \subseteq 1 .. c
    BY <1>2, <1>3, <1>4, <1>5
<1>7. IsFiniteSet(S) /\ S \in SUBSET Nat
  <2>1. IsFiniteSet(1 .. c)
    BY <1>3, FS_Interval
  <2> HIDE DEF S
  <2>2. IsFiniteSet(S)
    BY <1>6, <2>1, FS_Subset
  <2>3. 1 .. c \in SUBSET Nat
    BY <1>3
  <2>4. QED
    BY <1>6, <2>2, <2>3
<1>8. mergeThreadSnapshots(local, server) =
        [known |-> server.known, runs |-> server.runs, events |-> ByCursor(S), cursor |-> c]
  <2>1. mergeThreadSnapshots(local, server) = [server EXCEPT !.events = ByCursor(S), !.cursor = c]
    BY DEF mergeThreadSnapshots, c
  <2> HIDE DEF S
  <2>2. QED
    BY <1>1, <2>1 DEF Snapshots
<1> HIDE DEF S
<1>9. ByCursor(S) \in Seq(Nat) /\ Increasing(ByCursor(S)) /\ \A i \in DOMAIN ByCursor(S) : ByCursor(S)[i] \in 1 .. c
    BY <1>6, <1>7, ByCursorIs
<1>10. QED
    BY <1>1, <1>3, <1>8, <1>9 DEF SoundCopy, SoundEvents, Snapshots

LEMMA TouchedIs ==
    ASSUME NEW n \in Nat, NEW m \in Nat, NEW s, SoundScreen(s, n, m),
           NEW runs \in Seq(LiveRun), Len(runs) = Len(s.runs), Alike(runs, s.runs),
           \A i \in DOMAIN runs : runs[i].id = Optimistic => runs[i].status # "closed"
    PROVE  SoundScreen([s EXCEPT !.runs = runs], n, m)
<1> DEFINE t == [s EXCEPT !.runs = runs]
<1>1. s \in Snapshots
    BY DEF SoundScreen
<1>2. t \in Snapshots /\ t.runs = runs /\ t.events = s.events /\ t.cursor = s.cursor
    BY <1>1 DEF Snapshots
<1> HIDE DEF t
<1>3. Distinct(t.runs) /\ SoundEvents(t.events, t.cursor, m)
    BY <1>2, AlikeIs DEF SoundScreen
<1>4. \A i \in DOMAIN runs : runs[i].id <= n /\ (runs[i].id = Optimistic => i = Len(runs))
    BY DEF SoundScreen, Alike
<1>5. SoundScreen(t, n, m)
    BY <1>2, <1>3, <1>4 DEF SoundScreen
<1>6. QED
    BY <1>5 DEF t

\* applyProductEventToSnapshot, of an event of a run the server has made.
LEMMA ApplyIs ==
    ASSUME NEW n \in Nat, NEW m \in Nat, NEW s, SoundScreen(s, n, m),
           NEW c \in 1 .. m, log[c].run # Optimistic
    PROVE  /\ SoundScreen(applyProductEventToSnapshot(s, c), n, m)
           /\ Alike(applyProductEventToSnapshot(s, c).runs, s.runs)
           /\ applyProductEventToSnapshot(s, c).known = s.known
<1>1. CASE c <= s.cursor
    BY <1>1 DEF applyProductEventToSnapshot, Alike
<1>2. CASE ~ (c <= s.cursor)
  <2> DEFINE events == Append(s.events, c)
             runs == Applied(s.runs, log[c])
             t == [s EXCEPT !.runs = runs]
  <2>1. s \in Snapshots /\ s.runs \in Seq(LiveRun) /\ s.events \in Seq(Nat) /\ s.cursor \in Nat
    BY DEF SoundScreen, Snapshots
  <2>2. runs \in Seq(LiveRun) /\ Len(runs) = Len(s.runs) /\ Alike(runs, s.runs)
    BY <2>1, AppliedIs
  <2>3. \A i \in DOMAIN runs : runs[i].id = Optimistic => runs[i].status # "closed"
    <3>1. \A i \in DOMAIN s.runs : s.runs[i].id # log[c].run => runs[i] = s.runs[i]
      BY <2>1, AppliedIs
    <3>2. \A i \in DOMAIN s.runs : s.runs[i].id = Optimistic => s.runs[i].status # "closed"
      BY DEF SoundScreen
    <3> HIDE DEF runs
    <3>3. QED
      BY <2>2, <3>1, <3>2 DEF Alike
  <2>4. SoundScreen(t, n, m)
    <3> HIDE DEF runs
    <3> QED BY <2>2, <2>3, TouchedIs
  <2>5. SoundEvents(events, c, m) /\ events \in Seq(Nat)
    <3> DEFINE k == Len(s.events)
    <3>1. /\ events \in Seq(Nat) /\ k \in Nat /\ DOMAIN events = 1 .. k + 1 /\ DOMAIN s.events = 1 .. k
          /\ \A i \in 1 .. k : events[i] = s.events[i]
          /\ events[k + 1] = c
      BY <2>1, AppendProperties
    <3>2. (\A i \in DOMAIN s.events : s.events[i] \in 1 .. s.cursor) /\ Increasing(s.events)
      BY DEF SoundScreen, SoundEvents
    <3> HIDE DEF events, k
    <3>3. \A i \in 1 .. k : events[i] \in 1 .. c /\ events[i] < c
      <4>1. \A i \in 1 .. k : events[i] \in 1 .. s.cursor
        BY <3>1, <3>2
      <4>2. c \in Nat /\ s.cursor < c
        BY <1>2, <2>1
      <4>3. QED
        BY <2>1, <4>1, <4>2
    <3>4. \A i \in 1 .. k + 1 : events[i] \in 1 .. c
      BY <3>1, <3>3
    <3>5. ASSUME NEW i \in 1 .. k + 1, NEW j \in 1 .. k + 1, i < j
          PROVE  events[i] < events[j]
      <4>1. i \in 1 .. k
        BY <3>1, <3>5
      <4>2. CASE j \in 1 .. k
        BY <3>1, <3>2, <3>5, <4>1, <4>2 DEF Increasing
      <4>3. CASE j = k + 1
        BY <3>1, <3>3, <4>1, <4>3
      <4>4. QED
        BY <3>1, <4>2, <4>3
    <3>6. QED
      BY <3>1, <3>4, <3>5 DEF SoundEvents, Increasing
  <2>6. applyProductEventToSnapshot(s, c) =
          [known |-> s.known, runs |-> runs, events |-> events, cursor |-> c]
    <3>1. applyProductEventToSnapshot(s, c) = [s EXCEPT !.cursor = c, !.events = events, !.runs = runs]
      BY <1>2 DEF applyProductEventToSnapshot
    <3> HIDE DEF runs, events
    <3>2. QED
      BY <2>1, <3>1 DEF Snapshots
  <2>7. t = [known |-> s.known, runs |-> runs, events |-> s.events, cursor |-> s.cursor]
    <3> HIDE DEF runs
    <3> QED BY <2>1 DEF Snapshots
  <2> HIDE DEF runs, events, t
  <2> DEFINE u == applyProductEventToSnapshot(s, c)
  <2>8. u.known = s.known /\ u.runs = runs /\ u.events = events /\ u.cursor = c /\ t.runs = runs
    BY <2>6, <2>7
  <2>9. u \in Snapshots
    BY <2>1, <2>2, <2>5, <2>6 DEF Snapshots
  <2> HIDE DEF u
  <2>10. SoundScreen(u, n, m)
    BY <2>4, <2>5, <2>8, <2>9 DEF SoundScreen
  <2>11. QED
    BY <2>2, <2>8, <2>10 DEF u
<1>3. QED
    BY <1>1, <1>2

LEMMA PlaceIs ==
    /\ \A s, runs : ~HasId(runs, Optimistic) => HasPlace(s, runs)
    /\ \A runs : HasPlace(NotSending, runs)
    /\ \A s, a, b : Alike(a, b) /\ HasPlace(s, b) => HasPlace(s, a)
<1>1. \A s, a, b : Alike(a, b) /\ HasPlace(s, b) => HasPlace(s, a)
    BY AlikeIs DEF HasPlace
<1>2. QED
    BY <1>1 DEF HasPlace, NotSending

LEMMA NotSendingIs == \A n \in Nat, m \in Nat : SoundSend(NotSending, n, m)
<1>1. \A n \in Nat, m \in Nat : SoundCopy(Nothing, n, m)
    BY NothingIs
<1>2. Nothing \in Snapshots
    BY <1>1 DEF SoundCopy
<1>3. QED
    BY <1>1, <1>2 DEF SoundSend, SendRecords, NotSending

\* clearLocalThread: nothing of the conversation is left, and the first snapshot is over.
LEMMA ClearIs ==
    ASSUME NEW n \in Nat, NEW m \in Nat, NEW fetches, SoundFetches(fetches, n, m), clearLocalThread(fetches)
    PROVE  /\ screen' = Nothing /\ chrome' = Nothing
           /\ SoundFetches(fetch', n, m) /\ FirstIsOver(fetch')
           /\ complete' = FALSE /\ denied' = TRUE /\ stopped' = TRUE
<1>1. SoundFetches(Over({"first"}, fetches), n, m) /\ FirstIsOver(Over({"first"}, fetches))
    BY OverIs
<1>2. QED
    BY <1>1, ShowsIs DEF clearLocalThread

-----------------------------------------------------------------------------
(* The steps of a conversation *)

LEMMA CountsOfLive ==
    ASSUME LiveInv
    PROVE  Len(thread) \in Nat /\ Len(log) \in Nat
BY DEF LiveInv, LiveServerInv, Given

\* What is to be shown of a step that the server takes no part in.
LEMMA ClientStep ==
    ASSUME LiveInv, UNCHANGED <<thread, log, unwritten>>,
           SoundScreen(screen', Len(thread), Len(log)), SoundCopy(chrome', Len(thread), Len(log)),
           complete' \in BOOLEAN, denied' \in BOOLEAN, stopped' \in BOOLEAN,
           SoundFetches(fetch', Len(thread), Len(log)), denied' => FirstIsOver(fetch'),
           SoundSend(send', Len(thread), Len(log)), HasPlace(send', screen'.runs)
    PROVE  LiveInv'
BY DEF LiveInv, LiveServerInv, LiveScreenInv

\* And of a step of the server alone.
LEMMA GrowthStep ==
    ASSUME LiveInv, Given(thread, Len(thread))', log' \in Seq(LogEntry),
           unwritten' \in LiveKinds \union {"none"},
           Len(thread) <= Len(thread'), Len(log) <= Len(log'), UNCHANGED <<screenVars, fetch, send>>
    PROVE  LiveInv'
<1>1. Len(thread) \in Nat /\ Len(log) \in Nat
    BY CountsOfLive
<1>2. Len(thread') \in Nat /\ Len(log') \in Nat
    BY DEF Given
<1> DEFINE n == Len(thread)  m == Len(log)  p == Len(thread')  q == Len(log')
<1>3. /\ SoundScreen(screen, p, q) /\ SoundCopy(chrome, p, q)
      /\ SoundFetches(fetch, p, q) /\ SoundSend(send, p, q)
  <2>1. /\ SoundScreen(screen, n, m) /\ SoundCopy(chrome, n, m)
        /\ SoundFetches(fetch, n, m) /\ SoundSend(send, n, m)
    BY DEF LiveInv, LiveScreenInv
  <2>2. n \in Nat /\ m \in Nat /\ p \in Nat /\ q \in Nat /\ n <= p /\ m <= q
    BY <1>1, <1>2
  <2> HIDE DEF n, m, p, q
  <2>3. QED
    BY <2>1, <2>2, SoundGrows
<1>4. QED
    BY <1>3 DEF LiveInv, LiveServerInv, LiveScreenInv, screenVars

\* A run is added to the thread.
LEMMA OpensIs ==
    ASSUME LiveInv
    PROVE  Given(Opens, Len(thread) + 1) /\ Len(Opens) = Len(thread) + 1
<1> DEFINE n == Len(thread)
           run == [id |-> n + 1, status |-> "pending"]
<1>1. thread \in Seq(LiveRun) /\ Distinct(thread) /\ n \in Nat /\ \A i \in DOMAIN thread : thread[i].id \in 1 .. n
    BY CountsOfLive DEF LiveInv, LiveServerInv, Given
<1>2. run \in LiveRun /\ run.id = n + 1
    BY <1>1 DEF LiveRun, Statuses
<1>3. ~HasId(thread, run.id)
    BY <1>1, <1>2 DEF HasId
<1>4. Opens = Append(thread, run)
    BY DEF Opens
<1> HIDE DEF run
<1>5. /\ Opens \in Seq(LiveRun) /\ Distinct(Opens) /\ Len(Opens) = n + 1
      /\ DOMAIN Opens = 1 .. n + 1 /\ DOMAIN thread = 1 .. n
      /\ \A i \in 1 .. n : Opens[i] = thread[i]
      /\ Opens[n + 1] = run
    BY <1>1, <1>2, <1>3, <1>4, AppendIs
<1>6. ASSUME NEW i \in 1 .. n + 1 PROVE Opens[i].id \in 1 .. n + 1
  <2>1. CASE i \in 1 .. n
    BY <1>1, <1>5, <2>1
  <2>2. CASE i = n + 1
    BY <1>1, <1>2, <1>5, <2>2
  <2>3. QED
    BY <1>1, <2>1, <2>2
<1>7. QED
    BY <1>5, <1>6 DEF Given

\* A run of the thread changes its status.
LEMMA SetsThread ==
    ASSUME LiveInv, NEW id, NEW status \in Statuses, thread' = Sets(thread, id, status)
    PROVE  Given(thread, Len(thread))' /\ Len(thread') = Len(thread)
<1>1. Given(thread, Len(thread)) /\ thread \in Seq(LiveRun)
    BY DEF LiveInv, LiveServerInv, Given
<1>2. Given(thread', Len(thread))
    BY <1>1, SetsIs, AlikeIsGiven
<1>3. Len(thread') = Len(thread)
    BY <1>1, SetsIs
<1>4. QED
    BY <1>2, <1>3

LEMMA ServerIsSound == ASSUME LiveInv, ServerStep PROVE LiveInv'
<1>1. Given(thread, Len(thread)) /\ log \in Seq(LogEntry) /\ unwritten \in LiveKinds \union {"none"}
    BY DEF LiveInv, LiveServerInv
<1>2. Len(thread) \in Nat /\ Len(log) \in Nat
    BY CountsOfLive
<1>3. "none" \in LiveKinds \union {"none"}
    OBVIOUS
<1>4. CASE SendElsewhere
  <2>1. thread' = Opens /\ log' = log /\ unwritten' = unwritten /\ UNCHANGED <<screenVars, fetch, send>>
    BY <1>4 DEF SendElsewhere, KeepsClient, screenVars
  <2>2. Given(thread, Len(thread))' /\ Len(thread) <= Len(thread')
    BY <1>2, <2>1, OpensIs
  <2>3. QED
    BY <1>1, <1>2, <2>1, <2>2, GrowthStep
<1>5. ASSUME NEW id, NEW status \in Statuses, thread' = Sets(thread, id, status), log' = log,
             unwritten' \in LiveKinds \union {"none"}, UNCHANGED <<screenVars, fetch, send>>
      PROVE  LiveInv'
  <2>1. Given(thread, Len(thread))' /\ Len(thread') = Len(thread)
    BY <1>5, SetsThread
  <2>2. QED
    BY <1>1, <1>2, <1>5, <2>1, GrowthStep
<1>6. CASE RunStarts \/ AnsweredElsewhere \/ RunClosesSilently
  <2>1. "running" \in Statuses /\ "closed" \in Statuses
    BY DEF Statuses
  <2>2. /\ thread' = Sets(thread, Len(thread), "running") \/ thread' = Sets(thread, Len(thread), "closed")
        /\ log' = log /\ unwritten' = unwritten /\ UNCHANGED <<screenVars, fetch, send>>
    BY <1>6 DEF RunStarts, AnsweredElsewhere, RunClosesSilently, KeepsClient, screenVars
  <2>3. QED
    BY <1>1, <1>5, <2>1, <2>2
<1>7. CASE StatusFollows
  <2>1. StatusAfter("running", unwritten) \in Statuses
    <3>1. "running" \in Statuses
      BY DEF Statuses
    <3>2. QED
      BY <3>1, StatusAfterIs
  <2>2. /\ thread' = Sets(thread, Len(thread), StatusAfter("running", unwritten))
        /\ log' = log /\ unwritten' = "none" /\ UNCHANGED <<screenVars, fetch, send>>
    BY <1>7 DEF StatusFollows, KeepsClient, screenVars
  <2>3. QED
    BY <1>3, <1>5, <2>1, <2>2
<1>8. CASE AccessEnds
  <2>1. thread' = thread /\ log' = log /\ unwritten' = unwritten /\ UNCHANGED <<screenVars, fetch, send>>
    BY <1>8 DEF AccessEnds, screenVars
  <2>2. QED
    BY <1>1, <1>2, <2>1, GrowthStep
<1>9. ASSUME NEW kind \in LiveKinds, RunEmits(kind)
      PROVE  LiveInv'
  <2> DEFINE entry == [run |-> Len(thread), kind |-> kind]
  <2>1. /\ thread' = thread /\ log' = Append(log, entry) /\ unwritten' \in {"none", kind}
        /\ UNCHANGED <<screenVars, fetch, send>>
    BY <1>9 DEF RunEmits, KeepsClient, screenVars
  <2>2. entry \in LogEntry
    BY <1>2 DEF LogEntry
  <2> HIDE DEF entry
  <2>3. log' \in Seq(LogEntry) /\ Len(log') = Len(log) + 1
    BY <1>1, <2>1, <2>2, AppendProperties
  <2>4. Given(thread, Len(thread))' /\ Len(thread) <= Len(thread') /\ Len(log) <= Len(log')
    BY <1>1, <1>2, <2>1, <2>3
  <2>5. QED
    BY <2>1, <2>3, <2>4, GrowthStep
<1>10. QED
    BY <1>4, <1>6, <1>7, <1>8, <1>9 DEF ServerStep

LEMMA ReadingIsSound ==
    ASSUME LiveInv, NEW f \in Fetches, getThreadSnapshot(f)
    PROVE  LiveInv'
<1> DEFINE n == Len(thread)
           m == Len(log)
<1>1. /\ SoundScreen(screen, n, m) /\ SoundCopy(chrome, n, m) /\ SoundFetches(fetch, n, m)
      /\ SoundSend(send, n, m) /\ HasPlace(send, screen.runs)
      /\ complete \in BOOLEAN /\ denied \in BOOLEAN /\ stopped \in BOOLEAN
      /\ denied => FirstIsOver(fetch)
      /\ Given(thread, n) /\ n \in Nat /\ m \in Nat
    BY CountsOfLive DEF LiveInv, LiveScreenInv, LiveServerInv
<1>2. Given(<<>>, n)
    BY IdleIsSound DEF NoFetch
<1>3. PICK from \in {"asked", "runs", "events"}, to \in {"runs", "events", "answered", "refused"},
           runs \in {thread, <<>>, fetch[f].runs}, upto \in {0, m, fetch[f].upto} : Reads(f, from, to, runs, upto)
    BY DEF getThreadSnapshot
<1>4. Given(runs, n) /\ runs \in Seq(LiveRun) /\ upto \in Nat /\ upto <= m
  <2>1. Given(fetch[f].runs, n) /\ fetch[f].upto <= m /\ fetch[f].upto \in Nat
    BY <1>1 DEF SoundFetches, FetchRecords
  <2> HIDE DEF n, m
  <2>2. Given(runs, n)
    BY <1>1, <1>2, <2>1
  <2>3. upto \in Nat /\ upto <= m
    BY <1>1, <2>1
  <2>4. QED
    BY <2>2, <2>3 DEF Given
<1>5. /\ fetch[f].stage = from
      /\ fetch' = [fetch EXCEPT ![f] = [fetch[f] EXCEPT !.stage = to, !.runs = runs, !.upto = upto]]
      /\ UNCHANGED <<thread, log, unwritten, screenVars, send>>
    BY <1>3 DEF Reads, serverVars, screenVars
<1> DEFINE read == [fetch[f] EXCEPT !.stage = to, !.runs = runs, !.upto = upto]
<1>6. fetch \in [Fetches -> FetchRecords] /\ fetch[f] \in FetchRecords
    BY <1>1 DEF SoundFetches
<1>7. read \in FetchRecords /\ read.runs = runs /\ read.upto = upto /\ read.live = fetch[f].live
    BY <1>3, <1>4, <1>6 DEF FetchRecords
<1> HIDE DEF read, n, m
<1>8. fetch' \in [Fetches -> FetchRecords] /\ fetch'[f] = read /\ \A g \in Fetches \ {f} : fetch'[g] = fetch[g]
    BY <1>5, <1>6, <1>7 DEF read
<1>9. SoundFetches(fetch', n, m)
    BY <1>1, <1>4, <1>7, <1>8 DEF SoundFetches
<1>10. FirstIsOver(fetch) => FirstIsOver(fetch')
  <2>1. fetch[f].stage # "idle"
    BY <1>5, <1>3
  <2>2. "first" \in Fetches
    BY DEF Fetches
  <2>3. CASE f = "first"
    BY <1>7, <1>8, <2>1, <2>3 DEF FirstIsOver
  <2>4. CASE f # "first"
    BY <1>8, <2>2, <2>4 DEF FirstIsOver
  <2>5. QED
    BY <2>3, <2>4
<1>11. UNCHANGED <<thread, log, unwritten, screen, complete, denied, stopped, chrome, send>>
    BY <1>5 DEF screenVars
<1>12. QED
    BY <1>1, <1>9, <1>10, <1>11, ClientStep DEF n, m

\* The screen shows a snapshot of the server, whatever message is under way.
LEMMA CopyStep ==
    ASSUME LiveInv, UNCHANGED <<thread, log, unwritten>>, NEW s, NEW fetches,
           SoundCopy(s, Len(thread), Len(log)), SoundFetches(fetches, Len(thread), Len(log)),
           Shows(s, fetches), denied' => FirstIsOver(fetches),
           SoundCopy(chrome', Len(thread), Len(log)),
           complete' \in BOOLEAN, denied' \in BOOLEAN, stopped' \in BOOLEAN,
           send' \in {send, NotSending} \/ SoundSend(send', Len(thread), Len(log))
    PROVE  LiveInv'
<1>1. Len(thread) \in Nat /\ Len(log) \in Nat
    BY CountsOfLive
<1>2. /\ screen' = s /\ SoundFetches(fetch', Len(thread), Len(log))
      /\ denied' => FirstIsOver(fetch')
    BY <1>1, ShowsIs
<1>3. SoundScreen(screen', Len(thread), Len(log)) /\ ~HasId(screen'.runs, Optimistic)
    BY <1>1, <1>2, CopyIsShown
<1>4. SoundSend(send', Len(thread), Len(log)) /\ HasPlace(send', screen'.runs)
    BY <1>1, <1>3, NotSendingIs, PlaceIs DEF LiveInv, LiveScreenInv
<1>5. QED
    BY <1>2, <1>3, <1>4, ClientStep

LEMMA ClearStep ==
    ASSUME LiveInv, UNCHANGED <<thread, log, unwritten>>, NEW fetches,
           SoundFetches(fetches, Len(thread), Len(log)), clearLocalThread(fetches),
           send' \in {send, NotSending}
    PROVE  LiveInv'
<1>1. Len(thread) \in Nat /\ Len(log) \in Nat
    BY CountsOfLive
<1>2. /\ screen' = Nothing /\ chrome' = Nothing
      /\ SoundFetches(fetch', Len(thread), Len(log)) /\ FirstIsOver(fetch')
      /\ complete' = FALSE /\ denied' = TRUE /\ stopped' = TRUE
    BY <1>1, ClearIs
<1>3. SoundCopy(Nothing, Len(thread), Len(log))
    BY <1>1, NothingIs
<1>4. SoundScreen(Nothing, Len(thread), Len(log)) /\ ~HasId(Nothing.runs, Optimistic)
    BY <1>1, <1>3, CopyIsShown
<1>5. SoundSend(send', Len(thread), Len(log)) /\ HasPlace(send', Nothing.runs)
    BY <1>1, <1>4, NotSendingIs, PlaceIs DEF LiveInv, LiveScreenInv
<1>6. QED
    BY <1>2, <1>3, <1>4, <1>5, ClientStep

\* What the invariant says, with the names that the steps use.
LiveFacts(n, m) ==
    /\ SoundScreen(screen, n, m) /\ SoundCopy(chrome, n, m) /\ SoundFetches(fetch, n, m)
    /\ SoundSend(send, n, m) /\ HasPlace(send, screen.runs)
    /\ complete \in BOOLEAN /\ denied \in BOOLEAN /\ stopped \in BOOLEAN
    /\ denied => FirstIsOver(fetch)
    /\ n \in Nat /\ m \in Nat

LEMMA FactsOfLive == ASSUME LiveInv PROVE LiveFacts(Len(thread), Len(log))
BY CountsOfLive DEF LiveInv, LiveScreenInv, LiveFacts

LEMMA FirstIsSound == ASSUME LiveInv, FirstLands PROVE LiveInv'
<1> DEFINE n == Len(thread)
           m == Len(log)
           s == Fetched("first")
<1>1. LiveFacts(n, m) /\ "first" \in Fetches
    BY FactsOfLive DEF Fetches
<1>2. /\ UNCHANGED <<thread, log, unwritten, denied, stopped, send>> /\ chrome' = Header(s)
      /\ \/ Shows(s, Settled("first")) /\ complete' = TRUE
         \/ fetch' = Settled("first") /\ UNCHANGED <<screen, complete>>
    BY DEF FirstLands, Landing, serverVars
<1> HIDE DEF n, m
<1>3. SoundCopy(s, n, m)
    BY <1>1, FetchedIs DEF LiveFacts
<1>4. SoundFetches(Settled("first"), n, m) /\ FirstIsOver(Settled("first"))
    BY <1>1, SettledIs DEF LiveFacts
<1> HIDE DEF s
<1>5. SoundCopy(chrome', n, m)
    BY <1>1, <1>2, <1>3, HeaderIs DEF LiveFacts
<1>6. CASE Shows(s, Settled("first")) /\ complete' = TRUE
    BY <1>1, <1>2, <1>3, <1>4, <1>5, <1>6, CopyStep DEF LiveFacts, n, m
<1>7. CASE fetch' = Settled("first") /\ UNCHANGED <<screen, complete>>
    BY <1>1, <1>2, <1>4, <1>5, <1>7, ClientStep DEF LiveFacts, n, m
<1>8. QED
    BY <1>2, <1>6, <1>7

LEMMA RefreshIsSound == ASSUME LiveInv, NEW f \in Fetches, refresh(f) PROVE LiveInv'
<1> DEFINE n == Len(thread)
           m == Len(log)
           s == IF screen.known THEN mergeThreadSnapshots(screen, Fetched(f)) ELSE Fetched(f)
<1>1. LiveFacts(n, m)
    BY FactsOfLive
<1>2. /\ UNCHANGED <<thread, log, unwritten, denied, stopped>> /\ send' \in {send, NotSending}
      /\ chrome' = Header(Fetched(f)) /\ complete' = TRUE /\ Shows(s, Settled(f)) /\ f # "first"
    BY DEF refresh, Landing, SendAfter, serverVars, Refreshes
<1> HIDE DEF n, m
<1>3. SoundCopy(Fetched(f), n, m)
    BY <1>1, FetchedIs DEF LiveFacts
<1>4. SoundCopy(s, n, m)
    BY <1>1, <1>3, MergeIs DEF LiveFacts
<1> HIDE DEF s
<1>5. SoundFetches(Settled(f), n, m) /\ (denied => FirstIsOver(Settled(f)))
    BY <1>1, SettledIs DEF LiveFacts
<1>6. SoundCopy(chrome', n, m)
    BY <1>1, <1>2, <1>3, HeaderIs DEF LiveFacts
<1>7. QED
    BY <1>1, <1>2, <1>4, <1>5, <1>6, CopyStep DEF LiveFacts, n, m

LEMMA RefusedIsSound == ASSUME LiveInv, NEW f \in Fetches, IsRefused(f) PROVE LiveInv'
<1> DEFINE n == Len(thread)
           m == Len(log)
<1>1. LiveFacts(n, m)
    BY FactsOfLive
<1>2. /\ UNCHANGED <<thread, log, unwritten>> /\ send' \in {send, NotSending}
      /\ \/ clearLocalThread(Settled(f))
         \/ f = "first" /\ fetch' = Settled(f) /\ chrome' = Nothing /\ UNCHANGED <<screen, complete, denied, stopped>>
    BY DEF IsRefused, Landing, SendAfter, serverVars
<1> HIDE DEF n, m
<1>3. SoundFetches(Settled(f), n, m) /\ (denied => FirstIsOver(Settled(f)))
    BY <1>1, SettledIs DEF LiveFacts
<1>4. CASE clearLocalThread(Settled(f))
    BY <1>2, <1>3, <1>4, ClearStep DEF n, m
<1>5. CASE fetch' = Settled(f) /\ chrome' = Nothing /\ UNCHANGED <<screen, complete, denied, stopped>>
  <2>1. SoundCopy(Nothing, n, m)
    BY <1>1, NothingIs DEF LiveFacts
  <2>2. SoundSend(send', n, m) /\ HasPlace(send', screen.runs)
    BY <1>1, <1>2, NotSendingIs, PlaceIs DEF LiveFacts
  <2>3. QED
    BY <1>1, <1>2, <1>3, <1>5, <2>1, <2>2, ClientStep DEF LiveFacts, n, m
<1>6. QED
    BY <1>2, <1>4, <1>5

\* A step that shows nothing new and starts or ends requests.
LEMMA QuietStep ==
    ASSUME LiveInv, UNCHANGED <<thread, log, unwritten, screen, complete, denied, stopped, chrome>>,
           SoundFetches(fetch', Len(thread), Len(log)), denied => FirstIsOver(fetch'),
           SoundSend(send', Len(thread), Len(log)), HasPlace(send', screen.runs)
    PROVE  LiveInv'
<1>1. LiveFacts(Len(thread), Len(log))
    BY FactsOfLive
<1>2. QED
    BY <1>1, ClientStep DEF LiveFacts

LEMMA FailureIsSound == ASSUME LiveInv, NEW f \in Fetches, FetchFails(f) PROVE LiveInv'
<1> DEFINE n == Len(thread)
           m == Len(log)
<1>1. LiveFacts(n, m)
    BY FactsOfLive
<1>2. /\ UNCHANGED <<thread, log, unwritten, screen, complete, denied, stopped, chrome>>
      /\ fetch' = Settled(f) /\ send' \in {send, NotSending}
    BY DEF FetchFails, SendAfter, serverVars, screenVars
<1> HIDE DEF n, m
<1>3. SoundFetches(Settled(f), n, m) /\ (denied => FirstIsOver(Settled(f)))
    BY <1>1, SettledIs DEF LiveFacts
<1>4. SoundSend(send', n, m) /\ HasPlace(send', screen.runs)
    BY <1>1, <1>2, NotSendingIs, PlaceIs DEF LiveFacts
<1>5. QED
    BY <1>2, <1>3, <1>4, QuietStep DEF n, m

LEMMA PollIsSound == ASSUME LiveInv, PollStarts PROVE LiveInv'
<1> DEFINE n == Len(thread)
           m == Len(log)
<1>1. LiveFacts(n, m) /\ "poll" \in Fetches
    BY FactsOfLive DEF Fetches
<1>2. /\ UNCHANGED <<thread, log, unwritten, screen, complete, denied, stopped, chrome, send>>
      /\ fetch' \in {fetch, Asks("poll", fetch)}
    BY DEF PollStarts, serverVars, screenVars
<1> HIDE DEF n, m
<1>3. SoundFetches(fetch', n, m) /\ (denied => FirstIsOver(fetch'))
    BY <1>1, <1>2, AsksIs DEF LiveFacts
<1>4. QED
    BY <1>1, <1>2, <1>3, QuietStep DEF LiveFacts, n, m

LEMMA PollAnswerIsSound == ASSUME LiveInv, PollAnswers PROVE LiveInv'
<1> DEFINE n == Len(thread)
           m == Len(log)
<1>1. LiveFacts(n, m) /\ "poll" \in Fetches /\ "polled" \in Fetches
    BY FactsOfLive DEF Fetches, Refreshes
<1>2. SoundFetches(Settled("poll"), n, m) /\ (denied => FirstIsOver(Settled("poll")))
    BY <1>1, SettledIs DEF LiveFacts
<1>3. CASE PollIgnored
  <2>1. /\ UNCHANGED <<thread, log, unwritten, screen, complete, denied, stopped, chrome, send>>
        /\ fetch' = Settled("poll")
    BY <1>3 DEF PollIgnored, Landing, serverVars, screenVars
  <2> HIDE DEF n, m
  <2>2. QED
    BY <1>1, <1>2, <2>1, QuietStep DEF LiveFacts, n, m
<1>4. CASE PollLands
  <2> DEFINE s == mergeThreadSnapshots(screen, Fetched("poll"))
  <2>1. PICK fetches \in {Settled("poll"), Asks("polled", Settled("poll"))} :
          /\ UNCHANGED <<thread, log, unwritten, complete, denied, stopped, chrome, send>>
          /\ Shows(s, fetches)
    BY <1>4 DEF PollLands, Landing, serverVars
  <2> HIDE DEF n, m
  <2>2. SoundCopy(s, n, m)
    BY <1>1, FetchedIs, MergeIs DEF LiveFacts
  <2>3. SoundFetches(fetches, n, m) /\ (denied => FirstIsOver(fetches))
    BY <1>1, <1>2, <2>1, AsksIs DEF LiveFacts
  <2> HIDE DEF s
  <2>4. QED
    BY <1>1, <2>1, <2>2, <2>3, CopyStep DEF LiveFacts, n, m
<1>5. CASE PollRefused
  <2>1. /\ UNCHANGED <<thread, log, unwritten, send>>
        /\ \/ clearLocalThread(Settled("poll"))
           \/ stopped' = TRUE /\ fetch' = Settled("poll") /\ chrome' = Nothing /\ UNCHANGED <<screen, complete, denied>>
    BY <1>5 DEF PollRefused, Landing, serverVars
  <2> HIDE DEF n, m
  <2>2. SoundCopy(Nothing, n, m)
    BY <1>1, NothingIs DEF LiveFacts
  <2>3. CASE clearLocalThread(Settled("poll"))
    BY <1>2, <2>1, <2>3, ClearStep DEF n, m
  <2>4. CASE stopped' = TRUE /\ fetch' = Settled("poll") /\ chrome' = Nothing /\ UNCHANGED <<screen, complete, denied>>
    BY <1>1, <1>2, <2>1, <2>2, <2>4, ClientStep DEF LiveFacts, n, m
  <2>5. QED
    BY <2>1, <2>3, <2>4
<1>6. QED
    BY <1>3, <1>4, <1>5 DEF PollAnswers

LEMMA SendTyped ==
    ASSUME NEW n \in Nat, NEW m \in Nat, SoundSend(send, n, m)
    PROVE  /\ send \in SendRecords /\ send.run \in Nat /\ send.run <= n /\ send.at \in Nat
           /\ SoundCopy(send.before, n, m) /\ send.before \in Snapshots
BY DEF SoundSend, SendRecords

LEMMA MessageIsSound == ASSUME LiveInv, SendMessage PROVE LiveInv'
<1> DEFINE n == Len(thread)
           m == Len(log)
           t == [send EXCEPT !.pc = "waiting"]
<1>1. LiveFacts(n, m)
    BY FactsOfLive
<1>2. /\ UNCHANGED <<thread, log, unwritten, screen, complete, denied, stopped, chrome, fetch>>
      /\ send.pc = "idle" /\ ~Active(screen.runs) /\ send' = t
    BY DEF SendMessage, serverVars, screenVars
<1> HIDE DEF n, m
<1>3. send \in SendRecords /\ send.run = 0 /\ SoundCopy(send.before, n, m)
    BY <1>1, <1>2, SendTyped DEF LiveFacts, SoundSend
<1>4. /\ t \in SendRecords /\ t.pc = "waiting" /\ t.run = 0 /\ t.before = send.before
    BY <1>3 DEF SendRecords
<1> HIDE DEF t
<1>5. SoundSend(t, n, m)
    BY <1>1, <1>3, <1>4 DEF SoundSend, LiveFacts
<1>6. ~HasId(screen.runs, Optimistic)
  <2> SUFFICES ASSUME NEW i \in DOMAIN screen.runs, screen.runs[i].id = Optimistic PROVE FALSE
    BY DEF HasId
  <2>1. screen.runs \in Seq(LiveRun)
    BY <1>1 DEF LiveFacts, SoundScreen, Snapshots
  <2>2. i = Len(screen.runs) /\ screen.runs[i].status # "closed"
    BY <1>1 DEF LiveFacts, SoundScreen
  <2>3. screen.runs # << >>
    OBVIOUS
  <2>4. QED
    BY <1>2, <2>2, <2>3 DEF Active, Last
<1>7. QED
    BY <1>1, <1>2, <1>5, <1>6, PlaceIs, QuietStep DEF LiveFacts, n, m

\* The message appears at once, as a run the server has not made yet.
LEMMA PostIsSound == ASSUME LiveInv, PostMessage PROVE LiveInv'
<1> DEFINE n == Len(thread)
           m == Len(log)
           t == [send EXCEPT !.pc = "posting", !.before = screen]
           run == [id |-> Optimistic, status |-> "pending"]
           s == [screen EXCEPT !.runs = Append(@, run)]
<1>1. LiveFacts(n, m)
    BY FactsOfLive
<1>2. /\ UNCHANGED <<thread, log, unwritten, complete, denied, stopped, chrome>>
      /\ send.pc = "waiting"
      /\ \/ send' = t /\ Shows(s, fetch)
         \/ send' = NotSending /\ UNCHANGED <<screen, fetch>>
    BY DEF PostMessage, Sending, serverVars
<1> HIDE DEF n, m
<1>3. CASE send' = NotSending /\ UNCHANGED <<screen, fetch>>
    BY <1>1, <1>2, <1>3, NotSendingIs, PlaceIs, QuietStep DEF LiveFacts, n, m
<1>4. CASE send' = t /\ Shows(s, fetch)
  <2>1. ~HasId(screen.runs, Optimistic)
    BY <1>1, <1>2 DEF LiveFacts, HasPlace
  <2>2. SoundCopy(screen, n, m)
    BY <1>1, <2>1, ScreenIsCopy DEF LiveFacts
  <2>3. screen \in Snapshots /\ screen.runs \in Seq(LiveRun) /\ Distinct(screen.runs)
    BY <1>1 DEF LiveFacts, SoundScreen, Snapshots
  <2>4. send \in SendRecords /\ send.run = 0
    BY <1>1, <1>2, SendTyped DEF LiveFacts, SoundSend
  <2>5. t \in SendRecords /\ t.pc = "posting" /\ t.run = 0 /\ t.before = screen
    BY <2>3, <2>4 DEF SendRecords
  <2>6. run \in LiveRun /\ run.id = Optimistic /\ run.status # "closed"
    BY DEF LiveRun, Statuses, Optimistic
  <2> HIDE DEF run
  <2> DEFINE more == Append(screen.runs, run)
             k == Len(screen.runs)
  <2>7. /\ more \in Seq(LiveRun) /\ Distinct(more) /\ Len(more) = k + 1 /\ k \in Nat
        /\ DOMAIN more = 1 .. k + 1 /\ DOMAIN screen.runs = 1 .. k
        /\ \A i \in 1 .. k : more[i] = screen.runs[i]
        /\ more[k + 1] = run
    BY <2>1, <2>3, <2>6, AppendIs
  <2>8. s = [known |-> screen.known, runs |-> more, events |-> screen.events, cursor |-> screen.cursor]
    <3>1. s = [screen EXCEPT !.runs = more]
      OBVIOUS
    <3> HIDE DEF s, more
    <3>2. QED
      BY <2>3, <3>1 DEF Snapshots
  <2> HIDE DEF s, t, more, k
  <2>9. SoundSend(t, n, m)
    BY <1>1, <2>2, <2>5 DEF SoundSend, LiveFacts
  <2>10. ASSUME NEW i \in DOMAIN more
         PROVE  /\ more[i].id <= n
                /\ more[i].id = Optimistic => i = Len(more) /\ more[i].status # "closed"
    <3>1. CASE i \in 1 .. k
      BY <1>1, <2>1, <2>7, <3>1 DEF LiveFacts, SoundScreen, HasId
    <3>2. CASE i = k + 1
      BY <1>1, <2>6, <2>7, <3>2 DEF LiveFacts, Optimistic
    <3>3. QED
      BY <2>7, <3>1, <3>2
  <2>11. SoundScreen(s, n, m)
    <3>1. s \in Snapshots /\ s.runs = more /\ s.events = screen.events /\ s.cursor = screen.cursor
      BY <2>3, <2>7, <2>8 DEF Snapshots
    <3>2. SoundEvents(screen.events, screen.cursor, m)
      BY <1>1 DEF LiveFacts, SoundScreen
    <3>3. QED
      BY <2>7, <2>10, <3>1, <3>2 DEF SoundScreen
  <2>12. HasPlace(t, s.runs)
    BY <2>5 DEF HasPlace
  <2>13. screen' = s /\ SoundFetches(fetch', n, m) /\ (denied => FirstIsOver(fetch'))
    BY <1>1, <1>4, ShowsIs DEF LiveFacts
  <2>14. QED
    BY <1>1, <1>2, <1>4, <2>9, <2>11, <2>12, <2>13, ClientStep DEF LiveFacts, n, m
<1>5. QED
    BY <1>2, <1>3, <1>4

\* The run is made: nothing on the screen has its identity.
LEMMA AcceptIsSound == ASSUME LiveInv, MessageAccepted PROVE LiveInv'
<1> DEFINE n == Len(thread)
           m == Len(log)
           t == [send EXCEPT !.run = n + 1]
<1>1. LiveFacts(n, m) /\ log \in Seq(LogEntry) /\ unwritten \in LiveKinds \union {"none"}
    BY FactsOfLive DEF LiveInv, LiveServerInv
<1>2. /\ thread' = Opens /\ send' = t /\ send.pc = "posting"
      /\ UNCHANGED <<log, unwritten, screen, complete, denied, stopped, chrome, fetch>>
    BY DEF MessageAccepted, screenVars
<1>3. Given(thread', n + 1) /\ Len(thread') = n + 1 /\ Len(log') = m
    BY <1>2, OpensIs
<1> HIDE DEF n, m
<1>4. /\ send \in SendRecords /\ SoundCopy(send.before, n, m)
    BY <1>1, SendTyped DEF LiveFacts
<1>5. t \in SendRecords /\ t.pc = "posting" /\ t.run = n + 1 /\ t.before = send.before
    BY <1>1, <1>2, <1>4 DEF SendRecords, LiveFacts
<1> HIDE DEF t
<1>6. /\ SoundScreen(screen, n + 1, m) /\ SoundCopy(chrome, n + 1, m)
      /\ SoundFetches(fetch, n + 1, m) /\ SoundCopy(send.before, n + 1, m)
  <2>1. n \in Nat /\ m \in Nat /\ n + 1 \in Nat /\ n <= n + 1 /\ m <= m
    BY <1>1 DEF LiveFacts
  <2>2. QED
    BY <1>1, <1>4, <2>1, SoundGrows DEF LiveFacts
<1>7. SoundSend(t, n + 1, m)
    BY <1>1, <1>5, <1>6 DEF SoundSend, LiveFacts
<1>8. HasPlace(t, screen.runs)
  <2>1. ~HasId(screen.runs, n + 1)
    <3> SUFFICES ASSUME NEW i \in DOMAIN screen.runs, screen.runs[i].id = n + 1 PROVE FALSE
      BY DEF HasId
    <3>1. n + 1 <= n /\ n \in Nat
      BY <1>1 DEF LiveFacts, SoundScreen
    <3>2. QED
      BY <3>1
  <2>2. QED
    BY <1>5, <2>1 DEF HasPlace
<1>9. QED
    BY <1>1, <1>2, <1>3, <1>6, <1>7, <1>8 DEF LiveInv, LiveServerInv, LiveScreenInv, LiveFacts

\* The screen of before the message is put back, even after clearLocalThread.
LEMMA RefusalIsSound == ASSUME LiveInv, MessageRefused \/ RefusalRead \/ AnswerLost PROVE LiveInv'
<1> DEFINE n == Len(thread)
           m == Len(log)
<1>1. LiveFacts(n, m)
    BY FactsOfLive
<1>2. UNCHANGED <<thread, log, unwritten>>
    BY DEF MessageRefused, RefusalRead, AnswerLost, Sending, serverVars
<1> HIDE DEF n, m
<1>3. /\ SoundCopy(send.before, n, m) /\ SoundCopy(Nothing, n, m)
      /\ send \in SendRecords /\ n \in Nat
    BY <1>1, SendTyped, NothingIs DEF LiveFacts
<1>4. CASE AnswerLost
  <2>1. send' = NotSending /\ Shows(send.before, fetch) /\ UNCHANGED <<complete, denied, stopped, chrome>>
    BY <1>4 DEF AnswerLost, Sending
  <2>2. QED
    BY <1>1, <1>2, <1>3, <2>1, CopyStep DEF LiveFacts, n, m
<1>5. CASE MessageRefused
  <2>1. /\ send.run = 0 /\ Shows(send.before, fetch) /\ UNCHANGED <<complete, denied, stopped, chrome>>
        /\ \E barred \in {FALSE, ~access} : send' = [send EXCEPT !.pc = "refused", !.barred = barred]
    BY <1>5 DEF MessageRefused, Sending
  <2>2. PICK barred \in BOOLEAN : send' = [send EXCEPT !.pc = "refused", !.barred = barred]
    BY <2>1
  <2>3. send' \in SendRecords /\ send'.pc = "refused" /\ send'.run = 0 /\ send'.before = send.before
    BY <1>3, <2>1, <2>2 DEF SendRecords
  <2>4. SoundSend(send', n, m)
    BY <1>3, <2>3 DEF SoundSend
  <2>5. QED
    BY <1>1, <1>2, <1>3, <2>1, <2>4, CopyStep DEF LiveFacts, n, m
<1>6. CASE RefusalRead
  <2>1. CASE send.barred
    <3>1. /\ send' = NotSending /\ Shows(send.before, Over({"first"}, fetch))
          /\ complete' = FALSE /\ denied' = TRUE /\ stopped' = TRUE /\ chrome' = Nothing
      BY <1>6, <2>1 DEF RefusalRead
    <3>2. SoundFetches(Over({"first"}, fetch), n, m) /\ FirstIsOver(Over({"first"}, fetch))
      BY <1>1, OverIs DEF LiveFacts
    <3>3. QED
      BY <1>1, <1>2, <1>3, <3>1, <3>2, CopyStep DEF LiveFacts, n, m
  <2>2. CASE ~send.barred
    <3>1. send' = NotSending /\ Shows(send.before, fetch) /\ UNCHANGED <<complete, denied, stopped, chrome>>
      BY <1>6, <2>2 DEF RefusalRead
    <3>2. QED
      BY <1>1, <1>2, <1>3, <3>1, CopyStep DEF LiveFacts, n, m
  <2>3. QED
    BY <2>1, <2>2
<1>7. QED
    BY <1>4, <1>5, <1>6

LEMMA StreamIsSound == ASSUME LiveInv, StreamOpens \/ StreamDone \/ StreamBreaks PROVE LiveInv'
<1> DEFINE n == Len(thread)
           m == Len(log)
           t == [send EXCEPT !.pc = "streaming", !.before = Nothing]
           r == [NotSending EXCEPT !.pc = "refreshing"]
<1>1. LiveFacts(n, m) /\ "sent" \in Fetches
    BY FactsOfLive DEF Fetches, Refreshes
<1>2. UNCHANGED <<thread, log, unwritten, screen, complete, denied, stopped, chrome>>
    BY DEF StreamOpens, StreamDone, StreamBreaks, Sending, serverVars
<1>3. SoundCopy(Nothing, n, m) /\ SoundSend(NotSending, n, m)
    BY <1>1, NothingIs, NotSendingIs DEF LiveFacts
<1>4. CASE StreamOpens
  <2>1. send' = t /\ fetch' = fetch /\ send.run # 0 /\ send.pc = "posting"
    BY <1>4 DEF StreamOpens
  <2>2. send \in SendRecords /\ Nothing \in Snapshots
    BY <1>1, <1>3, SendTyped DEF LiveFacts, SoundCopy
  <2>3. t \in SendRecords /\ t.pc = "streaming" /\ t.run = send.run /\ t.meta = send.meta /\ t.before = Nothing
    BY <2>2 DEF SendRecords
  <2> HIDE DEF t, n, m
  <2>4. SoundSend(t, n, m)
    BY <1>1, <1>3, <2>1, <2>3 DEF SoundSend, LiveFacts
  <2>5. HasPlace(t, screen.runs)
    BY <1>1, <2>3 DEF HasPlace, LiveFacts
  <2>6. QED
    BY <1>1, <1>2, <2>1, <2>4, <2>5, QuietStep DEF LiveFacts, n, m
<1>5. CASE StreamDone
  <2>1. send' = r /\ fetch' = Asks("sent", fetch)
    BY <1>5 DEF StreamDone
  <2>2. r.pc = "refreshing" /\ r.run = 0 /\ r.before = Nothing /\ r \in SendRecords
    BY <1>3 DEF NotSending, SendRecords, SoundSend
  <2> HIDE DEF r, n, m
  <2>3. SoundSend(r, n, m) /\ HasPlace(r, screen.runs)
    BY <1>1, <1>3, <2>2 DEF SoundSend, HasPlace, LiveFacts
  <2>4. SoundFetches(Asks("sent", fetch), n, m) /\ (denied => FirstIsOver(Asks("sent", fetch)))
    BY <1>1, AsksIs DEF LiveFacts
  <2>5. QED
    BY <1>2, <2>1, <2>3, <2>4, QuietStep DEF n, m
<1>6. CASE StreamBreaks
  <2>1. send' = NotSending /\ fetch' = fetch
    BY <1>6 DEF StreamBreaks
  <2> HIDE DEF n, m
  <2>2. QED
    BY <1>1, <1>2, <1>3, <2>1, PlaceIs, QuietStep DEF LiveFacts, n, m
<1>7. QED
    BY <1>4, <1>5, <1>6

\* The optimistic run becomes the run of the server, which the screen does not have.
LEMMA MetaIsSound == ASSUME LiveInv, onMeta PROVE LiveInv'
<1> DEFINE n == Len(thread)
           m == Len(log)
           t == [send EXCEPT !.meta = TRUE]
           runs == Adopted(screen.runs, send.run)
           s == [screen EXCEPT !.runs = runs]
<1>1. LiveFacts(n, m)
    BY FactsOfLive
<1>2. /\ UNCHANGED <<thread, log, unwritten, complete, denied, stopped, chrome>>
      /\ send.pc = "streaming" /\ ~send.meta /\ send' = t /\ Shows(s, fetch)
    BY DEF onMeta, Sending, serverVars
<1> HIDE DEF n, m
<1>3. /\ send \in SendRecords /\ send.run \in Nat /\ send.run <= n /\ send.run # 0
      /\ SoundCopy(send.before, n, m)
    BY <1>1, <1>2, SendTyped DEF LiveFacts, SoundSend
<1>4. t \in SendRecords /\ t.pc = "streaming" /\ t.run = send.run /\ t.meta = TRUE /\ t.before = send.before
    BY <1>2, <1>3 DEF SendRecords
<1>5. screen \in Snapshots /\ screen.runs \in Seq(LiveRun)
    BY <1>1 DEF LiveFacts, SoundScreen, Snapshots
<1>6. /\ runs \in Seq(LiveRun) /\ DOMAIN runs = DOMAIN screen.runs
      /\ \A i \in DOMAIN runs :
            /\ screen.runs[i].id = Optimistic => runs[i].id = send.run
            /\ screen.runs[i].id # Optimistic => runs[i] = screen.runs[i]
    BY <1>3, <1>5, AdoptedIs
<1> HIDE DEF runs, t
<1>7. SoundSend(t, n, m)
    BY <1>1, <1>3, <1>4 DEF SoundSend, LiveFacts
<1>8. Distinct(runs)
  <2> SUFFICES ASSUME NEW i \in DOMAIN runs, NEW j \in DOMAIN runs, runs[i].id = runs[j].id PROVE i = j
    BY DEF Distinct
  <2>1. Distinct(screen.runs)
    BY <1>1 DEF LiveFacts, SoundScreen
  <2>2. HasId(screen.runs, Optimistic) => ~HasId(screen.runs, send.run)
    BY <1>1, <1>2, <1>3 DEF LiveFacts, HasPlace
  <2>3. CASE screen.runs[i].id = Optimistic /\ screen.runs[j].id = Optimistic
    BY <1>6, <2>1, <2>3 DEF Distinct
  <2>4. CASE screen.runs[i].id # Optimistic /\ screen.runs[j].id # Optimistic
    BY <1>6, <2>1, <2>4 DEF Distinct
  <2>5. CASE screen.runs[i].id = Optimistic /\ screen.runs[j].id # Optimistic
    BY <1>6, <2>2, <2>5 DEF HasId
  <2>6. CASE screen.runs[i].id # Optimistic /\ screen.runs[j].id = Optimistic
    BY <1>6, <2>2, <2>6 DEF HasId
  <2>7. QED
    BY <2>3, <2>4, <2>5, <2>6
<1>9. \A i \in DOMAIN runs : runs[i].id # Optimistic /\ runs[i].id <= n
  <2>1. \A i \in DOMAIN screen.runs : screen.runs[i].id <= n
    BY <1>1 DEF LiveFacts, SoundScreen
  <2>2. QED
    BY <1>3, <1>6, <2>1 DEF Optimistic
<1>10. s \in Snapshots /\ s.runs = runs /\ s.events = screen.events /\ s.cursor = screen.cursor
    BY <1>5, <1>6 DEF Snapshots
<1> HIDE DEF s
<1>11. SoundScreen(s, n, m)
  <2>1. SoundEvents(screen.events, screen.cursor, m)
    BY <1>1 DEF LiveFacts, SoundScreen
  <2>2. QED
    BY <1>8, <1>9, <1>10, <2>1 DEF SoundScreen
<1>12. ~HasId(s.runs, Optimistic)
    BY <1>9, <1>10 DEF HasId
<1>13. SoundCopy(s, n, m) /\ HasPlace(t, s.runs)
    BY <1>1, <1>11, <1>12, ScreenIsCopy, PlaceIs DEF LiveFacts
<1>14. screen' = s /\ SoundFetches(fetch', n, m) /\ (denied => FirstIsOver(fetch'))
    BY <1>1, <1>2, ShowsIs DEF LiveFacts
<1>15. QED
    BY <1>1, <1>2, <1>7, <1>11, <1>13, <1>14, ClientStep DEF LiveFacts, n, m

LEMMA EventIsSound == ASSUME LiveInv, onEvent PROVE LiveInv'
<1> DEFINE n == Len(thread)
           m == Len(log)
           c == Min(Streamable)
           t == [send EXCEPT !.at = c]
           s == IF screen.known THEN applyProductEventToSnapshot(screen, c) ELSE screen
<1>1. LiveFacts(n, m)
    BY FactsOfLive
<1>2. /\ UNCHANGED <<thread, log, unwritten, complete, denied, stopped, chrome>>
      /\ send.pc = "streaming" /\ Streamable # {} /\ send' = t /\ Shows(s, fetch)
    BY DEF onEvent, Sending, serverVars
<1>3. /\ send \in SendRecords /\ send.at \in Nat /\ send.run # 0 /\ SoundCopy(send.before, n, m)
    BY <1>1, <1>2, SendTyped DEF LiveFacts, SoundSend
<1>4. c \in 1 .. m /\ log[c].run = send.run
  <2>1. Streamable \subseteq 1 .. m /\ m \in Nat
    BY <1>1, <1>3 DEF Streamable, LiveFacts
  <2>2. IsFiniteSet(Streamable)
    <3>1. IsFiniteSet(1 .. m)
      BY <2>1, FS_Interval
    <3> HIDE DEF m
    <3>2. QED
      BY <2>1, <3>1, FS_Subset
  <2>3. Streamable \in SUBSET Nat
    BY <2>1
  <2>4. c \in Streamable
    BY <1>2, <2>2, <2>3, LeastIs
  <2>5. QED
    BY <2>1, <2>4 DEF Streamable
<1> HIDE DEF n, m, c
<1>5. /\ t \in SendRecords /\ t.pc = send.pc /\ t.run = send.run /\ t.meta = send.meta
      /\ t.before = send.before
    BY <1>1, <1>3, <1>4 DEF SendRecords, LiveFacts
<1> HIDE DEF t
<1>6. SoundSend(t, n, m)
    BY <1>1, <1>3, <1>5 DEF SoundSend, LiveFacts
<1>7. SoundScreen(s, n, m) /\ Alike(s.runs, screen.runs)
    BY <1>1, <1>3, <1>4, ApplyIs DEF LiveFacts, Optimistic, Alike
<1> HIDE DEF s
<1>8. HasPlace(t, s.runs)
  <2>1. HasPlace(t, screen.runs)
    BY <1>1, <1>5 DEF HasPlace, LiveFacts
  <2>2. QED
    BY <1>7, <2>1, PlaceIs
<1>9. screen' = s /\ SoundFetches(fetch', n, m) /\ (denied => FirstIsOver(fetch'))
    BY <1>1, <1>2, ShowsIs DEF LiveFacts
<1>10. QED
    BY <1>1, <1>2, <1>6, <1>7, <1>8, <1>9, ClientStep DEF LiveFacts, n, m

LEMMA SendIsSound == ASSUME LiveInv, SendStep PROVE LiveInv'
BY PostIsSound, AcceptIsSound, RefusalIsSound, StreamIsSound, MetaIsSound, EventIsSound DEF SendStep

LEMMA UserIsSound ==
    ASSUME LiveInv, UserStep \/ RequestServed \/ RequestRefused \/ RequestAnswered
    PROVE  LiveInv'
<1> DEFINE n == Len(thread)
           m == Len(log)
<1>1. LiveFacts(n, m) /\ "asked" \in Fetches /\ "running" \in Statuses
    BY FactsOfLive DEF Fetches, Refreshes, Statuses
<1>2. CASE UserStep \/ RequestRefused
  <2>1. UNCHANGED <<thread, log, unwritten, screen, complete, denied, stopped, chrome, fetch, send>>
    BY <1>2 DEF UserStep, retry, respondApproval, UserAsks, RequestRefused, serverVars, screenVars
  <2> HIDE DEF n, m
  <2>2. QED
    BY <1>1, <2>1, QuietStep DEF LiveFacts, n, m
<1>3. CASE RequestServed
  <2>1. /\ thread' = Opens \/ thread' = Sets(thread, Len(thread), "running")
        /\ UNCHANGED <<log, unwritten, screenVars, fetch, send>>
    BY <1>3 DEF RequestServed
  <2>2. Given(thread, Len(thread))' /\ Len(thread) <= Len(thread')
    <3>1. Len(thread) \in Nat
      BY CountsOfLive
    <3>2. CASE thread' = Opens
      BY <3>1, <3>2, OpensIs
    <3>3. CASE thread' = Sets(thread, Len(thread), "running")
      BY <1>1, <3>1, <3>3, SetsThread
    <3>4. QED
      BY <2>1, <3>2, <3>3
  <2>3. log \in Seq(LogEntry) /\ unwritten \in LiveKinds \union {"none"} /\ Len(log) <= Len(log')
    BY <2>1, CountsOfLive DEF LiveInv, LiveServerInv
  <2>4. QED
    BY <2>1, <2>2, <2>3, GrowthStep
<1>4. CASE RequestAnswered
  <2> DEFINE runs == Sets(screen.runs, Last(screen.runs).id, "running")
             s == IF user = "approved" /\ screen.runs # <<>> THEN [screen EXCEPT !.runs = runs] ELSE screen
  <2>1. /\ UNCHANGED <<thread, log, unwritten, complete, denied, stopped, chrome, send>>
        /\ Shows(s, Asks("asked", fetch))
    BY <1>4 DEF RequestAnswered, serverVars
  <2> HIDE DEF n, m
  <2>2. screen \in Snapshots /\ screen.runs \in Seq(LiveRun)
    BY <1>1 DEF LiveFacts, SoundScreen, Snapshots
  <2>3. /\ runs \in Seq(LiveRun) /\ Len(runs) = Len(screen.runs) /\ Alike(runs, screen.runs)
        /\ \A i \in DOMAIN screen.runs : runs[i].status \in {screen.runs[i].status, "running"}
    BY <1>1, <2>2, SetsIs
  <2> HIDE DEF runs
  <2>4. \A i \in DOMAIN runs : runs[i].id = Optimistic => runs[i].status # "closed"
    <3>1. \A i \in DOMAIN screen.runs : screen.runs[i].id = Optimistic => screen.runs[i].status # "closed"
      BY <1>1 DEF LiveFacts, SoundScreen
    <3>2. QED
      BY <2>3, <3>1 DEF Alike
  <2>5. SoundScreen([screen EXCEPT !.runs = runs], n, m) /\ [screen EXCEPT !.runs = runs].runs = runs
    BY <1>1, <2>2, <2>3, <2>4, TouchedIs DEF LiveFacts, Snapshots
  <2>6. SoundScreen(s, n, m) /\ Alike(s.runs, screen.runs)
    BY <1>1, <2>3, <2>5 DEF LiveFacts, Alike
  <2> HIDE DEF s
  <2>7. SoundFetches(Asks("asked", fetch), n, m) /\ (denied => FirstIsOver(Asks("asked", fetch)))
    BY <1>1, AsksIs DEF LiveFacts
  <2>8. screen' = s /\ SoundFetches(fetch', n, m) /\ (denied => FirstIsOver(fetch'))
    BY <1>1, <2>1, <2>7, ShowsIs DEF LiveFacts
  <2>9. HasPlace(send, s.runs)
    BY <1>1, <2>6, PlaceIs DEF LiveFacts
  <2>10. QED
    BY <1>1, <2>1, <2>6, <2>8, <2>9, ClientStep DEF LiveFacts, n, m
<1>5. QED
    BY <1>2, <1>3, <1>4

\* Nothing is in flight.
LEMMA NoneInFlight ==
    ASSUME NEW n \in Nat, NEW m \in Nat
    PROVE  SoundFetches([f \in Fetches |-> NoFetch], n, m)
BY IdleIsSound DEF SoundFetches, NoFetch

LEMMA ReopenIsSound == ASSUME LiveInv, Reopen PROVE LiveInv'
<1> DEFINE n == Len(thread)
           m == Len(log)
           none == [f \in Fetches |-> NoFetch]
<1>1. LiveFacts(n, m) /\ "first" \in Fetches
    BY FactsOfLive DEF Fetches
<1>2. /\ UNCHANGED <<thread, log, unwritten, chrome>> /\ screen' \in {screen, Nothing, chrome}
      /\ complete' \in BOOLEAN /\ denied' = FALSE /\ stopped' = FALSE
      /\ fetch' = Asks("first", none) /\ send' = NotSending
    BY DEF Reopen, serverVars
<1> HIDE DEF n, m
<1>3. SoundFetches(none, n, m)
    BY <1>1, NoneInFlight DEF LiveFacts
<1> HIDE DEF none
<1>4. SoundFetches(fetch', n, m)
    BY <1>1, <1>2, <1>3, AsksIs DEF LiveFacts
<1>5. SoundScreen(screen', n, m)
    BY <1>1, <1>2, NothingIs, CopyIsShown DEF LiveFacts
<1>6. SoundSend(send', n, m) /\ HasPlace(send', screen'.runs)
    BY <1>1, <1>2, NotSendingIs, PlaceIs DEF LiveFacts
<1>7. QED
    BY <1>1, <1>2, <1>4, <1>5, <1>6, ClientStep DEF LiveFacts, n, m

LEMMA LiveStarts == LiveInit => LiveInv
<1> SUFFICES ASSUME LiveInit PROVE LiveInv
    OBVIOUS
<1> DEFINE run == [id |-> 1, status |-> "closed"]
           entry == [run |-> 1, kind |-> "end"]
           none == [f \in Fetches |-> NoFetch]
<1>1. thread = <<run>> /\ log = <<entry>> /\ unwritten = "none"
    BY DEF LiveInit
<1>2. run \in LiveRun /\ run.id = 1 /\ entry \in LogEntry
    BY DEF LiveRun, LogEntry, LiveKinds, Statuses
<1> HIDE DEF run, entry
<1>3. thread \in Seq(LiveRun) /\ Len(thread) = 1 /\ DOMAIN thread = {1} /\ thread[1].id = 1
    BY <1>1, <1>2
<1>4. Given(thread, Len(thread))
    BY <1>3 DEF Given, Distinct
<1>5. log \in Seq(LogEntry) /\ Len(log) \in Nat
    BY <1>1, <1>2
<1>6. SoundFetches(fetch, 1, Len(log))
  <2>1. SoundFetches(none, 1, Len(log)) /\ "first" \in Fetches
    BY <1>5, NoneInFlight DEF Fetches
  <2>2. fetch = Asks("first", none)
    <3>1. Asks("first", none) = [none EXCEPT !["first"] = [NoFetch EXCEPT !.stage = "asked"]]
      BY DEF Asks
    <3>2. fetch = [f \in Fetches |-> IF f = "first" THEN [NoFetch EXCEPT !.stage = "asked"] ELSE NoFetch]
      BY DEF LiveInit
    <3>3. QED
      BY <2>1, <3>1, <3>2
  <2> HIDE DEF none
  <2>3. QED
    BY <1>5, <2>1, <2>2, AsksIs
<1>7. screen = Nothing /\ chrome = Nothing /\ complete = FALSE /\ denied = FALSE /\ stopped = FALSE /\ send = NotSending
    BY DEF LiveInit
<1>8. /\ SoundCopy(Nothing, 1, Len(log)) /\ SoundScreen(Nothing, 1, Len(log))
      /\ SoundSend(NotSending, 1, Len(log)) /\ HasPlace(NotSending, Nothing.runs)
    BY <1>5, NothingIs, CopyIsShown, NotSendingIs, PlaceIs
<1>9. QED
    BY <1>1, <1>3, <1>4, <1>5, <1>6, <1>7, <1>8 DEF LiveInv, LiveServerInv, LiveScreenInv

LEMMA LiveStep == LiveInv /\ [LiveNext]_liveVars => LiveInv'
<1> SUFFICES ASSUME LiveInv, [LiveNext]_liveVars PROVE LiveInv'
    OBVIOUS
<1>1. ASSUME NEW f \in Fetches, Answers(f) PROVE LiveInv'
    BY <1>1, ReadingIsSound, RefreshIsSound, RefusedIsSound, FirstIsSound, PollAnswerIsSound DEF Answers
<1>2. CASE UNCHANGED liveVars
    BY <1>2 DEF LiveInv, LiveServerInv, LiveScreenInv, liveVars, serverVars, screenVars
<1>3. QED
    BY <1>1, <1>2, ServerIsSound, FailureIsSound, PollIsSound, MessageIsSound, SendIsSound, UserIsSound,
       ReopenIsSound DEF LiveNext

LEMMA LiveShownOnce == ASSUME LiveInv PROVE ShownOnce
<1>1. SoundScreen(screen, Len(thread), Len(log)) /\ screen.events \in Seq(Nat)
    BY DEF LiveInv, LiveScreenInv, SoundScreen, Snapshots
<1>2. Distinct(screen.runs) /\ Increasing(screen.events)
      /\ \A i \in DOMAIN screen.events : screen.events[i] \in 1 .. screen.cursor
    BY <1>1 DEF SoundScreen, SoundEvents
<1>3. ASSUME screen.events # << >>
      PROVE  Last(screen.events) <= screen.cursor
  <2>1. Len(screen.events) \in DOMAIN screen.events
    BY <1>1, <1>3
  <2>2. QED
    BY <1>2, <2>1 DEF Last
<1>4. QED
    BY <1>2, <1>3 DEF ShownOnce, Distinct

-----------------------------------------------------------------------------
(* A refusal *)

Returns ==
    \/ \E f \in Refreshes : fetch[f].stage = "answered" /\ fetch'[f].stage = "idle"
    \/ send.pc \in {"posting", "refused"} /\ screen' = send.before

LEMMA NothingIsUnknown == Nothing.known = FALSE
BY DEF Nothing

LEMMA AnswersStayRefused ==
    ASSUME LiveInv, NEW f \in Fetches, Answers(f), denied', screen'.known, ~(denied /\ screen.known)
    PROVE  Returns
<1>1. LiveFacts(Len(thread), Len(log))
    BY FactsOfLive
<1>2. CASE getThreadSnapshot(f)
    BY <1>2 DEF getThreadSnapshot, Reads, screenVars
<1>3. CASE refresh(f)
  <2>1. f \in Refreshes /\ fetch[f].stage = "answered"
    BY <1>3 DEF refresh, Landing
  <2>2. fetch'[f].stage = Settled(f)[f].stage
    <3>1. SoundFetches(Settled(f), Len(thread), Len(log))
      BY <1>1, SettledIs DEF LiveFacts
    <3>2. PICK s : Shows(s, Settled(f))
      BY <1>3 DEF refresh
    <3>3. QED
      BY <1>1, <3>1, <3>2, ShowsIs DEF LiveFacts
  <2>3. Settled(f)[f].stage = "idle"
    BY <1>1, SettledIs DEF LiveFacts
  <2>4. QED
    BY <2>1, <2>2, <2>3 DEF Returns
<1>4. CASE IsRefused(f)
    BY <1>4, NothingIsUnknown DEF IsRefused, clearLocalThread, Shows
<1>5. CASE FirstLands
  <2>0. denied' = denied /\ (~fetch["first"].live => screen' = screen)
    BY <1>5 DEF FirstLands
  <2>1. fetch["first"].stage = "answered" /\ fetch["first"].live /\ denied
    BY <1>5, <2>0 DEF FirstLands, Landing
  <2>2. FirstIsOver(fetch)
    BY <1>1, <2>1 DEF LiveFacts
  <2>3. QED
    BY <2>1, <2>2 DEF FirstIsOver
<1>6. CASE PollAnswers
    BY <1>6, NothingIsUnknown
       DEF PollAnswers, PollIgnored, PollLands, PollRefused, Ignored, clearLocalThread, Shows, screenVars
<1>7. QED
    BY <1>2, <1>3, <1>4, <1>5, <1>6 DEF Answers

LEMMA SendingStaysRefused ==
    ASSUME LiveInv, SendStep, denied', screen'.known, ~(denied /\ screen.known)
    PROVE  Returns
<1>1. LiveFacts(Len(thread), Len(log))
    BY FactsOfLive
<1>2. screen \in Snapshots
    BY <1>1 DEF LiveFacts, SoundScreen
<1>3. CASE MessageRefused \/ RefusalRead \/ AnswerLost
  <2>1. send.pc \in {"posting", "refused"} /\ screen' = send.before
    BY <1>3 DEF MessageRefused, RefusalRead, AnswerLost, Shows
  <2>2. QED
    BY <2>1 DEF Returns
<1>4. CASE PostMessage
  <2>1. denied' = denied /\ (~screen.known => screen' = screen)
    BY <1>4 DEF PostMessage, Sending
  <2>2. QED
    BY <2>1
<1>5. CASE MessageAccepted \/ StreamOpens \/ StreamDone \/ StreamBreaks
    BY <1>5 DEF MessageAccepted, StreamOpens, StreamDone, StreamBreaks, Sending, screenVars
<1>6. CASE onMeta
  <2>1. screen' = [screen EXCEPT !.runs = Adopted(screen.runs, send.run)] /\ denied' = denied
    BY <1>6 DEF onMeta, Shows, Sending
  <2>2. QED
    BY <1>2, <2>1 DEF Snapshots
<1>7. CASE onEvent
    BY <1>7 DEF onEvent, Shows, Sending
<1>8. QED
    BY <1>3, <1>4, <1>5, <1>6, <1>7 DEF SendStep

LEMMA LiveStaysRefused ==
    ASSUME LiveInv, LiveNext, denied', screen'.known, ~(denied /\ screen.known)
    PROVE  Returns
<1>1. screen \in Snapshots
    BY DEF LiveInv, LiveScreenInv, SoundScreen
<1>2. CASE ServerStep
    BY <1>2 DEF ServerStep, SendElsewhere, RunStarts, RunEmits, StatusFollows, AnsweredElsewhere,
                RunClosesSilently, AccessEnds, KeepsClient, screenVars
<1>3. ASSUME NEW f \in Fetches, FetchFails(f) PROVE Returns
    BY <1>3 DEF FetchFails, screenVars
<1>4. CASE PollStarts \/ SendMessage \/ UserStep \/ RequestServed \/ RequestRefused
    BY <1>4 DEF PollStarts, SendMessage, UserStep, retry, respondApproval, UserAsks, RequestServed,
                RequestRefused, screenVars
<1>5. CASE RequestAnswered
  <2>0. denied' = denied
    BY <1>5 DEF RequestAnswered
  <2>1. \/ screen' = screen
        \/ screen' = [screen EXCEPT !.runs = Sets(@, Last(@).id, "running")]
    BY <1>5 DEF RequestAnswered, Shows
  <2>2. QED
    BY <1>1, <2>0, <2>1 DEF Snapshots
<1>6. CASE Reopen
    BY <1>6 DEF Reopen
<1>7. QED
    BY <1>2, <1>3, <1>4, <1>5, <1>6, AnswersStayRefused, SendingStaysRefused DEF LiveNext

-----------------------------------------------------------------------------

\* Whatever snapshots, events, messages and visits cross, the screen of a conversation shows
\* no run and no event twice, the events in order (mergeThreadSnapshots, onMeta,
\* applyProductEventToSnapshot), for any number of runs, events, acts and failures.
THEOREM ScreenShowsOnce == LiveSpec => []ShownOnce
<1>1. QED
    BY LiveStarts, LiveStep, LiveShownOnce, PTL DEF LiveSpec

\* A refusal leaves nothing on the screen, and no poll, no first snapshot and no event
\* brings the conversation back; a refresh that was in flight does, and so does a message
\* that fails, even when its own refusal is what bars the conversation (use-live-thread.ts).
THEOREM RefusalIsKept == LiveSpec => RefusalStays
<1>1. LiveInv /\ LiveInv' /\ [LiveNext]_liveVars =>
        [denied' /\ screen'.known /\ ~(denied /\ screen.known)
            => \/ \E f \in Refreshes : fetch[f].stage = "answered" /\ fetch'[f].stage = "idle"
               \/ send.pc \in {"posting", "refused"} /\ screen' = send.before]_liveVars
    BY LiveStaysRefused DEF Returns
<1>2. QED
    BY <1>1, LiveStarts, LiveStep, PTL DEF LiveSpec, RefusalStays
=============================================================================
