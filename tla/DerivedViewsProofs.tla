------------------------- MODULE DerivedViewsProofs -------------------------
(***************************************************************************)
(* Theorems about DerivedViews: no memory leaves the queue of its session  *)
(* without a digest, and one row speaks for a domain and for the user, for *)
(* every set of memories, sessions, processes and verdicts.                *)
(***************************************************************************)
EXTENDS DerivedViews, FiniteSetTheorems, SequenceTheorems, WellFoundedInduction, TLAPS

-----------------------------------------------------------------------------
(* Numbers and finite sets *)

\* Some numbers have a least one.
LEMMA LeastIsOne ==
    ASSUME NEW S \in SUBSET Nat, S # {}
    PROVE  Least(S) \in S /\ \A n \in S : Least(S) <= n
<1>1. \E i \in S : \A j \in S : ~ (<<j, i>> \in OpToRel(<, Nat))
  BY NatLessThanWellFounded, WFMin
<1>2. \A i, j \in Nat : j < i => <<j, i>> \in OpToRel(<, Nat)
  <2>1. OpToRel(<, Nat) = {ss \in Nat \X Nat : ss[1] < ss[2]}
    BY Zenon DEF OpToRel
  <2> QED
    BY <2>1
<1>3. \E i \in S : \A j \in S : ~ (j < i)
  BY <1>1, <1>2
<1>4. \E i \in S : \A j \in S : i <= j
  BY <1>3
<1> QED
  BY <1>4 DEF Least

\* Finitely many numbers have a greatest one: the one that the fewest exceed.
LEMMA GreatestExists ==
    ASSUME NEW S \in SUBSET Nat, S # {}, IsFiniteSet(S)
    PROVE  \E m \in S : {n \in S : n > m} = {}
<1> DEFINE above(m) == {n \in S : n > m}
           sizes == {Cardinality(above(m)) : m \in S}
<1>1. \A m \in S : IsFiniteSet(above(m)) /\ Cardinality(above(m)) \in Nat
  BY FS_Subset, FS_CardinalityType
<1>2. sizes \in SUBSET Nat /\ sizes # {}
  BY <1>1
<1>3. Least(sizes) \in sizes /\ \A c \in sizes : Least(sizes) <= c
  <2> HIDE DEF sizes
  <2> QED
    BY <1>2, LeastIsOne
<1>4. PICK m \in S : \A k \in S : Cardinality(above(m)) <= Cardinality(above(k))
  <2> HIDE DEF above
  <2>1. PICK m \in S : Least(sizes) = Cardinality(above(m))
    BY <1>3
  <2>2. \A k \in S : Cardinality(above(k)) \in sizes
    OBVIOUS
  <2> HIDE DEF sizes
  <2>3. \A k \in S : Cardinality(above(m)) <= Cardinality(above(k))
    BY <1>3, <2>1, <2>2
  <2> QED
    BY <2>3
<1>5. ASSUME NEW k \in above(m)
      PROVE  FALSE
  <2>1. above(k) \subseteq above(m) \ {k} /\ k \in S
    <3>1. k \in S /\ k \in Nat /\ m \in Nat /\ k > m
      BY <1>5
    <3>2. \A n \in S : n > k => n \in Nat /\ n > m /\ n # k
      BY <3>1
    <3> QED
      BY <3>1, <3>2
  <2>2. IsFiniteSet(above(m) \ {k}) /\ Cardinality(above(m) \ {k}) = Cardinality(above(m)) - 1
    BY <1>1, <1>5, FS_RemoveElement
  <2>3. Cardinality(above(k)) <= Cardinality(above(m)) - 1
    <3> HIDE DEF above
    <3> QED
      BY <2>1, <2>2, FS_Subset
  <2> HIDE DEF above
  <2> QED
    BY <1>1, <1>4, <2>1, <2>3
<1> QED
  BY <1>5

\* A set without two elements has at most one.
LEMMA AtMostOne ==
    ASSUME NEW S, \A x, y \in S : x = y
    PROVE  Cardinality(S) <= 1
<1>1. CASE S = {}
  BY <1>1, FS_EmptySet
<1>2. CASE S # {}
  <2>1. PICK x : S = {x}
    BY <1>2
  <2> QED
    BY <2>1, FS_Singleton
<1> QED
  BY <1>1, <1>2

-----------------------------------------------------------------------------
(* SessionDigest: types *)

Queue == Seq(Session) \ {<<>>}
Place ==
    {Idle} \cup [step : {"list", "collect"}, todo : Queue]
           \cup [step : {"ask"}, todo : Queue, prompt : SUBSET Memory]
           \cup [step : {"mark"}, todo : Queue, marks : SUBSET Memory]

DigestTypeOK ==
    /\ stored \subseteq Memory /\ gone \subseteq Memory /\ bit \subseteq stored
    /\ view \in [Session -> SUBSET Memory]
    /\ run \in [Proc -> Place]

\* The sessions with unconsumed memories can be told apart, and so put in order, by the
\* first of these.
LEMMA PendingFinite ==
    ASSUME DigestTypeOK, NEW pending, pending \subseteq {s \in Session : Unconsumed(s) # {}}
    PROVE  /\ IsFiniteSet(pending)
           /\ \A s \in pending : Least(Unconsumed(s)) \in Unconsumed(s)
                                 /\ SessionOf[Least(Unconsumed(s))] = s
                                 /\ Least(Unconsumed(s)) \in Memory
<1>1. \A s \in Session : Unconsumed(s) \in SUBSET Nat /\ Unconsumed(s) \subseteq Memory
  BY DigestAssumption DEF DigestTypeOK, Unconsumed, Of
<1>2. \A s \in pending : Least(Unconsumed(s)) \in Unconsumed(s)
  BY <1>1, LeastIsOne
<1>3. \A s \in pending : SessionOf[Least(Unconsumed(s))] = s /\ Least(Unconsumed(s)) \in Memory
  BY <1>1, <1>2 DEF Unconsumed, Of
<1> DEFINE f == [s \in pending |-> Least(Unconsumed(s))]
<1>4. f \in Injection(pending, Memory)
  BY <1>3 DEF Injection, IsInjective
<1>5. IsFiniteSet(pending)
  <2> HIDE DEF f
  <2> QED
    BY <1>4, FS_Injection, DigestAssumption
<1> QED
  BY <1>2, <1>3, <1>5

\* A run takes sessions that have unconsumed memories, as Batch says: every place in the
\* order is taken.
LEMMA BatchType ==
    ASSUME DigestTypeOK
    PROVE  /\ Batch \in Seq(Session)
           /\ \A n \in 1 .. Len(Batch) : Unconsumed(Batch[n]) # {}
<1> DEFINE pending == {s \in Session : Unconsumed(s) # {}}
           first(s) == Least(Unconsumed(s))
           before(s) == {t \in pending : first(t) < first(s)}
           k == Cardinality(pending)
           rank == [s \in pending |-> Cardinality(before(s))]
           size == IF k < Limit THEN k ELSE Limit
<1>1. IsFiniteSet(pending) /\ k \in Nat
  BY PendingFinite, FS_CardinalityType
<1>2. \A s \in pending : first(s) \in Nat /\ SessionOf[first(s)] = s
  BY PendingFinite, DigestAssumption
<1>3. \A s \in pending : IsFiniteSet(before(s)) /\ Cardinality(before(s)) \in Nat
  BY <1>1, FS_Subset, FS_CardinalityType
<1>4. \A s \in pending : Cardinality(before(s)) \in 0 .. (k - 1)
  <2> TAKE s \in pending
  <2>1. before(s) \subseteq pending \ {s}
    BY <1>2
  <2>2. IsFiniteSet(pending \ {s}) /\ Cardinality(pending \ {s}) = k - 1
    BY <1>1, FS_RemoveElement
  <2> HIDE DEF before, pending, k
  <2>3. Cardinality(before(s)) <= k - 1
    BY <2>1, <2>2, FS_Subset
  <2> QED
    BY <1>1, <1>3, <2>3
<1>5. ASSUME NEW s \in pending, NEW t \in pending, first(s) < first(t)
      PROVE  Cardinality(before(s)) # Cardinality(before(t))
  <2>1. before(s) \subseteq before(t) /\ s \in before(t) /\ s \notin before(s)
    BY <1>2, <1>5
  <2> HIDE DEF before, pending
  <2> QED
    BY <1>3, <2>1, FS_Subset
<1>6. rank \in Injection(pending, 0 .. (k - 1))
  <2>1. rank \in [pending -> 0 .. (k - 1)]
    BY <1>4
  <2>2. ASSUME NEW s \in pending, NEW t \in pending, rank[s] = rank[t]
        PROVE  s = t
    <3>1. Cardinality(before(s)) = Cardinality(before(t))
      BY <2>2
    <3>2. first(s) = first(t)
      <4> HIDE DEF pending, first, before, rank
      <4> QED
        BY <1>2, <1>5, <3>1
    <3> QED
      BY <1>2, <3>2
  <2> HIDE DEF rank, pending, k
  <2> QED
    BY <2>1, <2>2 DEF Injection, IsInjective
<1>7. \A n \in 1 .. size : \E s \in pending : Cardinality(before(s)) = n - 1
  <2>1. IsFiniteSet(0 .. (k - 1)) /\ Cardinality(0 .. (k - 1)) = k
    BY <1>1, FS_Interval
  <2>2. rank \in Surjection(pending, 0 .. (k - 1))
    <3> HIDE DEF rank
    <3> QED
      BY <1>6, <2>1, FS_Injection
  <2>3. \A j \in 0 .. (k - 1) : \E s \in pending : rank[s] = j
    <3> HIDE DEF rank, pending, k
    <3> QED
      BY <2>2 DEF Surjection
  <2>4. \A j \in 0 .. (k - 1) : \E s \in pending : Cardinality(before(s)) = j
    BY <2>3
  <2>5. \A n \in 1 .. size : n - 1 \in 0 .. (k - 1)
    <3> HIDE DEF k
    <3> QED
      BY <1>1, DigestAssumption
  <2> HIDE DEF before, pending, k, size
  <2> QED
    BY <2>4, <2>5
<1>8. Batch = [n \in 1 .. size |-> CHOOSE s \in pending : Cardinality(before(s)) = n - 1]
  BY DEF Batch
<1>9. size \in Nat
  BY <1>1, DigestAssumption
<1>10. \A n \in 1 .. size : (CHOOSE s \in pending : Cardinality(before(s)) = n - 1) \in pending
  <2> HIDE DEF pending, before, size
  <2> QED
    BY <1>7
<1>11. Batch \in [1 .. size -> pending]
  <2> HIDE DEF pending, before, size
  <2> QED
    BY <1>8, <1>10
<1>12. Batch \in Seq(Session) /\ Len(Batch) = size
  <2>1. pending \subseteq Session
    OBVIOUS
  <2> HIDE DEF pending, size
  <2> QED
    BY <1>9, <1>11, <2>1
<1> QED
  <2>1. \A s \in pending : Unconsumed(s) # {}
    OBVIOUS
  <2> HIDE DEF pending, size
  <2> QED
    BY <1>11, <1>12, <2>1

\* The newest of a session's memories are some of them, if it has any.
LEMMA NewestOfSome ==
    ASSUME DigestTypeOK, NEW s \in Session
    PROVE  /\ Newest(s) \subseteq Of(s) /\ Of(s) \subseteq stored
           /\ Of(s) # {} => Newest(s) # {}
<1>1. Of(s) \in SUBSET Nat /\ IsFiniteSet(Of(s)) /\ Of(s) \subseteq stored
  <2>1. Of(s) \subseteq Memory /\ Of(s) \subseteq stored
    BY DEF DigestTypeOK, Of
  <2> QED
    BY <2>1, DigestAssumption, FS_Subset
<1>2. ASSUME Of(s) # {}
      PROVE  Newest(s) # {}
  <2>1. PICK m \in Of(s) : {n \in Of(s) : n > m} = {}
    BY <1>1, <1>2, GreatestExists
  <2>2. Cardinality({n \in Of(s) : n > m}) = 0
    BY <2>1, FS_EmptySet
  <2> QED
    BY <2>2, DigestAssumption DEF Newest
<1> QED
  BY <1>1, <1>2 DEF Newest

-----------------------------------------------------------------------------
(* SessionDigest: nothing leaves the queue without a digest *)

\* What a run has in hand.  As long as no memory was deleted, the sessions it still has to
\* do have memories, and the one it collects and marks has its digest.
Fits(here) ==
    /\ here # Idle /\ gone = {} => \A n \in 1 .. Len(here.todo) : Of(here.todo[n]) # {}
    /\ here.step = "ask" => here.prompt # {}
    /\ here.step \in {"collect", "mark"} /\ gone = {} => view[Head(here.todo)] # {}
    /\ here.step = "mark" =>
         here.marks # {} /\ \A m \in here.marks : SessionOf[m] = Head(here.todo)

ViewInv == DigestTypeOK /\ ConsumedHasView /\ \A p \in Proc : Fits(run[p])

LEMMA PlaceOf ==
    ASSUME NEW here \in Place
    PROVE  /\ here.step \in {"idle", "list", "ask", "collect", "mark"}
           /\ here.step = "idle" <=> here = Idle
           /\ here.step # "idle" => /\ here.todo \in Queue
                                    /\ Len(here.todo) \in Nat \ {0}
                                    /\ Head(here.todo) = here.todo[1]
                                    /\ Head(here.todo) \in Session
           /\ here.step = "ask" => here.prompt \subseteq Memory
           /\ here.step = "mark" => /\ here.marks \subseteq Memory
                                    /\ here = [step |-> "mark", todo |-> here.todo, marks |-> here.marks]
<1>1. \A q \in Queue : Len(q) \in Nat \ {0} /\ Head(q) = q[1] /\ Head(q) \in Session
  BY DEF Queue
<1>2. CASE here = Idle
  BY <1>2 DEF Idle
<1>3. CASE here \in [step : {"list", "collect"}, todo : Queue]
  BY <1>1, <1>3 DEF Idle
<1>4. CASE here \in [step : {"ask"}, todo : Queue, prompt : SUBSET Memory]
  BY <1>1, <1>4 DEF Idle
<1>5. CASE here \in [step : {"mark"}, todo : Queue, marks : SUBSET Memory]
  BY <1>1, <1>5 DEF Idle
<1> QED
  BY <1>2, <1>3, <1>4, <1>5 DEF Place

\* The place NextSession goes to.
Following(here) ==
    IF Len(here.todo) = 1 THEN Idle ELSE [step |-> "list", todo |-> Tail(here.todo)]

LEMMA FollowingFits ==
    ASSUME NEW here \in Place, here # Idle, Fits(here)
    PROVE  Following(here) \in Place /\ Fits(Following(here))
<1>1. here.todo \in Queue /\ Len(here.todo) \in Nat \ {0}
  BY PlaceOf
<1>2. CASE Len(here.todo) = 1
  BY <1>2 DEF Following, Place, Idle, Fits
<1>3. CASE Len(here.todo) # 1
  <2> DEFINE rest == Tail(here.todo)
  <2>1. /\ rest \in Queue /\ Len(rest) = Len(here.todo) - 1
        /\ \A n \in 1 .. Len(rest) : n + 1 \in 1 .. Len(here.todo) /\ rest[n] = here.todo[n + 1]
    <3>1. here.todo \in Seq(Session) /\ here.todo # <<>> /\ Len(here.todo) - 1 \in Nat \ {0}
      BY <1>1, <1>3 DEF Queue
    <3>2. rest \in Seq(Session) /\ Len(rest) = Len(here.todo) - 1
          /\ \A n \in 1 .. Len(rest) : rest[n] = here.todo[n + 1]
      BY <3>1
    <3> HIDE DEF rest
    <3>3. rest # <<>>
      BY <3>1, <3>2
    <3>4. \A n \in 1 .. Len(rest) : n + 1 \in 1 .. Len(here.todo)
      BY <1>1, <3>2
    <3> QED
      BY <3>2, <3>3, <3>4 DEF Queue
  <2>2. Following(here) = [step |-> "list", todo |-> rest]
    BY <1>3 DEF Following
  <2>3. gone = {} => \A n \in 1 .. Len(rest) : Of(rest[n]) # {}
    BY <2>1 DEF Fits
  <2> HIDE DEF rest
  <2> QED
    BY <2>1, <2>2, <2>3 DEF Place, Fits, Idle
<1> QED
  BY <1>2, <1>3

\* What the rest of the system does leaves that so: memories are only added, or one was
\* deleted; digests are replaced by digests.
LEMMA FitsLasts ==
    ASSUME NEW here \in Place, Fits(here), gone \subseteq gone',
           gone' = {} => stored \subseteq stored',
           \A s \in Session : view[s] # {} => view'[s] # {}
    PROVE  Fits(here)'
<1>1. gone' = {} => \A s : Of(s) \subseteq Of(s)'
  BY DEF Of
<1>2. gone' = {} => gone = {}
  OBVIOUS
<1> QED
  BY <1>1, <1>2, PlaceOf DEF Fits

\* A process goes to a place that fits, and the others stay where they are.
LEMMA ViewStep ==
    ASSUME ViewInv, NEW p \in Proc, NEW place \in Place, Goto(p, place), Fits(place)',
           gone \subseteq gone', gone' = {} => stored \subseteq stored',
           \A s \in Session : view[s] # {} => view'[s] # {},
           stored' \subseteq Memory, gone' \subseteq Memory, bit' \subseteq stored',
           view' \in [Session -> SUBSET Memory], ConsumedHasView'
    PROVE  ViewInv'
<1>1. run' \in [Proc -> Place] /\ run'[p] = place /\ \A q \in Proc \ {p} : run'[q] = run[q]
  BY DEF ViewInv, DigestTypeOK, Goto
<1>2. ASSUME NEW q \in Proc, q # p
      PROVE  Fits(run[q])'
  <2>1. PICK here \in Place : here = run[q]
    BY DEF ViewInv, DigestTypeOK
  <2>2. Fits(here)
    BY <2>1 DEF ViewInv
  <2>3. Fits(here)'
    BY <2>2, FitsLasts
  <2>4. run'[q] = here
    BY <1>1, <1>2, <2>1
  <2> QED
    BY <2>3, <2>4 DEF Fits
<1>3. Fits(run[p])'
  BY <1>1 DEF Fits
<1>4. \A q \in Proc : Fits(run[q])'
  BY <1>2, <1>3
<1> QED
  BY <1>1, <1>4 DEF ViewInv, DigestTypeOK

\* What a process does that writes no table.
LEMMA OnlyMoves ==
    ASSUME ViewInv, NEW p \in Proc, NEW place \in Place, Goto(p, place), UNCHANGED tables,
           Fits(place)
    PROVE  ViewInv'
<1>1. Fits(place)'
  BY FitsLasts DEF tables
<1>2. ConsumedHasView'
  BY DEF ViewInv, ConsumedHasView, tables
<1> QED
  BY <1>1, <1>2, ViewStep DEF ViewInv, DigestTypeOK, tables

LEMMA NextSessionGoes ==
    ASSUME ViewInv, NEW p \in Proc, run[p] # Idle, NextSession(p), UNCHANGED tables
    PROVE  ViewInv'
<1>1. PICK here \in Place : here = run[p]
  BY DEF ViewInv, DigestTypeOK
<1>2. Fits(here) /\ here # Idle
  BY <1>1 DEF ViewInv
<1>3. Following(here) \in Place /\ Fits(Following(here))
  BY <1>2, FollowingFits
<1>4. PICK place : place = Following(here)
  OBVIOUS
<1>5. Goto(p, place) /\ place \in Place /\ Fits(place)
  BY <1>1, <1>3, <1>4 DEF NextSession, Following
<1> QED
  BY <1>5, OnlyMoves

\* One memory of a session with a digest is marked, or not, and the loop goes on.
LEMMA MarkGoes ==
    ASSUME ViewInv, NEW p \in Proc, run[p].step = "mark", NEW m \in run[p].marks,
           Marked(p, m), UNCHANGED <<stored, gone, view>>,
           bit' = bit \/ bit' = bit \cup ({m} \cap stored)
    PROVE  ViewInv'
<1>1. PICK here \in Place : here = run[p]
  BY DEF ViewInv, DigestTypeOK
<1>2. Fits(here) /\ here # Idle /\ here.todo \in Queue /\ here.marks \subseteq Memory
      /\ here = [step |-> "mark", todo |-> here.todo, marks |-> here.marks]
  BY <1>1, PlaceOf DEF ViewInv, Idle
<1>3. PICK place : place = IF here.marks = {m} THEN Following(here)
                           ELSE [here EXCEPT !.marks = @ \ {m}]
  OBVIOUS
<1>4. Goto(p, place)
  BY <1>1, <1>3 DEF Marked, NextSession, Following
<1>5. place \in Place /\ Fits(place)
  <2>1. CASE here.marks = {m}
    BY <1>2, <1>3, <2>1, FollowingFits
  <2>2. CASE here.marks # {m}
    <3>1. place = [step |-> "mark", todo |-> here.todo, marks |-> here.marks \ {m}]
      BY <1>2, <1>3, <2>2
    <3>2. here.marks \ {m} # {}
      BY <1>1, <2>2
    <3>3. place \in Place
      BY <1>2, <3>1 DEF Place
    <3> QED
      BY <1>1, <1>2, <3>1, <3>2, <3>3 DEF Fits, Idle
  <2> QED
    BY <2>1, <2>2
<1>6. Fits(place)'
  BY <1>5, FitsLasts
<1>7. bit' \subseteq stored' /\ ConsumedHasView'
  <2>1. gone = {} => view[SessionOf[m]] # {}
    BY <1>1, <1>2 DEF Fits
  <2> QED
    BY <2>1 DEF ViewInv, DigestTypeOK, ConsumedHasView
<1> QED
  BY <1>4, <1>5, <1>6, <1>7, ViewStep DEF ViewInv, DigestTypeOK

LEMMA DigestStep ==
    ASSUME ViewInv, DigestNext
    PROVE  ViewInv'
<1> USE DEF ViewInv
<1>1. ASSUME NEW p \in Proc, StartRun(p)
      PROVE  ViewInv'
  <2>1. PICK batch : batch = Batch
    OBVIOUS
  <2>2. PICK place : place = [step |-> "list", todo |-> batch]
    OBVIOUS
  <2>3. Goto(p, place)
    BY <1>1, <2>1, <2>2 DEF StartRun
  <2>4. batch \in Queue /\ \A n \in 1 .. Len(batch) : Of(batch[n]) # {}
    BY <1>1, <2>1, BatchType DEF StartRun, Queue, Unconsumed
  <2>5. place \in Place /\ Fits(place)
    BY <2>2, <2>4 DEF Place, Fits
  <2> QED
    BY <1>1, <2>3, <2>5, OnlyMoves DEF StartRun
<1>2. ASSUME NEW p \in Proc, ListSession(p)
      PROVE  ViewInv'
  <2>1. PICK here \in Place : here = run[p]
    BY DEF DigestTypeOK
  <2>2. Fits(here) /\ here.step = "list" /\ here # Idle
    BY <1>2, <2>1 DEF ListSession, Idle
  <2>3. here.todo \in Queue /\ Head(here.todo) \in Session
        /\ Len(here.todo) \in Nat \ {0} /\ Head(here.todo) = here.todo[1]
    BY <2>2, PlaceOf
  <2>4. PICK prompt : prompt = Newest(Head(here.todo))
    OBVIOUS
  <2>5. prompt \subseteq Memory /\ (gone = {} => prompt # {})
    <3>1. gone = {} => Of(Head(here.todo)) # {}
      BY <2>2, <2>3 DEF Fits
    <3> QED
      BY <2>3, <2>4, <3>1, NewestOfSome DEF DigestTypeOK
  <2>6. PICK place : place = IF prompt = {} THEN [step |-> "collect", todo |-> here.todo]
                             ELSE [step |-> "ask", todo |-> here.todo, prompt |-> prompt]
    OBVIOUS
  <2>7. Goto(p, place) /\ UNCHANGED tables
    BY <1>2, <2>1, <2>4, <2>6 DEF ListSession
  <2>8. place \in Place /\ Fits(place)
    <3>1. place \in Place
      BY <2>3, <2>5, <2>6 DEF Place
    <3> QED
      BY <2>2, <2>5, <2>6, <3>1 DEF Fits, Idle
  <2> QED
    BY <2>7, <2>8, OnlyMoves
<1>3. ASSUME NEW p \in Proc, Collect(p)
      PROVE  ViewInv'
  <2>1. PICK here \in Place : here = run[p]
    BY DEF DigestTypeOK
  <2>2. Fits(here) /\ here.step = "collect" /\ here # Idle
    BY <1>3, <2>1 DEF Collect, Idle
  <2>3. here.todo \in Queue /\ Head(here.todo) \in Session
    BY <2>2, PlaceOf
  <2>4. PICK marks : marks = Of(Head(here.todo))
    OBVIOUS
  <2>5. marks \subseteq Memory /\ \A m \in marks : SessionOf[m] = Head(here.todo)
    BY <2>4 DEF Of, DigestTypeOK
  <2>6. CASE marks = {}
    BY <1>3, <2>1, <2>2, <2>4, <2>6, NextSessionGoes DEF Collect
  <2>7. CASE marks # {}
    <3>1. PICK place : place = [step |-> "mark", todo |-> here.todo, marks |-> marks]
      OBVIOUS
    <3>2. Goto(p, place) /\ UNCHANGED tables
      BY <1>3, <2>1, <2>4, <2>7, <3>1 DEF Collect
    <3>3. place \in Place
      BY <2>3, <2>5, <3>1 DEF Place
    <3>4. Fits(place)
      BY <2>2, <2>5, <2>7, <3>1 DEF Fits, Idle
    <3> QED
      BY <3>2, <3>3, <3>4, OnlyMoves
  <2> QED
    BY <2>6, <2>7
<1>4. ASSUME NEW p \in Proc, run[p].step = "mark"
      PROVE  Least(run[p].marks) \in run[p].marks
  <2>1. run[p] \in Place /\ Fits(run[p])
    BY DEF DigestTypeOK
  <2>2. run[p].marks \in SUBSET Nat /\ run[p].marks # {}
    BY <1>4, <2>1, PlaceOf, DigestAssumption DEF Fits
  <2> QED
    BY <2>2, LeastIsOne
<1>5. ASSUME NEW p \in Proc, MarkConsumed(p)
      PROVE  ViewInv'
  <2>1. PICK m : m = Least(run[p].marks)
    OBVIOUS
  <2>2. /\ run[p].step = "mark" /\ m \in run[p].marks /\ Marked(p, m)
        /\ UNCHANGED <<stored, gone, view>> /\ bit' = bit \cup ({m} \cap stored)
    BY <1>4, <1>5, <2>1 DEF MarkConsumed, SetBit
  <2> QED
    BY <2>2, MarkGoes
<1>6. ASSUME NEW p \in Proc, NEW s \in Session, Digest(p, s)
      PROVE  ViewInv'
  <2>1. PICK here \in Place : here = run[p]
    BY DEF DigestTypeOK
  <2>2. Fits(here) /\ here.step = "ask" /\ here # Idle /\ s = Head(here.todo)
    BY <1>6, <2>1 DEF Digest, Idle
  <2>3. here.todo \in Queue /\ here.prompt \subseteq Memory /\ here.prompt # {}
    BY <2>2, PlaceOf DEF Fits
  <2>4. view' = [view EXCEPT ![s] = here.prompt] /\ UNCHANGED <<stored, gone, bit>>
    BY <1>6, <2>1 DEF Digest
  <2>5. PICK place : place = [step |-> "collect", todo |-> here.todo]
    OBVIOUS
  <2>6. Goto(p, place) /\ place \in Place
    BY <1>6, <2>1, <2>3, <2>5 DEF Digest, Place
  <2>7. /\ view' \in [Session -> SUBSET Memory] /\ view'[s] # {}
        /\ \A t \in Session : view[t] # {} => view'[t] # {}
    BY <2>3, <2>4 DEF DigestTypeOK
  <2>8. Fits(place)'
    BY <2>2, <2>4, <2>5, <2>7 DEF Fits, Idle, Of
  <2>9. ConsumedHasView'
    <3>1. bit \subseteq Memory /\ \A m \in Memory : SessionOf[m] \in Session
      BY DigestAssumption DEF DigestTypeOK
    <3> QED
      BY <2>4, <2>7, <3>1 DEF ConsumedHasView
  <2> QED
    BY <2>4, <2>6, <2>7, <2>8, <2>9, ViewStep DEF DigestTypeOK
<1>7. ASSUME NEW p \in Proc, Fail(p)
      PROVE  ViewInv'
  BY <1>7, NextSessionGoes DEF Fail, Idle
<1>8. ASSUME NEW p \in Proc, Fault(p)
      PROVE  ViewInv'
  <2>1. CASE Goto(p, Idle)
    <3>1. Idle \in Place /\ Fits(Idle)
      BY DEF Place, Fits, Idle
    <3> QED
      BY <1>8, <2>1, <3>1, OnlyMoves DEF Fault
  <2>2. CASE run[p].step = "mark" /\ Marked(p, Least(run[p].marks))
    <3>1. PICK m : m = Least(run[p].marks)
      OBVIOUS
    <3>2. /\ run[p].step = "mark" /\ m \in run[p].marks /\ Marked(p, m)
          /\ UNCHANGED <<stored, gone, view>> /\ bit' = bit
      BY <1>4, <1>8, <2>2, <3>1 DEF Fault, tables
    <3> QED
      BY <3>2, MarkGoes
  <2> QED
    BY <1>8, <2>1, <2>2 DEF Fault
<1>9. ASSUME run' = run, gone \subseteq gone', gone' = {} => stored \subseteq stored',
             view' = view, stored' \subseteq Memory, gone' \subseteq Memory,
             bit' \subseteq stored', ConsumedHasView'
      PROVE  ViewInv'
  <2>1. ASSUME NEW q \in Proc
        PROVE  Fits(run[q])'
    <3>1. PICK here \in Place : here = run[q]
      BY DEF DigestTypeOK
    <3>2. Fits(here)
      BY <3>1
    <3>3. Fits(here)'
      BY <1>9, <3>2, FitsLasts
    <3> QED
      BY <1>9, <3>1, <3>3 DEF Fits
  <2> QED
    BY <1>9, <2>1 DEF DigestTypeOK
<1>10. ASSUME NEW m \in Memory, Capture(m)
       PROVE  ViewInv'
  BY <1>9, <1>10 DEF Capture, DigestTypeOK, ConsumedHasView
<1>11. ASSUME NEW m \in Memory, Delete(m)
       PROVE  ViewInv'
  BY <1>9, <1>11 DEF Delete, DigestTypeOK, ConsumedHasView
<1> QED
  BY <1>1, <1>2, <1>3, <1>5, <1>6, <1>7, <1>8, <1>10, <1>11 DEF DigestNext, Proceed

\* A session digest is retried until it is there: a memory loses its place in the queue
\* only after the digest of its session, however many processes run the task.
THEOREM NothingSkipped == Spec => []ConsumedHasView
<1>1. Init => ViewInv
  BY DEF Init, DigestInit, ViewInv, DigestTypeOK, ConsumedHasView, Fits, Place, Idle
<1>2. ASSUME ViewInv, [Next]_vars
      PROVE  ViewInv'
  <2>1. CASE DigestNext
    BY <1>2, <2>1, DigestStep
  <2>2. CASE UNCHANGED <<tables, run>>
    BY <1>2, <2>2 DEF ViewInv, DigestTypeOK, ConsumedHasView, Fits, Of, tables
  <2> QED
    BY <1>2, <2>1, <2>2 DEF Next, OfVerdicts, vars, digestVars
<1>3. ViewInv => ConsumedHasView
  BY DEF ViewInv
<1> QED
  BY <1>1, <1>2, <1>3, PTL DEF Spec

-----------------------------------------------------------------------------
(* Verdicts: one voice *)

Signal == [verdict : {"pending"} \cup Verdict, domain : Domain, line : STRING, at : Nat]
Told == [signal : Nat, type : {"pending"} \cup Verdict, line : STRING]
Profile == [text : Text, at : Nat, superseded : BOOLEAN]
Evidence == [topic : Domain, tally : SUBSET Told, summary : SUBSET Told]
Locals ==
    [step : {"profile", "chat", "supersede", "evidence", "domain", "merge", "rewrite"},
     signals : Seq(Signal), todo : SUBSET (Nat \cup Domain),
     domain : Domain \cup {"none"}, row : Nat, text : Text \cup {"none"}]

VerdictTypeOK ==
    /\ signals \in Seq(Signal) /\ clock \in Nat /\ errors \in Nat
    /\ profiles \in Seq(Profile) /\ evidence \in Seq(Evidence)
    /\ task \in Locals
    /\ task.step = "supersede" => task.todo \subseteq Nat /\ task.text \in Text
    /\ task.step \in {"domain", "merge", "rewrite"} => task.todo \subseteq Domain
    /\ task.step \in {"merge", "rewrite"} =>
         task.domain \in Domain /\ task.row \in DOMAIN evidence

\* While no statement has failed, a profile that is still to be superseded is in the list of
\* the task.
VoiceInv ==
    /\ VerdictTypeOK
    /\ errors = 0 =>
         /\ \A m, n \in DOMAIN profiles :
               ~ profiles[m].superseded /\ ~ profiles[n].superseded => m = n
         /\ task.step = "supersede" =>
               \A n \in DOMAIN profiles \ task.todo : profiles[n].superseded

\* While no first line is the name of a domain, a row matches a domain by its topic only; and
\* while no statement has failed, the row that is about to get a topic has it already.
NamesNone(ss) == \A s \in DOMAIN ss : ss[s].line \notin Domain

RowsInv ==
    NamesNone(signals) =>
      /\ NamesNone(task.signals)
      /\ \A n \in DOMAIN evidence : \A v \in evidence[n].tally : v.line \notin Domain
      /\ errors = 0 =>
           /\ \A m, n \in DOMAIN evidence : evidence[m].topic = evidence[n].topic => m = n
           /\ task.step = "merge" => evidence[task.row].topic = task.domain

\* The instance counts as this module does.
LEMMA SameCount ==
    ASSUME NEW S
    PROVE  Learned!Cardinality(S) = Cardinality(S)
  BY Zenon DEF Cardinality, IsFiniteSet, Learned!Cardinality, Learned!IsFiniteSet

LEMMA VoiceMeansOneVoice ==
    ASSUME VoiceInv, RowsInv
    PROVE  OneVoice
<1>1. ASSUME errors = 0
      PROVE  Cardinality({n \in DOMAIN profiles : ~ profiles[n].superseded}) <= 1
  BY <1>1, AtMostOne DEF VoiceInv
<1>2. ASSUME errors = 0, Learned!Plain, NEW d \in Domain
      PROVE  Cardinality(Learned!RowsOf(d)) <= 1
  <2>1. \A m, n \in DOMAIN evidence : evidence[m].topic = evidence[n].topic => m = n
    BY <1>2 DEF RowsInv, NamesNone, Learned!Plain
  <2> QED
    BY <2>1, AtMostOne DEF Learned!RowsOf
<1> QED
  BY <1>1, <1>2, SameCount DEF OneVoice, Learned!OneVoice

LEMMA FirstRow ==
    ASSUME evidence \in Seq(Evidence), NEW d, Learned!Matching(d) # {}
    PROVE  Learned!Min(Learned!Matching(d)) \in Learned!Matching(d)
<1> DEFINE S == Learned!Matching(d)
<1>1. S \in SUBSET Nat /\ S # {}
  BY DEF Learned!Matching, Learned!RowsOf
<1> HIDE DEF S
<1>2. Least(S) \in S /\ \A n \in S : Least(S) <= n
  BY <1>1, LeastIsOne
<1>3. \E n \in S : \A k \in S : n <= k
  BY <1>2
<1>4. Learned!Min(S) \in S
  BY <1>3 DEF Learned!Min
<1> QED
  BY <1>4 DEF S

\* The places a task is at when nothing is in hand.
LEMMA BeginType ==
    ASSUME NEW step \in {"profile", "chat", "supersede", "evidence", "domain", "merge", "rewrite"}
    PROVE  /\ Learned!Begin(step) \in Locals /\ Learned!Begin(step).step = step
           /\ Learned!Begin(step).signals = <<>>
  BY DEF Learned!Begin, Locals

\* A step that leaves the rows alone, and takes the task where it needs nothing of them.
LEMMA VoiceKept ==
    ASSUME VoiceInv, UNCHANGED <<evidence, profiles>>, errors' \in Nat, errors' = 0 => errors = 0,
           signals' \in Seq(Signal), clock' \in Nat, task' \in Locals,
           \/ task'.step \in {"profile", "chat", "evidence"}
           \/ task'.step = "domain" /\ task'.todo \subseteq Domain
    PROVE  VoiceInv'
  BY DEF VoiceInv, VerdictTypeOK

LEMMA RowsKept ==
    ASSUME RowsInv, UNCHANGED evidence, errors' = 0 => errors = 0,
           NamesNone(signals') => NamesNone(signals),
           \/ task'.signals \in {task.signals, <<>>}
           \/ task'.signals = signals /\ signals' = signals,
           task' = task \/ task'.step # "merge"
    PROVE  RowsInv'
  BY DEF RowsInv, NamesNone

LEMMA Resuming ==
    ASSUME VerdictTypeOK, task.step \in {"domain", "merge", "rewrite"}
    PROVE  /\ Learned!NextDomain \in Locals /\ Learned!NextDomain.step = "domain"
           /\ Learned!NextDomain.signals = task.signals
           /\ Learned!NextDomain.todo \subseteq Domain
  BY DEF VerdictTypeOK, Locals, Learned!NextDomain

LEMMA TallyType ==
    ASSUME VerdictTypeOK
    PROVE  Learned!Tally \subseteq Told
<1>1. task.signals \in Seq(Signal)
  BY DEF VerdictTypeOK, Locals
<1>2. \A s \in DOMAIN task.signals :
        /\ s \in Nat /\ task.signals[s].verdict \in {"pending"} \cup Verdict
        /\ task.signals[s].line \in STRING
  <2>1. \A s \in DOMAIN task.signals : s \in Nat /\ task.signals[s] \in Signal
    BY <1>1
  <2> QED
    BY <2>1 DEF Signal
<1>3. \A s \in Learned!Bucket(task.signals, task.domain) :
        /\ s \in Nat /\ task.signals[s].verdict \in {"pending"} \cup Verdict
        /\ task.signals[s].line \in STRING
  BY <1>2 DEF Learned!Bucket, Learned!Judged
<1>4. \A s \in Learned!Bucket(task.signals, task.domain) :
        [signal |-> s, type |-> task.signals[s].verdict, line |-> task.signals[s].line] \in Told
  BY <1>3 DEF Told
<1> QED
  BY <1>4 DEF Learned!Tally, Learned!Verdicts

\* What a run tells begins with lines of what it has read.
LEMMA TallyPlain ==
    ASSUME VerdictTypeOK, NamesNone(task.signals)
    PROVE  \A v \in Learned!Tally : v.line \notin Domain
  BY DEF NamesNone, Learned!Tally, Learned!Verdicts, Learned!Bucket, Learned!Judged

LEMMA ProfileSteps ==
    ASSUME VoiceInv,
           \/ Learned!ListSignals \/ Learned!Chat \/ Learned!ChatFails \/ Learned!Supersede
           \/ Learned!SupersedeFails \/ Learned!IngestProfile \/ Learned!IngestFails
    PROVE  VoiceInv'
<1> USE DEF VoiceInv, VerdictTypeOK, Learned!At, Learned!Go, Learned!NoFault, Learned!Reads,
            Learned!outside, Learned!rows, Learned!Fails
<1>1. CASE Learned!ListSignals
  BY <1>1, BeginType, VoiceKept DEF Learned!ListSignals
<1>2. CASE Learned!Chat
  <2>1. PICK t \in Text : task' = [task EXCEPT !.step = "supersede", !.text = t,
                                              !.todo = DOMAIN profiles]
    BY <1>2 DEF Learned!Chat
  <2>2. DOMAIN profiles \subseteq Nat
    OBVIOUS
  <2>3. task' \in Locals /\ task'.step = "supersede" /\ task'.todo = DOMAIN profiles
        /\ task'.text = t
    BY <2>1, <2>2 DEF Locals
  <2> QED
    BY <1>2, <2>2, <2>3 DEF Learned!Chat
<1>3. CASE Learned!ChatFails
  BY <1>3, BeginType, VoiceKept DEF Learned!ChatFails
<1>4. CASE Learned!Supersede
  <2>1. PICK last : last = Learned!Max(task.todo)
    OBVIOUS
  <2>2. /\ task' = [task EXCEPT !.todo = @ \ {last}]
        /\ profiles' = [profiles EXCEPT ![last].superseded = TRUE]
        /\ UNCHANGED <<signals, clock, changes, evidence, errors, faults>>
        /\ task.step = "supersede"
    BY <1>4, <2>1 DEF Learned!Supersede, Learned!Superseded
  <2>3. /\ task' \in Locals /\ task'.step = "supersede" /\ task'.todo = task.todo \ {last}
        /\ task'.text = task.text
    BY <2>2 DEF Locals
  <2>4. /\ profiles' \in Seq(Profile) /\ DOMAIN profiles' = DOMAIN profiles
        /\ \A n \in DOMAIN profiles :
             profiles'[n].superseded = IF n = last THEN TRUE ELSE profiles[n].superseded
    <3>1. CASE last \in DOMAIN profiles
      <4>1. PICK row : row = [profiles[last] EXCEPT !.superseded = TRUE]
        OBVIOUS
      <4>2. profiles[last] \in Profile
        BY <3>1
      <4>3. row \in Profile /\ row.superseded = TRUE
        BY <4>1, <4>2 DEF Profile
      <4>4. profiles' = [profiles EXCEPT ![last] = row]
        BY <2>2, <4>1
      <4>5. /\ profiles' \in Seq(Profile) /\ DOMAIN profiles' = DOMAIN profiles
            /\ \A n \in DOMAIN profiles : profiles'[n] = IF n = last THEN row ELSE profiles[n]
        <5> HIDE DEF VoiceInv
        <5>1. profiles \in Seq(Profile)
          BY DEF VoiceInv
        <5> QED
          BY ONLY <3>1, <4>3, <4>4, <5>1, ExceptSeq
      <4> QED
        BY <4>3, <4>5
    <3>2. CASE last \notin DOMAIN profiles
      <4>1. profiles \in [1 .. Len(profiles) -> Profile] /\ DOMAIN profiles = 1 .. Len(profiles)
        OBVIOUS
      <4>2. profiles' = profiles
        BY <2>2, <3>2, <4>1
      <4> QED
        BY <3>2, <4>2
    <3> QED
      BY <3>1, <3>2
  <2> QED
    BY <2>2, <2>3, <2>4
<1>5. CASE Learned!SupersedeFails
  <2>1. task' \in Locals /\ task'.step = "supersede" /\ task'.todo \subseteq task.todo
        /\ task'.text = task.text
    BY <1>5 DEF Learned!SupersedeFails, Locals
  <2>2. errors' = errors + 1 /\ errors' # 0
    BY <1>5 DEF Learned!SupersedeFails
  <2> QED
    BY <1>5, <2>1, <2>2 DEF Learned!SupersedeFails
<1>6. CASE Learned!IngestProfile
  <2>1. PICK row : row = [text |-> task.text, at |-> clock, superseded |-> FALSE]
    OBVIOUS
  <2>2. row \in Profile /\ row.superseded = FALSE
    BY <1>6, <2>1 DEF Learned!IngestProfile, Profile
  <2>3. task' \in Locals /\ task'.step = "evidence"
    BY <1>6, BeginType DEF Learned!IngestProfile
  <2>4. profiles' = profiles \/ profiles' = Append(profiles, row)
    BY <1>6, <2>1 DEF Learned!IngestProfile
  <2>5. CASE profiles' = profiles
    BY <1>6, <2>3, <2>5 DEF Learned!IngestProfile
  <2>6. CASE profiles' = Append(profiles, row)
    <3>1. /\ profiles' \in Seq(Profile) /\ DOMAIN profiles' = DOMAIN profiles \cup {Len(profiles) + 1}
          /\ profiles'[Len(profiles) + 1] = row
          /\ \A n \in DOMAIN profiles : profiles'[n] = profiles[n]
      BY <2>2, <2>6
    <3>2. errors = 0 => \A n \in DOMAIN profiles : profiles[n].superseded
      BY <1>6 DEF Learned!IngestProfile
    <3> QED
      BY <1>6, <2>3, <3>1, <3>2 DEF Learned!IngestProfile
  <2> QED
    BY <2>4, <2>5, <2>6
<1>7. CASE Learned!IngestFails
  BY <1>7, BeginType, VoiceKept DEF Learned!IngestFails
<1> QED
  BY <1>1, <1>2, <1>3, <1>4, <1>5, <1>6, <1>7

LEMMA ProfileKeepsRows ==
    ASSUME VoiceInv, RowsInv,
           \/ Learned!ListSignals \/ Learned!Chat \/ Learned!ChatFails \/ Learned!Supersede
           \/ Learned!SupersedeFails \/ Learned!IngestProfile \/ Learned!IngestFails
    PROVE  RowsInv'
<1>1. UNCHANGED <<evidence, signals>> /\ (errors' = 0 => errors = 0)
  <2>1. errors \in Nat
    BY DEF VoiceInv, VerdictTypeOK
  <2>2. UNCHANGED <<evidence, signals>> /\ (errors' = errors \/ errors' = errors + 1)
    BY DEF Learned!NoFault, Learned!Reads, Learned!outside, Learned!rows, Learned!Fails,
           Learned!ListSignals, Learned!Chat, Learned!ChatFails, Learned!Supersede,
           Learned!SupersedeFails, Learned!IngestProfile, Learned!IngestFails
  <2> QED
    BY ONLY <2>1, <2>2
<1>2. /\ task'.signals \in {task.signals, <<>>}
      /\ task'.step # "merge"
  <2>1. CASE \/ Learned!ListSignals \/ Learned!ChatFails \/ Learned!IngestProfile
             \/ Learned!IngestFails
    BY <2>1, BeginType
       DEF Learned!ListSignals, Learned!ChatFails, Learned!IngestProfile, Learned!IngestFails,
           Learned!Go
  <2>2. CASE Learned!Chat \/ Learned!Supersede \/ Learned!SupersedeFails
    BY <2>2 DEF Learned!Chat, Learned!Supersede, Learned!SupersedeFails, Learned!Go, Learned!At,
                VoiceInv, VerdictTypeOK, Locals
  <2> QED
    BY <2>1, <2>2
<1> QED
  BY <1>1, <1>2, RowsKept

LEMMA EvidenceSteps ==
    ASSUME VoiceInv, RowsInv,
           \/ Learned!gatherVerdicts \/ Learned!findOrCreateTopicMemory \/ Learned!MergeEvidence
           \/ Learned!RewriteContent \/ Learned!DomainFails \/ Learned!Done
    PROVE  VoiceInv' /\ RowsInv'
<1> USE DEF VoiceInv, VerdictTypeOK, Learned!At, Learned!Go, Learned!NoFault, Learned!Reads,
            Learned!outside, Learned!rows, Learned!Fails
<1>1. CASE Learned!gatherVerdicts
  <2>1. PICK todo : todo = {signals[s].domain : s \in Learned!Judged(signals)}
    OBVIOUS
  <2>2. todo \subseteq Domain
    <3>1. \A s \in DOMAIN signals : signals[s].domain \in Domain
      <4>1. \A s \in DOMAIN signals : signals[s] \in Signal
        OBVIOUS
      <4> QED
        BY <4>1 DEF Signal
    <3> QED
      BY <2>1, <3>1 DEF Learned!Judged
  <2>3. /\ Learned!Begin("domain") \in Locals /\ Learned!Begin("domain").step = "domain"
        /\ task' = [Learned!Begin("domain") EXCEPT !.signals = signals, !.todo = todo]
    BY <1>1, <2>1, BeginType DEF Learned!gatherVerdicts
  <2>4. task' \in Locals /\ task'.step = "domain" /\ task'.todo = todo /\ task'.signals = signals
    <3>1. signals \in Seq(Signal)
      OBVIOUS
    <3>2. todo \in SUBSET (Nat \cup Domain)
      BY <2>2
    <3>3. PICK begun : begun = Learned!Begin("domain")
      OBVIOUS
    <3>4. begun \in Locals /\ begun.step = "domain"
          /\ task' = [begun EXCEPT !.signals = signals, !.todo = todo]
      BY <2>3, <3>3
    <3> QED
      BY ONLY <3>1, <3>2, <3>4 DEF Locals
  <2> QED
    BY <1>1, <2>2, <2>4, VoiceKept, RowsKept DEF Learned!gatherVerdicts
<1>2. CASE Learned!findOrCreateTopicMemory
  <2>1. PICK d \in task.todo :
          /\ evidence' = Learned!Found(d)
          /\ task' = [task EXCEPT !.step = "merge", !.todo = @ \ {d}, !.domain = d,
                         !.row = IF evidence' # evidence THEN Len(evidence')
                                 ELSE Learned!Min(Learned!Matching(d))]
    BY <1>2 DEF Learned!findOrCreateTopicMemory
  <2>2. PICK row : row = IF evidence' # evidence THEN Len(evidence')
                         ELSE Learned!Min(Learned!Matching(d))
    OBVIOUS
  <2>3. d \in Domain /\ task.todo \subseteq Domain /\ task.step = "domain"
    BY <1>2 DEF Learned!findOrCreateTopicMemory
  <2>4. /\ evidence' \in Seq(Evidence) /\ row \in DOMAIN evidence' /\ row \in Nat
        /\ (\A n \in DOMAIN evidence : \A v \in evidence[n].tally : v.line \notin Domain) =>
             /\ evidence'[row].topic = d
             /\ \A n \in DOMAIN evidence' : \A v \in evidence'[n].tally : v.line \notin Domain
        /\ (\A m, n \in DOMAIN evidence : evidence[m].topic = evidence[n].topic => m = n) =>
             (\A m, n \in DOMAIN evidence' : evidence'[m].topic = evidence'[n].topic => m = n)
    <3>1. CASE Learned!Matching(d) # {}
      <4>1. evidence' = evidence
        BY <2>1, <3>1 DEF Learned!Found
      <4>2. row \in Learned!Matching(d)
        BY <2>2, <3>1, <4>1, FirstRow
      <4> QED
        BY <2>3, <4>1, <4>2 DEF Learned!Matching, Learned!RowsOf
    <3>2. CASE Learned!Matching(d) = {}
      <4>1. PICK new : new = [topic |-> d, tally |-> {}, summary |-> {}]
        OBVIOUS
      <4>2. new \in Evidence /\ new.topic = d /\ new.tally = {}
        BY <2>3, <4>1 DEF Evidence
      <4>3. evidence' = Append(evidence, new)
        BY <2>1, <3>2, <4>1 DEF Learned!Found
      <4>4. /\ evidence' \in Seq(Evidence) /\ DOMAIN evidence' = DOMAIN evidence \cup {Len(evidence) + 1}
            /\ evidence'[Len(evidence) + 1] = new /\ Len(evidence') = Len(evidence) + 1
            /\ \A n \in DOMAIN evidence : evidence'[n] = evidence[n] /\ n # Len(evidence) + 1
            /\ evidence' # evidence /\ Len(evidence) \in Nat
        BY <4>2, <4>3
      <4>5. row = Len(evidence) + 1
        BY <2>2, <4>4
      <4>6. \A n \in DOMAIN evidence : evidence[n].topic # d
        BY <3>2 DEF Learned!Matching, Learned!RowsOf
      <4> QED
        BY <4>2, <4>4, <4>5, <4>6
    <3> QED
      BY <3>1, <3>2
  <2>5. /\ task' \in Locals /\ task'.step = "merge" /\ task'.todo \subseteq Domain
        /\ task'.domain = d /\ task'.row = row /\ task'.signals = task.signals
    BY <2>1, <2>2, <2>3, <2>4 DEF Locals
  <2>6. UNCHANGED <<signals, errors>>
    BY <1>2 DEF Learned!findOrCreateTopicMemory
  <2>7. RowsInv'
    BY <2>4, <2>5, <2>6 DEF RowsInv, NamesNone
  <2> QED
    BY <1>2, <2>3, <2>4, <2>5, <2>7 DEF Learned!findOrCreateTopicMemory
<1>3. ASSUME task.step \in {"merge", "rewrite"}, NEW new, new \in Evidence,
             evidence' = [evidence EXCEPT ![task.row] = new]
      PROVE  /\ evidence' \in Seq(Evidence) /\ DOMAIN evidence' = DOMAIN evidence
             /\ \A n \in DOMAIN evidence : evidence'[n] = IF n = task.row THEN new ELSE evidence[n]
  <2>1. PICK row : row = task.row
    OBVIOUS
  <2>2. evidence \in Seq(Evidence) /\ row \in DOMAIN evidence
        /\ evidence' = [evidence EXCEPT ![row] = new]
    BY <1>3, <2>1
  <2>3. /\ evidence' \in Seq(Evidence) /\ DOMAIN evidence' = DOMAIN evidence
        /\ \A n \in DOMAIN evidence : evidence'[n] = IF n = row THEN new ELSE evidence[n]
    <3>1. new \in Evidence
      BY <1>3
    <3> QED
      BY ONLY <2>2, <3>1, ExceptSeq
  <2> QED
    BY <2>1, <2>3
<1>4. CASE Learned!MergeEvidence
  <2>1. PICK new : new = [evidence[task.row] EXCEPT !.topic = task.domain, !.tally = Learned!Tally]
    OBVIOUS
  <2>2. task.step = "merge" /\ evidence' = [evidence EXCEPT ![task.row] = new]
    BY <1>4, <2>1 DEF Learned!MergeEvidence
  <2>3. evidence[task.row] \in Evidence /\ task.domain \in Domain /\ Learned!Tally \subseteq Told
    BY <2>2, TallyType
  <2>4. new \in Evidence /\ new.topic = task.domain /\ new.tally = Learned!Tally
    BY <2>1, <2>3 DEF Evidence
  <2>5. /\ evidence' \in Seq(Evidence) /\ DOMAIN evidence' = DOMAIN evidence
        /\ \A n \in DOMAIN evidence : evidence'[n] = IF n = task.row THEN new ELSE evidence[n]
    BY <1>3, <2>2, <2>4
  <2>6. /\ task' \in Locals /\ task'.step = "rewrite" /\ task'.todo = task.todo
        /\ task'.domain = task.domain /\ task'.row = task.row /\ task'.signals = task.signals
    BY <1>4 DEF Learned!MergeEvidence, Locals
  <2>7. UNCHANGED <<signals, errors>>
    BY <1>4 DEF Learned!MergeEvidence
  <2>8. ASSUME NamesNone(signals)
        PROVE  /\ \A n \in DOMAIN evidence : \A v \in evidence'[n].tally : v.line \notin Domain
               /\ errors = 0 =>
                    \A n \in DOMAIN evidence : evidence'[n].topic = evidence[n].topic
    <3>1. /\ NamesNone(task.signals)
          /\ \A n \in DOMAIN evidence : \A v \in evidence[n].tally : v.line \notin Domain
          /\ errors = 0 => evidence[task.row].topic = task.domain
      BY <2>2, <2>8 DEF RowsInv
    <3>2. \A v \in new.tally : v.line \notin Domain
      BY <2>4, <3>1, TallyPlain
    <3> QED
      BY <2>4, <2>5, <3>1, <3>2
  <2>9. RowsInv'
    BY <2>5, <2>6, <2>7, <2>8 DEF RowsInv, NamesNone
  <2> QED
    BY <1>4, <2>2, <2>5, <2>6, <2>9 DEF Learned!MergeEvidence
<1>5. CASE Learned!RewriteContent
  <2>1. PICK new : new = [evidence[task.row] EXCEPT !.summary = Learned!Tally]
    OBVIOUS
  <2>2. task.step = "rewrite" /\ evidence' = [evidence EXCEPT ![task.row] = new]
    BY <1>5, <2>1 DEF Learned!RewriteContent
  <2>3. evidence[task.row] \in Evidence /\ Learned!Tally \subseteq Told
    BY <2>2, TallyType
  <2>4. /\ new \in Evidence /\ new.topic = evidence[task.row].topic
        /\ new.tally = evidence[task.row].tally
    BY <2>1, <2>3 DEF Evidence
  <2>5. /\ evidence' \in Seq(Evidence) /\ DOMAIN evidence' = DOMAIN evidence
        /\ \A n \in DOMAIN evidence : evidence'[n] = IF n = task.row THEN new ELSE evidence[n]
    BY <1>3, <2>2, <2>4
  <2>6. task' \in Locals /\ task'.step = "domain" /\ task'.todo \subseteq Domain
        /\ task'.signals = task.signals
    BY <1>5, <2>2, Resuming DEF Learned!RewriteContent
  <2>7. \A n \in DOMAIN evidence : /\ evidence'[n].topic = evidence[n].topic
                                  /\ evidence'[n].tally = evidence[n].tally
    BY <2>4, <2>5
  <2>8. UNCHANGED <<signals, errors>>
    BY <1>5 DEF Learned!RewriteContent
  <2>9. RowsInv'
    BY <2>5, <2>6, <2>7, <2>8 DEF RowsInv, NamesNone
  <2> QED
    BY <1>5, <2>5, <2>6, <2>9 DEF Learned!RewriteContent
<1>6. CASE Learned!DomainFails
  <2>1. task' \in Locals /\ task'.step = "domain" /\ task'.todo \subseteq Domain
        /\ task'.signals = task.signals
    <3>1. CASE task.step = "domain" /\ \E d \in task.todo : task' = [task EXCEPT !.todo = @ \ {d}]
      <4>1. PICK d \in task.todo : task' = [task EXCEPT !.todo = @ \ {d}]
        BY <3>1
      <4>2. task \in Locals /\ task.step = "domain" /\ task.todo \subseteq Domain
        BY <3>1
      <4>3. PICK rest : rest = task.todo \ {d}
        OBVIOUS
      <4>4. rest \subseteq Domain /\ rest \in SUBSET (Nat \cup Domain)
        BY <4>2, <4>3
      <4>5. task' = [task EXCEPT !.todo = rest]
        BY <4>1, <4>3
      <4> QED
        BY ONLY <4>2, <4>4, <4>5 DEF Locals
    <3>2. CASE task.step \in {"merge", "rewrite"} /\ task' = Learned!NextDomain
      BY <3>2, Resuming
    <3> QED
      BY <1>6, <3>1, <3>2 DEF Learned!DomainFails
  <2> QED
    BY <1>6, <2>1, VoiceKept, RowsKept DEF Learned!DomainFails
<1>7. CASE Learned!Done
  BY <1>7, BeginType, VoiceKept, RowsKept DEF Learned!Done
<1> QED
  BY <1>1, <1>2, <1>4, <1>5, <1>6, <1>7

\* So only the latest profile counts, whenever the daemon is killed and whatever is judged
\* meanwhile, as long as no statement fails; and a domain has one row, as long as moreover no
\* proposal begins with the name of a domain.
THEOREM OneSpeaks == Spec => []OneVoice
<1>1. Init => VoiceInv /\ RowsInv
  <2> SUFFICES ASSUME Init
               PROVE  VoiceInv /\ RowsInv
    OBVIOUS
  <2>1. /\ signals = <<>> /\ evidence = <<>> /\ profiles = <<>> /\ clock = 1 /\ errors = 0
        /\ task = Learned!Begin("profile")
    BY DEF Init, Learned!Init
  <2>2. task \in Locals /\ task.step = "profile" /\ task.signals = <<>>
    BY <2>1, BeginType
  <2> QED
    BY <2>1, <2>2 DEF VoiceInv, VerdictTypeOK, RowsInv, NamesNone
<1>2. ASSUME VoiceInv, RowsInv, [Next]_vars
      PROVE  VoiceInv' /\ RowsInv'
  <2>1. CASE Learned!Next
    <3>1. ASSUME UNCHANGED <<evidence, profiles, task, errors>>, signals' \in Seq(Signal), clock' \in Nat,
                 NamesNone(signals') => NamesNone(signals)
          PROVE  VoiceInv' /\ RowsInv'
      BY <1>2, <3>1, RowsKept DEF VoiceInv, VerdictTypeOK
    <3>2. CASE \E d \in Domain : Learned!Propose(d)
      <4>1. PICK d \in Domain, new \in [verdict : {"pending"} \cup Verdict, line : STRING],
                 row \in Signal :
              /\ signals' = Append(signals, row)
              /\ row = [verdict |-> new.verdict, domain |-> d, line |-> new.line, at |-> clock]
        <5>1. PICK d \in Domain : Learned!Propose(d)
          BY <3>2
        <5>2. PICK new \in Arriving[d] :
                signals' = Append(signals, [verdict |-> new.verdict, domain |-> d,
                                            line |-> new.line, at |-> clock])
          BY <5>1 DEF Learned!Propose
        <5>3. new \in [verdict : {"pending"} \cup Verdict, line : STRING]
          BY <5>2, ArrivingAssumption
        <5>4. [verdict |-> new.verdict, domain |-> d, line |-> new.line, at |-> clock] \in Signal
          BY <1>2, <5>3 DEF VoiceInv, VerdictTypeOK, Signal
        <5> QED
          BY <5>2, <5>3, <5>4
      <4>2. signals \in Seq(Signal) /\ UNCHANGED <<evidence, profiles, task, errors, clock>>
        BY <1>2, <3>2 DEF VoiceInv, VerdictTypeOK, Learned!Propose, Learned!NoFault, Learned!rows
      <4>3. signals' \in Seq(Signal) /\ (NamesNone(signals') => NamesNone(signals))
        BY <4>1, <4>2 DEF NamesNone
      <4> QED
        BY <1>2, <3>1, <4>2, <4>3 DEF VoiceInv, VerdictTypeOK
    <3>3. CASE \E s \in DOMAIN signals, v \in Verdict, d \in Domain : Learned!Judge(s, v, d)
      <4>1. PICK s \in DOMAIN signals, v \in Verdict, d \in Domain : Learned!Judge(s, v, d)
        BY <3>3
      <4>2. PICK new : new = [signals[s] EXCEPT !.verdict = v, !.domain = d]
        OBVIOUS
      <4>3. signals \in Seq(Signal) /\ signals[s] \in Signal
        BY <1>2 DEF VoiceInv, VerdictTypeOK
      <4>4. new \in Signal /\ new.line = signals[s].line
        BY <4>2, <4>3 DEF Signal
      <4>5. signals' = [signals EXCEPT ![s] = new]
        BY <4>1, <4>2 DEF Learned!Judge
      <4>6. /\ signals' \in Seq(Signal) /\ DOMAIN signals' = DOMAIN signals
            /\ \A n \in DOMAIN signals : signals'[n] = IF n = s THEN new ELSE signals[n]
        BY <4>3, <4>4, <4>5, ExceptSeq
      <4>7. NamesNone(signals') => NamesNone(signals)
        BY <4>4, <4>6 DEF NamesNone
      <4>8. UNCHANGED <<evidence, profiles, task, errors, clock>>
        BY <4>1 DEF Learned!Judge, Learned!NoFault, Learned!rows
      <4> QED
        BY <1>2, <3>1, <4>6, <4>7, <4>8 DEF VoiceInv, VerdictTypeOK
    <3>4. CASE Learned!Tick
      BY <1>2, <3>1, <3>4 DEF Learned!Tick, Learned!NoFault, Learned!rows, VoiceInv, VerdictTypeOK
    <3>5. CASE Learned!Kill
      BY <1>2, <3>5, BeginType, VoiceKept, RowsKept
         DEF Learned!Kill, Learned!Go, Learned!outside, Learned!rows, VoiceInv, VerdictTypeOK
    <3> QED
      BY <1>2, <2>1, <3>2, <3>3, <3>4, <3>5, ProfileSteps, ProfileKeepsRows, EvidenceSteps
         DEF Learned!Next, Learned!Step
  <2>2. CASE UNCHANGED verdictVars
    BY <1>2, <2>2 DEF VoiceInv, VerdictTypeOK, RowsInv, NamesNone, verdictVars
  <2> QED
    BY <1>2, <2>1, <2>2 DEF Next, OfSessions, vars
<1>3. VoiceInv /\ RowsInv => OneVoice
  BY VoiceMeansOneVoice
<1> QED
  BY <1>1, <1>2, <1>3, PTL DEF Spec
=============================================================================
