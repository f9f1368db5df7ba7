--------------------------- MODULE SessionLogProofs ---------------------------
(***************************************************************************)
(* Theorems about SessionLog, for logs of every length.                    *)
(***************************************************************************)
EXTENDS SessionLog, SequenceTheorems, WellFoundedInduction, TLAPS

-----------------------------------------------------------------------------
(* FoldSurface is defined by recursion on the length of the log.           *)

\* f[n] is the surface of the first n events, for n up to k.
Folds(events, k, f) ==
  f = [n \in 0..k |-> IF n = 0 THEN <<>> ELSE FoldEvent(f[n - 1], events[n], n - 1)]

LEMMA LeastNatural ==
  ASSUME NEW T, T \subseteq Nat, T # {}
  PROVE  \E m \in T : \A k \in T : m <= k
<1>1. \E m \in T : \A k \in T : ~(<<k, m>> \in OpToRel(<, Nat))
  BY NatLessThanWellFounded, WFMin
<1>2. PICK m \in T : \A k \in T : ~(<<k, m>> \in OpToRel(<, Nat))
  BY <1>1
<1>3. ASSUME NEW k \in T PROVE m <= k
  <2>1. ~(k < m)
    BY <1>2, <<k, m>> \in Nat \X Nat DEF OpToRel
  <2> QED BY <2>1
<1> QED BY <1>2, <1>3

\* Induction, for a set of numbers.
LEMMA NaturalsIn ==
  ASSUME NEW T, 0 \in T, \A n \in Nat : n \in T => n + 1 \in T
  PROVE  \A n \in Nat : n \in T
<1>1. SUFFICES ASSUME Nat \ T # {} PROVE FALSE
  OBVIOUS
<1>2. PICK m \in Nat \ T : \A k \in Nat \ T : m <= k
  BY <1>1, LeastNatural
<1>3. m # 0 /\ m - 1 \in Nat /\ m - 1 \notin Nat \ T
  BY <1>2
<1> QED BY <1>2, <1>3

LEMMA FoldsExist ==
  ASSUME NEW events, NEW k \in Nat
  PROVE  \E f : Folds(events, k, f)
<1> DEFINE Good == {n \in Nat : \E f : Folds(events, n, f)}
<1>1. 0 \in Good
  <2> DEFINE f == [n \in 0..0 |-> <<>>]
  <2>1. Folds(events, 0, f)
    BY DEF Folds
  <2> QED BY <2>1
<1>2. ASSUME NEW n \in Nat, n \in Good PROVE n + 1 \in Good
  <2>1. PICK f : Folds(events, n, f)
    BY <1>2
  <2> DEFINE g == [m \in 0..(n + 1) |-> IF m = n + 1 THEN FoldEvent(f[n], events[n + 1], n) ELSE f[m]]
  <2>2. \A m \in 0..n : g[m] = f[m]
    OBVIOUS
  <2>3. \A m \in 0..n : f[m] = IF m = 0 THEN <<>> ELSE FoldEvent(f[m - 1], events[m], m - 1)
    BY <2>1 DEF Folds
  <2>4. ASSUME NEW m \in 0..(n + 1)
        PROVE  g[m] = IF m = 0 THEN <<>> ELSE FoldEvent(g[m - 1], events[m], m - 1)
    <3>1. CASE m = n + 1
      BY <3>1, <2>2
    <3>2. CASE m # n + 1
      <4>1. m \in 0..n /\ (m # 0 => m - 1 \in 0..n)
        BY <3>2
      <4> QED BY <4>1, <2>2, <2>3
    <3> QED BY <3>1, <3>2
  <2>5. Folds(events, n + 1, g)
    BY <2>4 DEF Folds
  <2> QED BY <2>5
<1> HIDE DEF Good
<1>3. k \in Good
  BY <1>1, <1>2, NaturalsIn
<1> QED BY <1>3 DEF Good

LEMMA FoldsAgree ==
  ASSUME NEW events, NEW more, NEW k \in Nat, NEW l \in Nat, k <= l,
         \A i \in 1..k : more[i] = events[i],
         NEW f, Folds(events, k, f), NEW g, Folds(more, l, g)
  PROVE  \A n \in 0..k : f[n] = g[n]
<1> DEFINE Same == {n \in Nat : n <= k => f[n] = g[n]}
<1>1. \A m \in 0..k : /\ f[m] = IF m = 0 THEN <<>> ELSE FoldEvent(f[m - 1], events[m], m - 1)
                      /\ g[m] = IF m = 0 THEN <<>> ELSE FoldEvent(g[m - 1], more[m], m - 1)
  BY DEF Folds
<1>2. 0 \in Same
  BY <1>1
<1>3. ASSUME NEW n \in Nat, n \in Same PROVE n + 1 \in Same
  <2>1. SUFFICES ASSUME n + 1 <= k PROVE f[n + 1] = g[n + 1]
    OBVIOUS
  <2>2. n + 1 \in 0..k /\ n + 1 \in 1..k /\ (n + 1) - 1 = n /\ f[n] = g[n]
    BY <1>3, <2>1
  <2> QED BY <1>1, <2>2
<1> HIDE DEF Same
<1>4. \A n \in Nat : n \in Same
  BY <1>2, <1>3, NaturalsIn
<1> QED BY <1>4 DEF Same

LEMMA FoldSurfaceIsLast ==
  ASSUME NEW S, NEW events \in Seq(S)
  PROVE  \E f : Folds(events, Len(events), f) /\ FoldSurface(events) = f[Len(events)]
<1> DEFINE fold == CHOOSE f : f = [n \in 0..Len(events) |->
                     IF n = 0 THEN <<>> ELSE FoldEvent(f[n - 1], events[n], n - 1)]
<1>1. \E f : f = [n \in 0..Len(events) |->
                     IF n = 0 THEN <<>> ELSE FoldEvent(f[n - 1], events[n], n - 1)]
  BY FoldsExist DEF Folds
<1>2. FoldSurface(events) = fold[Len(events)]
  BY DEF FoldSurface
<1>3. fold = [n \in 0..Len(events) |->
                     IF n = 0 THEN <<>> ELSE FoldEvent(fold[n - 1], events[n], n - 1)]
  BY <1>1
<1> QED BY <1>2, <1>3 DEF Folds

\* One event more is one step more of the fold.
LEMMA FoldSurfaceAppends ==
  ASSUME NEW S, NEW events \in Seq(S), NEW e \in S
  PROVE  FoldSurface(Append(events, e)) = FoldEvent(FoldSurface(events), e, Len(events))
<1> DEFINE more == Append(events, e)
           k == Len(events)
<1>1. more \in Seq(S) /\ Len(more) = k + 1 /\ k \in Nat
      /\ (\A i \in 1..k : more[i] = events[i]) /\ more[k + 1] = e
  OBVIOUS
<1>2. PICK f : Folds(events, k, f) /\ FoldSurface(events) = f[k]
  BY FoldSurfaceIsLast
<1> HIDE DEF more
<1>3. PICK g : Folds(more, k + 1, g) /\ FoldSurface(more) = g[k + 1]
  BY <1>1, FoldSurfaceIsLast
<1>4. \A n \in 0..k : f[n] = g[n]
  <2> DEFINE l == k + 1
  <2>1. l \in Nat /\ k <= l /\ Folds(more, l, g)
    BY <1>1, <1>3
  <2> HIDE DEF k, l
  <2> QED BY <1>1, <1>2, <2>1, FoldsAgree
<1>5. g[k + 1] = FoldEvent(g[k], e, k)
  BY <1>1, <1>3 DEF Folds
<1> QED BY <1>1, <1>2, <1>3, <1>4, <1>5 DEF more

LEMMA FoldSurfaceOfNothing == FoldSurface(<<>>) = <<>>
<1>1. <<>> \in Seq({}) /\ Len(<<>>) = 0
  OBVIOUS
<1>2. PICK f : Folds(<<>>, 0, f) /\ FoldSurface(<<>>) = f[0]
  BY <1>1, FoldSurfaceIsLast
<1> QED BY <1>2 DEF Folds

-----------------------------------------------------------------------------
(* What an event does to the surface.                                      *)

Distinct(nodes) == \A i, j \in DOMAIN nodes : nodes[i] = nodes[j] => i = j

\* Every node of new is seq or one of nodes, and those are in their order.
Thins(nodes, new, seq) ==
  /\ \A i \in DOMAIN new : new[i] = seq \/ \E a \in DOMAIN nodes : new[i] = nodes[a]
  /\ \A i, j \in DOMAIN new, a, b \in DOMAIN nodes :
       i < j /\ new[i] = nodes[a] /\ new[j] = nodes[b] => a < b

LEMMA PositionOfNode ==
  ASSUME NEW nodes \in Seq(Nat), Distinct(nodes), NEW i \in DOMAIN nodes
  PROVE  positionOf(nodes, nodes[i]) = i
<1> DEFINE Here(k) == k \in DOMAIN nodes /\ nodes[k] = nodes[i] /\ \A j \in 1..(k - 1) : nodes[j] # nodes[i]
<1>1. Here(i)
  BY DEF Distinct
<1>2. \A k : Here(k) => k = i
  BY DEF Distinct
<1>3. positionOf(nodes, nodes[i]) = CHOOSE k : Here(k)
  BY Zenon DEF positionOf
<1> HIDE DEF Here
<1> QED BY <1>1, <1>2, <1>3

\* new is left, then x, then right.
Joins(left, x, right, new) ==
  /\ new \in Seq(Nat) /\ Len(new) = Len(left) + 1 + Len(right)
  /\ \A i \in 1..Len(left) : new[i] = left[i]
  /\ new[Len(left) + 1] = x
  /\ \A i \in 1..Len(right) : new[Len(left) + 1 + i] = right[i]

LEMMA ThreeParts ==
  ASSUME NEW left \in Seq(Nat), NEW x \in Nat, NEW right \in Seq(Nat)
  PROVE  Joins(left, x, right, left \o <<x>> \o right)
<1> DEFINE front == Append(left, x)
           new == left \o <<x>> \o right
<1>1. left \o <<x>> = front
  OBVIOUS
<1>2. /\ front \in Seq(Nat) /\ Len(front) = Len(left) + 1
      /\ \A i \in 1..Len(left) : front[i] = left[i]
      /\ front[Len(left) + 1] = x
  OBVIOUS
<1> HIDE DEF front
<1>3. new = front \o right
  BY <1>1
<1> HIDE DEF new
<1>4. /\ new \in Seq(Nat) /\ Len(new) = Len(front) + Len(right)
      /\ \A i \in 1..(Len(front) + Len(right)) :
           new[i] = IF i <= Len(front) THEN front[i] ELSE right[i - Len(front)]
  <2>1. /\ front \o right \in Seq(Nat) /\ Len(front \o right) = Len(front) + Len(right)
        /\ \A i \in 1..(Len(front) + Len(right)) :
             (front \o right)[i] = IF i <= Len(front) THEN front[i] ELSE right[i - Len(front)]
    BY <1>2, ConcatProperties, Zenon
  <2> QED BY <1>3, <2>1
<1>5. Len(left) \in Nat /\ Len(right) \in Nat
  OBVIOUS
<1>6. \A i \in 1..(Len(left) + 1) : new[i] = front[i]
  BY <1>2, <1>4, <1>5
<1>7. ASSUME NEW i \in 1..Len(right) PROVE new[Len(left) + 1 + i] = right[i]
  <2>1. Len(front) + i \in 1..(Len(front) + Len(right)) /\ ~(Len(front) + i <= Len(front))
    BY <1>2, <1>5
  <2>2. (Len(front) + i) - Len(front) = i
    BY <1>2, <1>5
  <2>3. new[Len(front) + i] = right[i]
    BY <1>4, <2>1, <2>2
  <2> QED BY <1>2, <2>3
<1>8. Joins(left, x, right, new)
  BY <1>2, <1>4, <1>5, <1>6, <1>7 DEF Joins
<1> QED BY <1>8 DEF new

\* In new, x stands for the nodes from lo to hi.
Covers(nodes, lo, hi, x, new) ==
  /\ lo \in 1..Len(nodes) /\ hi \in lo..Len(nodes)
  /\ new \in Seq(Nat) /\ Len(new) = lo + (Len(nodes) - hi)
  /\ \A i \in 1..(lo - 1) : new[i] = nodes[i]
  /\ new[lo] = x
  /\ \A i \in 1..(Len(nodes) - hi) : new[lo + i] = nodes[hi + i]

LEMMA CoverShape ==
  ASSUME NEW nodes \in Seq(Nat), NEW p \in DOMAIN nodes, NEW q \in DOMAIN nodes, NEW seq \in Nat
  PROVE  Covers(nodes, Lower(p, q), Upper(p, q), seq, Cover(nodes, p, q, seq))
<1>0. PICK lo, hi, new : lo = Lower(p, q) /\ hi = Upper(p, q) /\ new = Cover(nodes, p, q, seq)
  OBVIOUS
<1>1. lo \in 1..Len(nodes) /\ hi \in lo..Len(nodes) /\ Len(nodes) \in Nat
  BY <1>0 DEF Lower, Upper
<1> DEFINE left == SubSeq(nodes, 1, lo - 1)
           right == SubSeq(nodes, hi + 1, Len(nodes))
<1>2. /\ left \in Seq(Nat) /\ Len(left) = lo - 1
      /\ \A i \in 1..(lo - 1) : left[i] = nodes[i]
  BY <1>1, SMTT(30)
<1>3. /\ right \in Seq(Nat) /\ Len(right) = Len(nodes) - hi
      /\ \A i \in 1..(Len(nodes) - hi) : right[i] = nodes[hi + i]
  <2>1. hi + 1 \in Int /\ Len(nodes) \in Int /\ \A i \in (hi + 1)..Len(nodes) : nodes[i] \in Nat
    BY <1>1
  <2>2. /\ right \in Seq(Nat)
        /\ Len(right) = IF hi + 1 <= Len(nodes) THEN Len(nodes) - (hi + 1) + 1 ELSE 0
        /\ \A i \in 1..(Len(nodes) - (hi + 1) + 1) : right[i] = nodes[(hi + 1) + i - 1]
    BY <2>1, SubSeqProperties
  <2> HIDE DEF right
  <2>3. Len(right) = Len(nodes) - hi
    BY <1>1, <2>2
  <2>4. ASSUME NEW i \in 1..(Len(nodes) - hi) PROVE right[i] = nodes[hi + i]
    <3>1. i \in 1..(Len(nodes) - (hi + 1) + 1) /\ (hi + 1) + i - 1 = hi + i
      BY <1>1
    <3> QED BY <2>2, <3>1
  <2> QED BY <2>2, <2>3, <2>4
<1>4. new = left \o <<seq>> \o right
  BY <1>0 DEF Cover
<1> HIDE DEF left, right
<1>5. Joins(left, seq, right, new)
  BY <1>2, <1>3, <1>4, ThreeParts
<1>6. Len(left) + 1 = lo
  BY <1>1, <1>2
<1>7. Covers(nodes, lo, hi, seq, new)
  BY <1>1, <1>2, <1>3, <1>5, <1>6 DEF Joins, Covers
<1> QED BY <1>0, <1>7

LEMMA CoverThins ==
  ASSUME NEW nodes \in Seq(Nat), Distinct(nodes), NEW p \in DOMAIN nodes, NEW q \in DOMAIN nodes,
         NEW seq \in Nat, \A i \in DOMAIN nodes : nodes[i] < seq,
         NEW new, new = Cover(nodes, p, q, seq)
  PROVE  new \in Seq(Nat) /\ Distinct(new) /\ Thins(nodes, new, seq)
<1>0. PICK lo, hi : lo = Lower(p, q) /\ hi = Upper(p, q)
  OBVIOUS
<1>1. /\ lo \in 1..Len(nodes) /\ hi \in lo..Len(nodes)
      /\ new \in Seq(Nat) /\ Len(new) = lo + (Len(nodes) - hi)
      /\ \A i \in 1..(lo - 1) : new[i] = nodes[i]
      /\ new[lo] = seq
      /\ \A i \in 1..(Len(nodes) - hi) : new[lo + i] = nodes[hi + i]
  BY <1>0, CoverShape DEF Covers
<1> DEFINE Old(i) == IF i < lo THEN i ELSE hi + (i - lo)
<1>2. ASSUME NEW i \in DOMAIN new, i # lo
      PROVE  Old(i) \in DOMAIN nodes /\ new[i] = nodes[Old(i)]
  <2>1. CASE i < lo
    BY <1>1, <2>1
  <2>2. CASE ~(i < lo)
    <3>0. i \in 1..Len(new) /\ i > lo
      BY <1>1, <1>2, <2>2, SMTT(30)
    <3>1. i - lo \in 1..(Len(nodes) - hi) /\ lo + (i - lo) = i
      <4>1. lo \in Int /\ hi \in Int /\ Len(nodes) \in Int /\ i \in Int /\ i <= lo + (Len(nodes) - hi)
        BY <1>1, <3>0
      <4> QED BY <3>0, <4>1
    <3>2. Old(i) = hi + (i - lo) /\ Old(i) \in DOMAIN nodes
      BY <1>1, <2>2, <3>1
    <3>3. new[lo + (i - lo)] = nodes[hi + (i - lo)]
      BY <1>1, <3>1
    <3> QED BY <3>1, <3>2, <3>3
  <2> QED BY <2>1, <2>2
<1>3. \A i, j \in DOMAIN new : i < j /\ i # lo /\ j # lo => Old(i) < Old(j)
  <2>1. DOMAIN new \subseteq Int /\ lo \in Int /\ hi \in Int /\ lo <= hi
    BY <1>1
  <2> QED BY <2>1
<1> HIDE DEF Old
<1>4. \A a \in DOMAIN nodes : nodes[a] # seq
  OBVIOUS
<1>5. \A i \in DOMAIN new, a \in DOMAIN nodes : new[i] = nodes[a] => i # lo /\ a = Old(i)
  BY <1>1, <1>2, <1>4 DEF Distinct
<1>6. Distinct(new)
  <2>1. ASSUME NEW i \in DOMAIN new, NEW j \in DOMAIN new, i < j PROVE new[i] # new[j]
    <3>1. i \in Int /\ j \in Int
      BY <1>1
    <3>2. CASE i = lo \/ j = lo
      BY <1>1, <1>2, <1>4, <2>1, <3>1, <3>2, SMTT(30)
    <3>3. CASE i # lo /\ j # lo
      <4>1. Old(i) < Old(j) /\ Old(i) \in Int /\ Old(j) \in Int
        BY <1>2, <1>3, <2>1, <3>3
      <4> QED BY <1>2, <3>3, <4>1 DEF Distinct
    <3> QED BY <3>2, <3>3
  <2>2. \A i, j \in DOMAIN new : i = j \/ i < j \/ j < i
    BY <1>1
  <2> QED BY <2>1, <2>2 DEF Distinct
<1>7. Thins(nodes, new, seq)
  <2>1. \A i \in DOMAIN new : new[i] = seq \/ \E a \in DOMAIN nodes : new[i] = nodes[a]
    BY <1>1, <1>2
  <2>2. ASSUME NEW i \in DOMAIN new, NEW j \in DOMAIN new, NEW a \in DOMAIN nodes,
               NEW b \in DOMAIN nodes, i < j, new[i] = nodes[a], new[j] = nodes[b]
        PROVE  a < b
    BY <1>3, <1>5, <2>2
  <2> QED BY <2>1, <2>2 DEF Thins
<1> QED BY <1>1, <1>6, <1>7

LEMMA AppendThins ==
  ASSUME NEW nodes \in Seq(Nat), Distinct(nodes),
         NEW seq \in Nat, \A i \in DOMAIN nodes : nodes[i] < seq,
         NEW new, new = Append(nodes, seq)
  PROVE  new \in Seq(Nat) /\ Distinct(new) /\ Thins(nodes, new, seq)
<1>1. /\ new \in Seq(Nat) /\ Len(new) = Len(nodes) + 1 /\ new[Len(nodes) + 1] = seq
      /\ \A i \in DOMAIN nodes : new[i] = nodes[i]
      /\ DOMAIN new = 1..(Len(nodes) + 1) /\ DOMAIN nodes = 1..Len(nodes) /\ Len(nodes) \in Nat
  OBVIOUS
<1>2. \A i \in DOMAIN new : i = Len(nodes) + 1 \/ i \in DOMAIN nodes
  BY <1>1
<1>3. Distinct(new)
  BY <1>1, <1>2 DEF Distinct
<1>4. Thins(nodes, new, seq)
  BY <1>1, <1>2 DEF Thins, Distinct
<1> QED BY <1>1, <1>3, <1>4

\* The surface after an event Append accepts, computed either way.
LEMMA EventApplied ==
  ASSUME NEW nodes \in Seq(Nat), Distinct(nodes), NEW seq \in Nat,
         \A i \in DOMAIN nodes : nodes[i] < seq,
         NEW e, IF IsSurfaceType(e.kind) THEN e.op # NoOp /\ validateNextSurface(nodes, e)
                                        ELSE e.op = NoOp
  PROVE  /\ applySurface(nodes, e, seq) \in Seq(Nat)
         /\ Distinct(applySurface(nodes, e, seq))
         /\ Thins(nodes, applySurface(nodes, e, seq), seq)
         /\ HasMessage(e) \/ applySurface(nodes, e, seq) = nodes
         /\ FoldEvent(nodes, e, seq) = applySurface(nodes, e, seq)
<1>1. nodes # Unfoldable
  BY DEF Unfoldable
<1>2. CASE ~HasMessage(e)
  <2>1. applySurface(nodes, e, seq) = nodes /\ FoldEvent(nodes, e, seq) = nodes
    BY <1>2 DEF applySurface, FoldEvent
  <2> QED BY <2>1 DEF Thins, Distinct
<1>3. CASE HasMessage(e) /\ e.op.op # "replace"
  <2>1. /\ applySurface(nodes, e, seq) = Append(nodes, seq)
        /\ FoldEvent(nodes, e, seq) = Append(nodes, seq)
    BY <1>1, <1>3 DEF applySurface, FoldEvent, HasMessage, IsSurfaceType
  <2> QED BY <1>3, <2>1, AppendThins
<1>4. CASE HasMessage(e) /\ e.op.op = "replace"
  <2> DEFINE p == positionOf(nodes, e.op.start)
             q == positionOf(nodes, e.op.end)
  <2>1. OnSurface(nodes, e.op.start) /\ OnSurface(nodes, e.op.end) /\ e.op # NoOp
    BY <1>4 DEF HasMessage, IsSurfaceType, validateNextSurface
  <2>2. p \in DOMAIN nodes /\ q \in DOMAIN nodes
    BY <2>1, PositionOfNode DEF OnSurface
  <2>3. /\ applySurface(nodes, e, seq) = Cover(nodes, p, q, seq)
        /\ FoldEvent(nodes, e, seq) = Cover(nodes, p, q, seq)
    BY <1>1, <1>4, <2>1 DEF applySurface, FoldEvent, HasMessage, IsSurfaceType
  <2> HIDE DEF p, q
  <2> QED BY <1>4, <2>2, <2>3, CoverThins
<1> QED BY <1>2, <1>3, <1>4

-----------------------------------------------------------------------------
(* The invariant.                                                          *)

IInv == TypeOK /\ ShowsEventsOnce /\ SurfaceIsFold

LEMMA InitEstablishes == Init => IInv
BY FoldSurfaceOfNothing DEF Init, IInv, TypeOK, ShowsEventsOnce, SurfaceIsFold

\* What every step is.
LEMMA StepAppends ==
  ASSUME TypeOK, Next
  PROVE  \E e \in Events \cup {EndSeedEvent} : AppendEvent(e) /\ firstLiveSeq' \in Nat
<1>1. ASSUME NEW e \in Events, AppendSeed(e) \/ AppendLive(e)
      PROVE  AppendEvent(e) /\ firstLiveSeq' \in Nat
  <2>1. AppendEvent(e)
    BY <1>1 DEF AppendSeed, AppendLive
  <2>2. Len(log') \in Nat
    BY <2>1 DEF AppendEvent, TypeOK
  <2> QED BY <1>1, <2>1, <2>2 DEF AppendSeed, AppendLive, TypeOK
<1>2. ASSUME EndSeed PROVE AppendEvent(EndSeedEvent) /\ firstLiveSeq' \in Nat
  BY <1>2 DEF EndSeed, TypeOK
<1> QED BY <1>1, <1>2 DEF Next

LEMMA AppendKeeps ==
  ASSUME IInv, NEW e \in Events \cup {EndSeedEvent}, AppendEvent(e), firstLiveSeq' \in Nat
  PROVE  IInv' /\ Thins(surface, surface', Len(log))
<1>1. /\ log \in Seq(Events \cup {EndSeedEvent}) /\ surface \in Seq(Nat) /\ Len(log) \in Nat
      /\ Distinct(surface)
      /\ \A i \in DOMAIN surface : surface[i] < Len(log) /\ HasMessage(log[surface[i] + 1])
  BY DEF IInv, TypeOK, ShowsEventsOnce, Distinct
<1>2. log' = Append(log, e) /\ surface' = applySurface(surface, e, Len(log)) /\ Accepts(e)
  BY DEF AppendEvent
<1>3. /\ surface' \in Seq(Nat) /\ Distinct(surface') /\ Thins(surface, surface', Len(log))
      /\ HasMessage(e) \/ surface' = surface
      /\ FoldEvent(surface, e, Len(log)) = surface'
  BY <1>1, <1>2, EventApplied DEF Accepts
<1>4. /\ log' \in Seq(Events \cup {EndSeedEvent}) /\ Len(log') = Len(log) + 1
      /\ log'[Len(log) + 1] = e /\ \A i \in 1..Len(log) : log'[i] = log[i]
  BY <1>1, <1>2
<1>5. ASSUME NEW i \in DOMAIN surface'
      PROVE  surface'[i] < Len(log') /\ HasMessage(log'[surface'[i] + 1])
  <2>2. ASSUME NEW a \in DOMAIN surface, surface'[i] = surface[a]
        PROVE  surface'[i] < Len(log') /\ HasMessage(log'[surface'[i] + 1])
    BY <1>1, <1>4, <2>2
  <2>3. CASE surface'[i] = Len(log) /\ HasMessage(e)
    BY <1>1, <1>4, <2>3
  <2>4. surface' # surface => HasMessage(e)
    BY <1>3
  <2>5. surface'[i] = Len(log) \/ \E a \in DOMAIN surface : surface'[i] = surface[a]
    BY <1>3 DEF Thins
  <2>6. CASE surface' = surface
    <3>1. i \in DOMAIN surface /\ surface'[i] = surface[i]
      BY <1>5, <2>6
    <3> QED BY <2>2, <3>1
  <2> QED BY <2>2, <2>3, <2>4, <2>5, <2>6
<1>6. TypeOK'
  BY <1>3, <1>4 DEF TypeOK
<1>7. ShowsEventsOnce'
  BY <1>3, <1>5 DEF ShowsEventsOnce, Distinct
<1>8. FoldSurface(log') = FoldEvent(FoldSurface(log), e, Len(log))
  BY <1>1, <1>2, FoldSurfaceAppends
<1>9. SurfaceIsFold'
  BY <1>3, <1>8 DEF IInv, SurfaceIsFold
<1> QED BY <1>3, <1>6, <1>7, <1>9 DEF IInv

LEMMA Invariance == Spec => []IInv
<1>1. ASSUME IInv, [Next]_vars PROVE IInv'
  <2>1. ASSUME Next PROVE IInv'
    <3>1. TypeOK
      BY <1>1 DEF IInv
    <3>2. PICK e \in Events \cup {EndSeedEvent} : AppendEvent(e) /\ firstLiveSeq' \in Nat
      BY <2>1, <3>1, StepAppends
    <3> QED BY <1>1, <3>2, AppendKeeps
  <2>2. ASSUME UNCHANGED vars PROVE IInv'
    <3>1. log' = log /\ surface' = surface /\ firstLiveSeq' = firstLiveSeq
      BY <2>2 DEF vars
    <3>2. SurfaceIsFold'
      BY <1>1, <3>1 DEF IInv, SurfaceIsFold
    <3> QED BY <1>1, <3>1, <3>2 DEF IInv, TypeOK, ShowsEventsOnce
  <2> QED BY <1>1, <2>1, <2>2
<1> QED BY InitEstablishes, <1>1, PTL DEF Spec

-----------------------------------------------------------------------------
\* Log, surface and seed boundary keep their types.
THEOREM LogTypeCorrect == Spec => []TypeOK
<1>1. IInv => TypeOK
  BY DEF IInv
<1> QED BY <1>1, Invariance, PTL

\* However long the log and whatever replaced what, a session read back from
\* its log shows the model the messages it showed before: FoldSurface accepts
\* every log Append let through and comes to the same surface.
THEOREM SurfaceSurvivesReload == Spec => []SurfaceIsFold
<1>1. IInv => SurfaceIsFold
  BY DEF IInv
<1> QED BY <1>1, Invariance, PTL

\* The surface shows each event at most once, and only events with a message.
THEOREM EventsShownOnce == Spec => []ShowsEventsOnce
<1>1. IInv => ShowsEventsOnce
  BY DEF IInv
<1> QED BY <1>1, Invariance, PTL

\* What a replace has hidden never comes back, and what stays keeps its order.
THEOREM HiddenForGood == Spec => HiddenStaysHidden
<1> DEFINE Kept ==
      /\ \A s \in 0..(Len(log) - 1) : s \in Shown' => s \in Shown
      /\ \A i, j \in DOMAIN surface :
           i < j /\ surface[i] \in Shown' /\ surface[j] \in Shown' =>
             positionOf(surface', surface[i]) < positionOf(surface', surface[j])
<1>1. ASSUME IInv, Next PROVE Kept
  <2>1. IInv' /\ Thins(surface, surface', Len(log))
    BY <1>1, StepAppends, AppendKeeps DEF IInv
  <2>2. /\ Distinct(surface) /\ surface \in Seq(Nat) /\ Len(log) \in Nat
        /\ Distinct(surface') /\ surface' \in Seq(Nat)
    BY <1>1, <2>1 DEF IInv, TypeOK, ShowsEventsOnce, Distinct
  <2>3. ASSUME NEW s \in 0..(Len(log) - 1), s \in Shown' PROVE s \in Shown
    <3>1. PICK i \in DOMAIN surface' : surface'[i] = s
      BY <2>3 DEF Shown
    <3>2. s # Len(log)
      BY <2>2
    <3> QED BY <2>1, <3>1, <3>2 DEF Shown, Thins
  <2>4. ASSUME NEW i \in DOMAIN surface, NEW j \in DOMAIN surface, i < j,
               surface[i] \in Shown', surface[j] \in Shown'
        PROVE  positionOf(surface', surface[i]) < positionOf(surface', surface[j])
    <3>1. PICK a \in DOMAIN surface' : surface'[a] = surface[i]
      BY <2>4 DEF Shown
    <3>2. PICK b \in DOMAIN surface' : surface'[b] = surface[j]
      BY <2>4 DEF Shown
    <3>3. a < b
      <4>1. a # b
        BY <2>2, <2>4, <3>1, <3>2 DEF Distinct
      <4>2. ~(b < a)
        BY <2>1, <2>2, <2>4, <3>1, <3>2 DEF Thins
      <4> QED BY <2>2, <4>1, <4>2
    <3>4. positionOf(surface', surface'[a]) = a /\ positionOf(surface', surface'[b]) = b
      BY <2>2, PositionOfNode
    <3> QED BY <3>1, <3>2, <3>3, <3>4
  <2> QED BY <2>3, <2>4
<1>2. ASSUME IInv, UNCHANGED vars PROVE Kept
  <2>1. surface' = surface /\ Shown' = Shown
    BY <1>2 DEF vars, Shown
  <2>2. Distinct(surface) /\ surface \in Seq(Nat)
    BY <1>2 DEF IInv, TypeOK, ShowsEventsOnce, Distinct
  <2> QED BY <2>1, <2>2, PositionOfNode
<1>3. IInv /\ [Next]_vars => [Kept]_vars
  BY <1>1
<1> QED BY Invariance, <1>3, PTL DEF Spec, HiddenStaysHidden
=============================================================================
