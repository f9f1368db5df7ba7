--------------------------- MODULE AgentTurnProofs ---------------------------
(***************************************************************************)
(* Theorems about AgentTurn, for any bounds.  A first invariant, IInv, is  *)
(* about what the repair's scan finds open in the log of an agent; a       *)
(* second one, HaveEnds, says that whatever lacks its end is among it.     *)
(***************************************************************************)
EXTENDS AgentTurn, FiniteSetTheorems, WellFoundedInduction, TLAPS

-----------------------------------------------------------------------------
(* Induction over a log.                                                   *)

LEMMA LeastNatural ==
  ASSUME NEW T, T \subseteq Nat, T # {}
  PROVE  \E m \in T : \A k \in T : m <= k
<1>1. PICK m \in T : \A k \in T : ~(<<k, m>> \in OpToRel(<, Nat))
  BY NatLessThanWellFounded, WFMin
<1>2. ASSUME NEW k \in T PROVE m <= k
  <2>1. ~(k < m)
    BY <1>1, <<k, m>> \in Nat \X Nat DEF OpToRel
  <2> QED BY <2>1
<1> QED BY <1>2

LEMMA NaturalsIn ==
  ASSUME NEW G, 0 \in G, \A n \in Nat : n \in G => n + 1 \in G
  PROVE  Nat \subseteq G
<1> SUFFICES ASSUME Nat \ G # {} PROVE FALSE
  OBVIOUS
<1>1. Nat \ G \in SUBSET Nat
  OBVIOUS
<1>2. PICK n \in Nat \ G : \A m \in Nat \ G : n <= m
  BY <1>1, LeastNatural
<1>3. n - 1 \in Nat /\ n - 1 \notin Nat \ G /\ n - 1 + 1 = n
  BY <1>2
<1> QED BY <1>2, <1>3

-----------------------------------------------------------------------------
(* The two folds over a log, and what one more event does to them.         *)

\* g[n] is what the first n events have left open.
Scans(f, k, g) ==
  g = [n \in 0..k |-> IF n = 0 THEN NothingOpen ELSE ScanEvent(g[n - 1], f[n])]

LEMMA ScansExist ==
  ASSUME NEW f, NEW k \in Nat
  PROVE  \E g : Scans(f, k, g)
<1> DEFINE Good == {n \in Nat : \E g : Scans(f, n, g)}
<1>1. 0 \in Good
  <2> DEFINE g == [n \in 0..0 |-> NothingOpen]
  <2>1. Scans(f, 0, g)
    BY DEF Scans
  <2> QED BY <2>1
<1>2. ASSUME NEW n \in Nat, n \in Good PROVE n + 1 \in Good
  <2>1. PICK g : Scans(f, n, g)
    BY <1>2
  <2> DEFINE h == [i \in 0..(n + 1) |-> IF i = n + 1 THEN ScanEvent(g[n], f[n + 1]) ELSE g[i]]
  <2>2. \A i \in 0..n : g[i] = IF i = 0 THEN NothingOpen ELSE ScanEvent(g[i - 1], f[i])
    BY <2>1 DEF Scans
  <2>3. ASSUME NEW i \in 0..(n + 1)
        PROVE  h[i] = IF i = 0 THEN NothingOpen ELSE ScanEvent(h[i - 1], f[i])
    <3>1. CASE i = n + 1
      <4>1. i # 0 /\ i - 1 = n /\ n \in 0..(n + 1) /\ n # n + 1
        BY <3>1
      <4>2. h[i] = ScanEvent(g[n], f[n + 1]) /\ h[n] = g[n]
        BY <3>1, <4>1
      <4> QED BY <3>1, <4>1, <4>2
    <3>2. CASE i # n + 1
      <4>1. i \in 0..n /\ h[i] = g[i]
        BY <3>2
      <4>2. i # 0 => i - 1 \in 0..(n + 1) /\ i - 1 # n + 1 /\ h[i - 1] = g[i - 1]
        BY <4>1
      <4> HIDE DEF h
      <4> QED BY <2>2, <4>1, <4>2
    <3> QED BY <3>1, <3>2
  <2>4. h = [i \in 0..(n + 1) |-> h[i]]
    OBVIOUS
  <2> HIDE DEF h
  <2>5. Scans(f, n + 1, h)
    BY <2>3, <2>4 DEF Scans
  <2> QED BY <2>5
<1> HIDE DEF Good
<1>3. k \in Good
  BY <1>1, <1>2, NaturalsIn
<1> QED BY <1>3 DEF Good

LEMMA ScansAgree ==
  ASSUME NEW f, NEW g, NEW k \in Nat, Scans(f, k, g),
         NEW f2, NEW g2, NEW k2 \in Nat, Scans(f2, k2, g2),
         k <= k2, \A i \in 1..k : f[i] = f2[i]
  PROVE  g[k] = g2[k]
<1> DEFINE Good == {n \in Nat : n <= k => g[n] = g2[n]}
<1>0. /\ \A n \in 0..k : g[n] = IF n = 0 THEN NothingOpen ELSE ScanEvent(g[n - 1], f[n])
      /\ \A n \in 0..k2 : g2[n] = IF n = 0 THEN NothingOpen ELSE ScanEvent(g2[n - 1], f2[n])
  BY DEF Scans
<1>1. 0 \in Good
  BY <1>0
<1>2. ASSUME NEW n \in Nat, n \in Good PROVE n + 1 \in Good
  <2>1. SUFFICES ASSUME n + 1 <= k PROVE g[n + 1] = g2[n + 1]
    OBVIOUS
  <2>2. /\ n + 1 \in 0..k /\ n + 1 \in 0..k2 /\ n + 1 \in 1..k /\ n + 1 # 0 /\ n + 1 - 1 = n
        /\ g[n] = g2[n]
    BY <1>2, <2>1
  <2>3. g[n + 1] = ScanEvent(g[n], f[n + 1]) /\ g2[n + 1] = ScanEvent(g2[n], f2[n + 1])
    BY <1>0, <2>2
  <2> QED BY <2>2, <2>3
<1> HIDE DEF Good
<1>3. k \in Good
  BY <1>1, <1>2, NaturalsIn
<1> QED BY <1>3 DEF Good

LEMMA OpenIsLast ==
  ASSUME NEW f, NEW k \in Nat, Len(f) = k
  PROVE  \E g : Scans(f, k, g) /\ Open(f) = g[k]
<1> DEFINE Is(g) == g = [n \in 0..Len(f) |->
                          IF n = 0 THEN NothingOpen ELSE ScanEvent(g[n - 1], f[n])]
           open == CHOOSE g : Is(g)
<1>1. \A g : Is(g) <=> Scans(f, k, g)
  BY DEF Scans
<1>2. Open(f) = open[k]
  BY DEF Open
<1> HIDE DEF Is
<1>3. Is(open)
  BY <1>1, ScansExist
<1> HIDE DEF open
<1> QED BY <1>1, <1>2, <1>3

LEMMA OpenAppends ==
  ASSUME NEW S, NEW f \in Seq(S), NEW e \in S
  PROVE  Open(Append(f, e)) = ScanEvent(Open(f), e)
<1>1. PICK k : k = Len(f)
  OBVIOUS
<1>2. PICK m : m = k + 1
  OBVIOUS
<1>3. PICK h : h = Append(f, e)
  OBVIOUS
<1>4. /\ k \in Nat /\ m \in Nat /\ k <= m /\ Len(h) = m /\ h[m] = e
      /\ \A i \in 1..k : f[i] = h[i]
  BY <1>1, <1>2, <1>3
<1>5. PICK g : Scans(f, k, g) /\ Open(f) = g[k]
  BY <1>1, <1>4, OpenIsLast
<1>6. PICK g2 : Scans(h, m, g2) /\ Open(h) = g2[m]
  BY <1>4, OpenIsLast
<1>7. g[k] = g2[k]
  BY <1>4, <1>5, <1>6, ScansAgree, SMT
<1>8. m \in 0..m /\ m # 0 /\ m - 1 = k
  BY <1>2, <1>4
<1>9. g2[m] = ScanEvent(g2[k], h[m])
  BY <1>6, <1>8 DEF Scans
<1> QED BY <1>3, <1>4, <1>5, <1>6, <1>7, <1>9

LEMMA OpenOfNothing == Open(<<>>) = NothingOpen
<1>1. Len(<<>>) = 0 /\ 0 \in Nat
  OBVIOUS
<1>2. PICK g : Scans(<<>>, 0, g) /\ Open(<<>>) = g[0]
  BY <1>1, OpenIsLast
<1> QED BY <1>2 DEF Scans

NoBoundary == [turn |-> 0, step |-> 0]

\* g[n] is the turn and step the first n events lead to.
Bounds(f, k, g) ==
  g = [n \in 0..k |-> IF n = 0 THEN NoBoundary ELSE BoundaryEvent(g[n - 1], f[n])]

LEMMA BoundsExist ==
  ASSUME NEW f, NEW k \in Nat
  PROVE  \E g : Bounds(f, k, g)
<1> DEFINE Good == {n \in Nat : \E g : Bounds(f, n, g)}
<1>1. 0 \in Good
  <2> DEFINE g == [n \in 0..0 |-> NoBoundary]
  <2>1. Bounds(f, 0, g)
    BY DEF Bounds
  <2> QED BY <2>1
<1>2. ASSUME NEW n \in Nat, n \in Good PROVE n + 1 \in Good
  <2>1. PICK g : Bounds(f, n, g)
    BY <1>2
  <2> DEFINE h == [i \in 0..(n + 1) |-> IF i = n + 1 THEN BoundaryEvent(g[n], f[n + 1]) ELSE g[i]]
  <2>2. \A i \in 0..n : g[i] = IF i = 0 THEN NoBoundary ELSE BoundaryEvent(g[i - 1], f[i])
    BY <2>1 DEF Bounds
  <2>3. ASSUME NEW i \in 0..(n + 1)
        PROVE  h[i] = IF i = 0 THEN NoBoundary ELSE BoundaryEvent(h[i - 1], f[i])
    <3>1. CASE i = n + 1
      <4>1. i # 0 /\ i - 1 = n /\ n \in 0..(n + 1) /\ n # n + 1
        BY <3>1
      <4>2. h[i] = BoundaryEvent(g[n], f[n + 1]) /\ h[n] = g[n]
        BY <3>1, <4>1
      <4> QED BY <3>1, <4>1, <4>2
    <3>2. CASE i # n + 1
      <4>1. i \in 0..n /\ h[i] = g[i]
        BY <3>2
      <4>2. i # 0 => i - 1 \in 0..(n + 1) /\ i - 1 # n + 1 /\ h[i - 1] = g[i - 1]
        BY <4>1
      <4> HIDE DEF h
      <4> QED BY <2>2, <4>1, <4>2
    <3> QED BY <3>1, <3>2
  <2>4. h = [i \in 0..(n + 1) |-> h[i]]
    OBVIOUS
  <2> HIDE DEF h
  <2>5. Bounds(f, n + 1, h)
    BY <2>3, <2>4 DEF Bounds
  <2> QED BY <2>5
<1> HIDE DEF Good
<1>3. k \in Good
  BY <1>1, <1>2, NaturalsIn
<1> QED BY <1>3 DEF Good

LEMMA BoundsAgree ==
  ASSUME NEW f, NEW g, NEW k \in Nat, Bounds(f, k, g),
         NEW f2, NEW g2, NEW k2 \in Nat, Bounds(f2, k2, g2),
         k <= k2, \A i \in 1..k : f[i] = f2[i]
  PROVE  g[k] = g2[k]
<1> DEFINE Good == {n \in Nat : n <= k => g[n] = g2[n]}
<1>0. /\ \A n \in 0..k : g[n] = IF n = 0 THEN NoBoundary ELSE BoundaryEvent(g[n - 1], f[n])
      /\ \A n \in 0..k2 : g2[n] = IF n = 0 THEN NoBoundary ELSE BoundaryEvent(g2[n - 1], f2[n])
  BY DEF Bounds
<1>1. 0 \in Good
  BY <1>0
<1>2. ASSUME NEW n \in Nat, n \in Good PROVE n + 1 \in Good
  <2>1. SUFFICES ASSUME n + 1 <= k PROVE g[n + 1] = g2[n + 1]
    OBVIOUS
  <2>2. /\ n + 1 \in 0..k /\ n + 1 \in 0..k2 /\ n + 1 \in 1..k /\ n + 1 # 0 /\ n + 1 - 1 = n
        /\ g[n] = g2[n]
    BY <1>2, <2>1
  <2>3. g[n + 1] = BoundaryEvent(g[n], f[n + 1]) /\ g2[n + 1] = BoundaryEvent(g2[n], f2[n + 1])
    BY <1>0, <2>2
  <2> QED BY <2>2, <2>3
<1> HIDE DEF Good
<1>3. k \in Good
  BY <1>1, <1>2, NaturalsIn
<1> QED BY <1>3 DEF Good

LEMMA BoundaryIsLast ==
  ASSUME NEW f, NEW k \in Nat, Len(f) = k
  PROVE  \E g : Bounds(f, k, g) /\ turnBoundaryFrom(f) = g[k]
<1> DEFINE Is(g) == g = [n \in 0..Len(f) |->
                          IF n = 0 THEN NoBoundary ELSE BoundaryEvent(g[n - 1], f[n])]
           boundary == CHOOSE g : Is(g)
<1>1. \A g : Is(g) <=> Bounds(f, k, g)
  BY DEF Bounds
<1>2. turnBoundaryFrom(f) = boundary[k]
  BY DEF turnBoundaryFrom, NoBoundary
<1> HIDE DEF Is
<1>3. Is(boundary)
  BY <1>1, BoundsExist
<1> HIDE DEF boundary
<1> QED BY <1>1, <1>2, <1>3

LEMMA BoundaryAppends ==
  ASSUME NEW S, NEW f \in Seq(S), NEW e \in S
  PROVE  turnBoundaryFrom(Append(f, e)) = BoundaryEvent(turnBoundaryFrom(f), e)
<1>1. PICK k : k = Len(f)
  OBVIOUS
<1>2. PICK m : m = k + 1
  OBVIOUS
<1>3. PICK h : h = Append(f, e)
  OBVIOUS
<1>4. /\ k \in Nat /\ m \in Nat /\ k <= m /\ Len(h) = m /\ h[m] = e
      /\ \A i \in 1..k : f[i] = h[i]
  BY <1>1, <1>2, <1>3
<1>5. PICK g : Bounds(f, k, g) /\ turnBoundaryFrom(f) = g[k]
  BY <1>1, <1>4, BoundaryIsLast
<1>6. PICK g2 : Bounds(h, m, g2) /\ turnBoundaryFrom(h) = g2[m]
  BY <1>4, BoundaryIsLast
<1>7. g[k] = g2[k]
  BY <1>4, <1>5, <1>6, BoundsAgree, SMT
<1>8. m \in 0..m /\ m # 0 /\ m - 1 = k
  BY <1>2, <1>4
<1>9. g2[m] = BoundaryEvent(g2[k], h[m])
  BY <1>6, <1>8 DEF Bounds
<1> QED BY <1>3, <1>4, <1>5, <1>6, <1>7, <1>9

LEMMA BoundaryOfNothing == turnBoundaryFrom(<<>>) = NoBoundary
<1>1. Len(<<>>) = 0 /\ 0 \in Nat
  OBVIOUS
<1>2. PICK g : Bounds(<<>>, 0, g) /\ turnBoundaryFrom(<<>>) = g[0]
  BY <1>1, BoundaryIsLast
<1> QED BY <1>2 DEF Bounds

-----------------------------------------------------------------------------
(* What one event does to what is open.                                    *)

PendingType == [id : Ids, turn : Nat, step : Nat, recorded : BOOLEAN]
OpenType == [turn : Nat, step : Nat, pending : Seq(PendingType)]

Kinds == {"turn/start", "turn/end", "step/start", "step/end", "user/message",
          "assistant/message", "assistant/attempt", "tool/call", "tool/result"}

\* Every element of ps is one of T.  What is not taken out stays.
LEMMA WithoutThins ==
  ASSUME NEW T, NEW ps \in Seq(T), NEW id
  PROVE  /\ Without(ps, id) \in Seq(T)
         /\ \A i \in DOMAIN ps :
              ps[i].id # id => \E j \in DOMAIN Without(ps, id) : Without(ps, id)[j] = ps[i]
<1> DEFINE l == Len(ps)
           Is(g) == g = [n \in 0..Len(ps) |->
                          IF n = 0 THEN <<>>
                          ELSE IF ps[n].id = id THEN g[n - 1] ELSE Append(g[n - 1], ps[n])]
           Upto(k, g) == g = [n \in 0..k |->
                          IF n = 0 THEN <<>>
                          ELSE IF ps[n].id = id THEN g[n - 1] ELSE Append(g[n - 1], ps[n])]
           kept == CHOOSE g : Is(g)
           Good == {k \in Nat : \E g : Upto(k, g)}
<1>1. l \in Nat /\ \A n \in 1..l : ps[n] \in T
  OBVIOUS
<1>2. 0 \in Good
  <2> DEFINE g == [n \in 0..0 |-> <<>>]
  <2>1. Upto(0, g)
    OBVIOUS
  <2> QED BY <2>1
<1>3. ASSUME NEW k \in Nat, k \in Good PROVE k + 1 \in Good
  <2>1. PICK g : Upto(k, g)
    BY <1>3
  <2> DEFINE x == IF ps[k + 1].id = id THEN g[k] ELSE Append(g[k], ps[k + 1])
             h == [i \in 0..(k + 1) |-> IF i = k + 1 THEN x ELSE g[i]]
  <2>2. \A i \in 0..k : g[i] = IF i = 0 THEN <<>>
                               ELSE IF ps[i].id = id THEN g[i - 1] ELSE Append(g[i - 1], ps[i])
    BY <2>1
  <2> HIDE DEF Upto
  <2>3. ASSUME NEW i \in 0..(k + 1)
        PROVE  h[i] = IF i = 0 THEN <<>>
                      ELSE IF ps[i].id = id THEN h[i - 1] ELSE Append(h[i - 1], ps[i])
    <3>1. CASE i = k + 1
      <4>1. i # 0 /\ i - 1 = k /\ k \in 0..(k + 1) /\ k # k + 1
        BY <3>1
      <4>2. h[i] = x /\ h[k] = g[k]
        BY <3>1, <4>1
      <4> QED BY <3>1, <4>1, <4>2
    <3>2. CASE i # k + 1
      <4>1. i \in 0..k /\ h[i] = g[i]
        BY <3>2
      <4>2. i # 0 => i - 1 \in 0..(k + 1) /\ i - 1 # k + 1 /\ h[i - 1] = g[i - 1]
        BY <4>1
      <4> HIDE DEF h
      <4> QED BY <2>2, <4>1, <4>2
    <3> QED BY <3>1, <3>2
  <2>4. h = [i \in 0..(k + 1) |-> h[i]]
    OBVIOUS
  <2> HIDE DEF h
  <2>5. Upto(k + 1, h)
    BY <2>3, <2>4 DEF Upto
  <2> QED BY <2>5
<1> HIDE DEF Good
<1>4. l \in Good
  BY <1>1, <1>2, <1>3, NaturalsIn
<1>5. \E g : Is(g)
  BY <1>4 DEF Good
<1>6. Without(ps, id) = kept[l]
  BY DEF Without
<1> HIDE DEF Is, kept
<1>7. Is(kept)
  BY <1>5 DEF kept
<1> DEFINE Stays(n) == \A i \in 1..n : ps[i].id # id => \E j \in DOMAIN kept[n] : kept[n][j] = ps[i]
           In == {n \in Nat : n <= l => kept[n] \in Seq(T) /\ Stays(n)}
<1>8. \A n \in 0..l : kept[n] = IF n = 0 THEN <<>>
                                ELSE IF ps[n].id = id THEN kept[n - 1]
                                ELSE Append(kept[n - 1], ps[n])
  BY <1>7 DEF Is
<1>d. DOMAIN ps = 1..l
  OBVIOUS
<1> HIDE DEF l
<1>9. 0 \in In
  <2>1. 0 \in 0..l /\ <<>> \in Seq(T)
    BY <1>1
  <2>2. kept[0] = <<>>
    BY <1>8, <2>1
  <2>3. Stays(0)
    <3>1. 1..0 = {}
      OBVIOUS
    <3> QED BY <3>1
  <2> HIDE DEF Stays
  <2>4. kept[0] \in Seq(T)
    BY <2>1, <2>2
  <2> QED BY <2>3, <2>4
<1>10. ASSUME NEW n \in Nat, n \in In PROVE n + 1 \in In
  <2>1. SUFFICES ASSUME n + 1 <= l PROVE kept[n + 1] \in Seq(T) /\ Stays(n + 1)
    OBVIOUS
  <2>2. /\ n + 1 \in 0..l /\ n + 1 \in 1..l /\ n + 1 # 0 /\ n + 1 - 1 = n
        /\ kept[n] \in Seq(T) /\ ps[n + 1] \in T /\ Stays(n)
    BY <1>1, <1>10, <2>1
  <2>3. kept[n + 1] = IF ps[n + 1].id = id THEN kept[n] ELSE Append(kept[n], ps[n + 1])
    BY <1>8, <2>2
  <2>4. kept[n + 1] \in Seq(T)
    BY <2>2, <2>3
  <2>5. ASSUME NEW i \in 1..(n + 1), ps[i].id # id
        PROVE  \E j \in DOMAIN kept[n + 1] : kept[n + 1][j] = ps[i]
    <3>1. PICK a, b, p : a = kept[n] /\ b = kept[n + 1] /\ p = ps[n + 1]
      OBVIOUS
    <3>2. a \in Seq(T) /\ p \in T /\ b = IF p.id = id THEN a ELSE Append(a, p)
      BY <2>2, <2>3, <3>1
    <3>3. CASE i = n + 1
      <4>1. b = Append(a, p)
        BY <2>5, <3>1, <3>2, <3>3
      <4>2. Len(a) + 1 \in DOMAIN b /\ b[Len(a) + 1] = p
        BY <3>2, <4>1
      <4> QED BY <3>1, <3>3, <4>2
    <3>4. CASE i # n + 1
      <4>1. i \in 1..n
        BY <3>4
      <4>2. PICK j \in DOMAIN a : a[j] = ps[i]
        BY <2>2, <2>5, <3>1, <4>1
      <4>3. j \in DOMAIN b /\ b[j] = a[j]
        BY <3>2, <4>2
      <4> QED BY <3>1, <4>2, <4>3
    <3> QED BY <3>3, <3>4
  <2> QED BY <2>4, <2>5
<1> HIDE DEF In, Stays
<1>11. l \in In
  BY <1>1, <1>9, <1>10, NaturalsIn
<1>12. kept[l] \in Seq(T) /\ Stays(l)
  BY <1>1, <1>11 DEF In
<1> QED BY <1>6, <1>12, <1>d DEF Stays

\* What is open, by its parts.
OpenOf(t, s, ps) == [turn |-> t, step |-> s, pending |-> ps]

Asks(ids, e) == [i \in DOMAIN ids |-> Pending(ids[i], e, FALSE)]
Has(ps, id) == \E i \in DOMAIN ps : ps[i].id = id
Records(ps, id) ==
  [i \in DOMAIN ps |-> IF ps[i].id = id THEN [ps[i] EXCEPT !.recorded = TRUE] ELSE ps[i]]

ScanCases(o, e, t, s, ps) ==
  /\ e.kind = "turn/start" => ScanEvent(o, e) = OpenOf(e.turn, s, ps)
  /\ e.kind = "turn/end" => ScanEvent(o, e) = NothingOpen
  /\ e.kind = "step/start" => ScanEvent(o, e) = OpenOf(t, e.step, ps)
  /\ e.kind = "step/end" => ScanEvent(o, e) = OpenOf(t, 0, ps)
  /\ e.kind = "assistant/message" => ScanEvent(o, e) = OpenOf(t, s, ps \o Asks(e.calls, e))
  /\ e.kind = "tool/call" /\ Has(ps, e.call) =>
       ScanEvent(o, e) = OpenOf(t, s, Records(ps, e.call))
  /\ e.kind = "tool/call" /\ ~Has(ps, e.call) =>
       ScanEvent(o, e) = OpenOf(t, s, Append(ps, Pending(e.call, e, TRUE)))
  /\ e.kind = "tool/result" /\ e.form = "tool-result" =>
       ScanEvent(o, e) = OpenOf(t, s, Without(ps, e.call))
  /\ \/ e.kind \in {"user/message", "assistant/attempt"}
     \/ e.kind = "tool/result" /\ e.form # "tool-result"
     => ScanEvent(o, e) = o

LEMMA ScanIs ==
  ASSUME NEW o, NEW e, NEW t, NEW s, NEW ps, o = OpenOf(t, s, ps)
  PROVE  ScanCases(o, e, t, s, ps)
<1> USE DEF ScanCases
<1>1. o.turn = t /\ o.step = s /\ o.pending = ps
  BY DEF OpenOf
<1>2. ASSUME NEW x PROVE /\ [o EXCEPT !.turn = x] = OpenOf(x, s, ps)
                         /\ [o EXCEPT !.step = x] = OpenOf(t, x, ps)
                         /\ [o EXCEPT !.pending = x] = OpenOf(t, s, x)
  BY DEF OpenOf
<1>3. CASE e.kind = "turn/start"
  BY <1>2, <1>3 DEF ScanEvent
<1>4. CASE e.kind = "turn/end"
  BY <1>4 DEF ScanEvent
<1>5. CASE e.kind = "step/start"
  BY <1>2, <1>5 DEF ScanEvent
<1>6. CASE e.kind = "step/end"
  BY <1>2, <1>6 DEF ScanEvent
<1>7. CASE e.kind = "assistant/message"
  <2>1. ScanEvent(o, e) = [o EXCEPT !.pending =
            o.pending \o [i \in DOMAIN e.calls |-> Pending(e.calls[i], e, FALSE)]]
    BY <1>7 DEF ScanEvent
  <2> QED BY <1>1, <1>2, <1>7, <2>1 DEF Asks
<1>8. CASE e.kind = "tool/call"
  <2>1. CASE Has(ps, e.call)
    <3>1. ScanEvent(o, e) = [o EXCEPT !.pending = Records(o.pending, e.call)]
      BY <1>1, <1>8, <2>1 DEF ScanEvent, Has, Records
    <3> QED BY <1>1, <1>2, <1>8, <2>1, <3>1
  <2>2. CASE ~Has(ps, e.call)
    <3>1. ScanEvent(o, e) = [o EXCEPT !.pending = Append(o.pending, Pending(e.call, e, TRUE))]
      BY <1>1, <1>8, <2>2 DEF ScanEvent, Has
    <3> QED BY <1>1, <1>2, <1>8, <2>2, <3>1
  <2> QED BY <2>1, <2>2
<1>9. CASE e.kind = "tool/result"
  BY <1>1, <1>2, <1>9 DEF ScanEvent
<1>10. CASE e.kind \in {"user/message", "assistant/attempt"}
  BY <1>10 DEF ScanEvent
<1> QED BY <1>3, <1>4, <1>5, <1>6, <1>7, <1>8, <1>9, <1>10

\* The pending calls a repair may meet: asked for by a turn up to b, and
\* recorded if they are among the dispatched ones.
Askable(b, d, c) ==
  {p \in PendingType : p.turn \in 1..b /\ p.id \in 1..c /\ (p.id \in d => p.recorded)}

OpenIn(b, d, c) == [turn : 0..b, step : Nat, pending : Seq(Askable(b, d, c))]

OpenOK(o, b, d, c) == o \in OpenIn(b, d, c) /\ (o.turn = 0 => o = NothingOpen)

Parts(t, s, ps, b, d, c) ==
  t \in 0..b /\ s \in Nat /\ ps \in Seq(Askable(b, d, c)) /\ (t = 0 => s = 0 /\ ps = <<>>)

LEMMA OpenParts ==
  ASSUME NEW o, NEW b \in Nat, NEW d, NEW c, OpenOK(o, b, d, c)
  PROVE  o = OpenOf(o.turn, o.step, o.pending) /\ Parts(o.turn, o.step, o.pending, b, d, c)
<1>1. PICK T : T = Askable(b, d, c)
  OBVIOUS
<1>2. o \in [turn : 0..b, step : Nat, pending : Seq(T)] /\ (o.turn = 0 => o = NothingOpen)
  BY <1>1 DEF OpenOK, OpenIn
<1>3. o.turn \in 0..b /\ o.step \in Nat /\ o.pending \in Seq(T) /\ o = OpenOf(o.turn, o.step, o.pending)
  BY <1>2 DEF OpenOf
<1>4. CASE o.turn = 0
  BY <1>1, <1>2, <1>3, <1>4 DEF NothingOpen, Parts
<1>5. CASE o.turn # 0
  BY <1>1, <1>3, <1>5, Zenon DEF Parts
<1> QED BY <1>4, <1>5

LEMMA OpenMade ==
  ASSUME NEW b, NEW d, NEW c, NEW t, NEW s, NEW ps, b \in Nat, Parts(t, s, ps, b, d, c)
  PROVE  OpenOK(OpenOf(t, s, ps), b, d, c)
<1>1. PICK T : T = Askable(b, d, c)
  OBVIOUS
<1>2. OpenOf(t, s, ps) \in [turn : 0..b, step : Nat, pending : Seq(T)]
  BY <1>1 DEF OpenOf, Parts
<1>3. OpenOf(t, s, ps).turn = 0 => OpenOf(t, s, ps) = NothingOpen
  BY DEF OpenOf, NothingOpen, Parts
<1> QED BY <1>1, <1>2, <1>3 DEF OpenOK, OpenIn

LEMMA OpenLonger ==
  ASSUME NEW o, NEW b \in Nat, NEW d, NEW c \in Nat, NEW b2 \in Nat, NEW c2 \in Nat,
         OpenOK(o, b, d, c), b <= b2, c <= c2
  PROVE  OpenOK(o, b2, d, c2)
<1>1. \A p \in Askable(b, d, c) : p \in Askable(b2, d, c2)
  BY DEF Askable
<1>p. PICK t, s, ps : t = o.turn /\ s = o.step /\ ps = o.pending
  OBVIOUS
<1>2. o = OpenOf(t, s, ps) /\ Parts(t, s, ps, b, d, c)
  BY <1>p, OpenParts
<1>3. PICK T, T2 : T = Askable(b, d, c) /\ T2 = Askable(b2, d, c2)
  OBVIOUS
<1>4. ps \in Seq(T) /\ \A p \in T : p \in T2
  BY <1>1, <1>2, <1>3 DEF Parts
<1>5. ps \in Seq(T2)
  <2>1. Len(ps) \in Nat /\ \A i \in 1..Len(ps) : ps[i] \in T2
    BY <1>4
  <2>2. ps = [i \in 1..Len(ps) |-> ps[i]]
    BY <1>4
  <2> QED BY <2>1, <2>2
<1>6. t \in 0..b2
  BY <1>2 DEF Parts
<1>7. Parts(t, s, ps, b2, d, c2)
  BY <1>2, <1>3, <1>5, <1>6 DEF Parts
<1> QED BY <1>2, <1>7, OpenMade

\* What an event needs to leave what is open in order.
Fits(o, e, b, d, c) ==
  /\ e \in EventType /\ e.turn \in 1..b
  /\ e.kind \in {"step/start", "assistant/message", "tool/call"} => o.turn > 0
  /\ e.kind = "tool/result" /\ e.form = "tool-result" => o.turn > 0
  /\ e.kind = "assistant/message" => \A i \in DOMAIN e.calls : e.calls[i] \in 1..c \ d
  /\ e.kind = "tool/call" => e.call \in 1..c /\ e.call \in Ids

LEMMA ScanKeeps ==
  ASSUME NEW o, NEW e, NEW b \in Nat, NEW d, NEW c \in Nat, OpenOK(o, b, d, c), Fits(o, e, b, d, c)
  PROVE  OpenOK(ScanEvent(o, e), b, d, c)
<1>1. PICK T : T = Askable(b, d, c)
  OBVIOUS
<1>p. PICK t, s, ps : t = o.turn /\ s = o.step /\ ps = o.pending
  OBVIOUS
<1>o. o = OpenOf(t, s, ps)
  BY <1>p, OpenParts
<1>scan. ScanCases(o, e, t, s, ps)
  BY <1>o, ScanIs
<1>t. o.turn = t /\ o.step = s /\ o.pending = ps
  BY <1>o DEF OpenOf
<1>2. t \in 0..b /\ s \in Nat /\ ps \in Seq(T) /\ (t = 0 => s = 0 /\ ps = <<>>)
  <2>1. Parts(t, s, ps, b, d, c)
    BY <1>p, OpenParts
  <2> QED BY <1>1, <2>1 DEF Parts
<1>3. /\ e.kind \in Kinds /\ e.turn \in Nat /\ e.step \in Nat /\ e.calls \in Seq(Ids)
      /\ e.call \in Ids \cup {0} /\ e.form \in {"none", "text", "tool-result"}
      /\ e.turn \in 1..b
  BY DEF Fits, EventType, Kinds
<1>4. ASSUME NEW t2, NEW s2, NEW ps2, Parts(t2, s2, ps2, b, d, c)
      PROVE  OpenOK(OpenOf(t2, s2, ps2), b, d, c)
  BY <1>4, OpenMade
<1>5. NothingOpen = OpenOf(0, 0, <<>>) /\ <<>> \in Seq(T) /\ 0 \in 0..b
  BY DEF NothingOpen, OpenOf
<1>6. CASE e.kind = "turn/start"
  <2>1. ScanEvent(o, e) = OpenOf(e.turn, s, ps)
    BY <1>scan, <1>6 DEF ScanCases
  <2>2. Parts(e.turn, s, ps, b, d, c)
    BY <1>1, <1>2, <1>3 DEF Parts
  <2> QED BY <1>4, <2>1, <2>2
<1>7. CASE e.kind = "turn/end"
  <2>1. Parts(0, 0, <<>>, b, d, c)
    BY <1>1, <1>5 DEF Parts
  <2> QED BY <1>4, <1>5, <1>7, <1>scan, <2>1 DEF ScanCases
<1>8. CASE e.kind = "step/start"
  <2>1. ScanEvent(o, e) = OpenOf(t, e.step, ps)
    BY <1>scan, <1>8 DEF ScanCases
  <2>2. t > 0
    BY <1>8, <1>t DEF Fits
  <2>3. Parts(t, e.step, ps, b, d, c)
    BY <1>1, <1>2, <1>3, <2>2 DEF Parts
  <2> QED BY <1>4, <2>1, <2>3
<1>9. CASE e.kind = "step/end"
  <2>1. ScanEvent(o, e) = OpenOf(t, 0, ps)
    BY <1>scan, <1>9 DEF ScanCases
  <2>2. Parts(t, 0, ps, b, d, c)
    BY <1>1, <1>2 DEF Parts
  <2> QED BY <1>4, <2>1, <2>2
<1>10. CASE e.kind = "assistant/message"
  <2>2. ScanEvent(o, e) = OpenOf(t, s, ps \o Asks(e.calls, e))
    BY <1>scan, <1>10 DEF ScanCases
  <2>3. t > 0 /\ \A i \in DOMAIN e.calls : e.calls[i] \in 1..c \ d /\ e.calls[i] \in Ids
    BY <1>3, <1>10, <1>t DEF Fits
  <2>4. ASSUME NEW i \in DOMAIN e.calls PROVE Pending(e.calls[i], e, FALSE) \in T
    BY <1>1, <1>3, <2>3 DEF Askable, Pending, PendingType
  <2>5. Asks(e.calls, e) \in Seq(T)
    <3>1. PICK l \in Nat : DOMAIN e.calls = 1..l
      BY <1>3
    <3>2. \A i \in 1..l : Asks(e.calls, e)[i] \in T
      BY <2>4, <3>1 DEF Asks
    <3>3. Asks(e.calls, e) = [i \in 1..l |-> Asks(e.calls, e)[i]]
      BY <3>1 DEF Asks
    <3> QED BY <3>2, <3>3
  <2>6. ps \o Asks(e.calls, e) \in Seq(T)
    BY <1>2, <2>5
  <2>7. Parts(t, s, ps \o Asks(e.calls, e), b, d, c)
    <3>1. PICK new : new = ps \o Asks(e.calls, e)
      OBVIOUS
    <3>2. new \in Seq(Askable(b, d, c))
      BY <1>1, <1>2, <2>3, <2>6, <3>1
    <3>3. t \in 0..b /\ s \in Nat /\ t # 0
      BY <1>2, <2>3, <2>6
    <3>4. Parts(t, s, new, b, d, c)
      BY <3>2, <3>3, Zenon DEF Parts
    <3> QED BY <3>1, <3>4
  <2> QED BY <1>4, <2>2, <2>7
<1>11. CASE e.kind = "tool/call"
  <2>1. t > 0 /\ e.call \in 1..c /\ e.call \in Ids
    BY <1>11, <1>t DEF Fits
  <2>2. CASE Has(ps, e.call)
    <3>1. ScanEvent(o, e) = OpenOf(t, s, Records(ps, e.call))
      BY <1>scan, <1>11, <2>2 DEF ScanCases
    <3>2. ASSUME NEW p \in T PROVE [p EXCEPT !.recorded = TRUE] \in T
      <4>1. PICK q : q = [p EXCEPT !.recorded = TRUE]
        OBVIOUS
      <4>2. p \in PendingType /\ p.turn \in 1..b /\ p.id \in 1..c
        BY <1>1 DEF Askable
      <4>3. q \in PendingType /\ q.turn = p.turn /\ q.id = p.id /\ q.recorded
        BY <4>1, <4>2 DEF PendingType
      <4> QED BY <1>1, <4>1, <4>2, <4>3 DEF Askable
    <3>3. Records(ps, e.call) \in Seq(T)
      <4>1. PICK l \in Nat : DOMAIN ps = 1..l /\ \A i \in 1..l : ps[i] \in T
        BY <1>2
      <4>2. \A i \in 1..l : Records(ps, e.call)[i] \in T
        BY <3>2, <4>1 DEF Records
      <4>3. Records(ps, e.call) = [i \in 1..l |-> Records(ps, e.call)[i]]
        BY <4>1 DEF Records
      <4> QED BY <4>2, <4>3
    <3>4. Parts(t, s, Records(ps, e.call), b, d, c)
      <4>1. PICK new : new = Records(ps, e.call)
        OBVIOUS
      <4>2. new \in Seq(Askable(b, d, c))
        BY <1>1, <1>2, <2>1, <3>3, <4>1
      <4>3. t \in 0..b /\ s \in Nat /\ t # 0
        BY <1>2, <2>1, <3>3
      <4>4. Parts(t, s, new, b, d, c)
        BY <4>2, <4>3, Zenon DEF Parts
      <4> QED BY <4>1, <4>4
    <3> QED BY <1>4, <3>1, <3>4
  <2>3. CASE ~Has(ps, e.call)
    <3>1. PICK p : p = Pending(e.call, e, TRUE)
      OBVIOUS
    <3>2. ScanEvent(o, e) = OpenOf(t, s, Append(ps, p))
      BY <1>scan, <1>11, <2>3, <3>1 DEF ScanCases
    <3>3. p \in T
      BY <1>1, <1>3, <2>1, <3>1 DEF Askable, Pending, PendingType
    <3>4. Append(ps, p) \in Seq(T)
      BY <1>2, <3>3
    <3>5. Parts(t, s, Append(ps, p), b, d, c)
      <4>1. PICK new : new = Append(ps, p)
        OBVIOUS
      <4>2. new \in Seq(Askable(b, d, c))
        BY <1>1, <1>2, <2>1, <3>4, <4>1
      <4>3. t \in 0..b /\ s \in Nat /\ t # 0
        BY <1>2, <2>1, <3>4
      <4>4. Parts(t, s, new, b, d, c)
        BY <4>2, <4>3, Zenon DEF Parts
      <4> QED BY <4>1, <4>4
    <3> QED BY <1>4, <3>2, <3>5
  <2> QED BY <2>2, <2>3
<1>12. CASE e.kind = "tool/result" /\ e.form = "tool-result"
  <2>1. ScanEvent(o, e) = OpenOf(t, s, Without(ps, e.call))
    BY <1>scan, <1>12 DEF ScanCases
  <2>2. Without(ps, e.call) \in Seq(T) /\ t > 0
    BY <1>2, <1>12, <1>t, WithoutThins DEF Fits
  <2>3. Parts(t, s, Without(ps, e.call), b, d, c)
    <3>1. PICK new : new = Without(ps, e.call)
      OBVIOUS
    <3>2. new \in Seq(Askable(b, d, c))
      BY <1>1, <1>2, <2>2, <3>1
    <3>3. t \in 0..b /\ s \in Nat /\ t # 0
      BY <1>2, <2>2
    <3>4. Parts(t, s, new, b, d, c)
      BY <3>2, <3>3, Zenon DEF Parts
    <3> QED BY <3>1, <3>4
  <2> QED BY <1>4, <2>1, <2>3
<1>13. CASE \/ e.kind \in {"user/message", "assistant/attempt"}
            \/ e.kind = "tool/result" /\ e.form # "tool-result"
  BY <1>13, <1>scan DEF ScanCases
<1> QED BY <1>3, <1>6, <1>7, <1>8, <1>9, <1>10, <1>11, <1>12, <1>13 DEF Kinds

-----------------------------------------------------------------------------
(* A sound log: what holds of it before and after every event, so of every *)
(* part of it that a crash may leave.                                      *)

BoundaryType == [turn : Nat, step : Nat]
Started(e) == e.kind = "turn/start"
Ended(e) == e.kind = "turn/end"

LEMMA BoundaryIs ==
  ASSUME NEW p \in BoundaryType, NEW e \in EventType
  PROVE  /\ BoundaryEvent(p, e) \in BoundaryType
         /\ Started(e) => BoundaryEvent(p, e).turn = e.turn
         /\ Ended(e) => BoundaryEvent(p, e).turn = p.turn + 1
         /\ ~Started(e) /\ ~Ended(e) => BoundaryEvent(p, e).turn = p.turn
<1>0. e.turn \in Nat /\ e.step \in Nat /\ p.turn \in Nat /\ p.step \in Nat
  BY DEF EventType, BoundaryType
<1>1. CASE e.kind = "turn/start"
  BY <1>0, <1>1 DEF BoundaryEvent, BoundaryType, Started, Ended
<1>2. CASE e.kind = "turn/end"
  BY <1>0, <1>2 DEF BoundaryEvent, BoundaryType, Started, Ended
<1>3. CASE e.kind = "step/start" /\ e.turn = p.turn
  <2>1. BoundaryEvent(p, e) = [p EXCEPT !.step = e.step]
    BY <1>3 DEF BoundaryEvent
  <2> QED BY <1>0, <1>3, <2>1 DEF BoundaryType, Started, Ended
<1>4. CASE ~(e.kind = "turn/start") /\ ~(e.kind = "turn/end") /\ ~(e.kind = "step/start" /\ e.turn = p.turn)
  <2>1. BoundaryEvent(p, e) = p
    BY <1>4 DEF BoundaryEvent
  <2> QED BY <1>4, <2>1 DEF Started, Ended
<1> QED BY <1>1, <1>2, <1>3, <1>4

\* The turns of the events lie below the boundary.
TurnsUpto(l, t) == \A i \in DOMAIN l : l[i].turn \in 1..t

\* The open turn has no end yet.
OpenRuns(l) ==
  Open(l).turn > 0 => \A i \in DOMAIN l : Ended(l[i]) => l[i].turn # Open(l).turn

Interrupted(l, i) == l[i].reason = "interrupted"

\* The repair's end of a turn is its only end.
EndsOnce(l) ==
  /\ \A i \in DOMAIN l : Interrupted(l, i) => Ended(l[i])
  /\ \A i, j \in DOMAIN l :
       Interrupted(l, i) /\ Ended(l[j]) /\ l[i].turn = l[j].turn => i = j

NeverStarted(l, d, c) ==
  \A i \in DOMAIN l : l[i].reason = "not-started" => l[i].call \in 1..c /\ l[i].call \notin d

\* i is the last start of a turn before j.
LastStart(l, i, j) == Started(l[i]) /\ \A k \in (i + 1)..(j - 1) : ~Started(l[k])

EndsIn(l, i, j) == {k \in i..j : Ended(l[k])}

TurnsGrow(l) ==
  \A i, j \in DOMAIN l :
    i < j /\ Started(l[j]) /\ LastStart(l, i, j)
    => l[j].turn - l[i].turn \in 1..(1 + Cardinality(EndsIn(l, i, j)))

\* The boundary is that of the last start and the ends since.
CountsOn(l, t) ==
  \A i \in DOMAIN l :
    LastStart(l, i, Len(l) + 1) => t <= l[i].turn + Cardinality(EndsIn(l, i, Len(l)))

Boundary(l) == turnBoundaryFrom(l).turn

Sound(l, d, c) ==
  /\ l \in Seq(EventType)
  /\ turnBoundaryFrom(l) \in BoundaryType
  /\ OpenOK(Open(l), Boundary(l), d, c)
  /\ TurnsUpto(l, Boundary(l))
  /\ OpenRuns(l)
  /\ EndsOnce(l)
  /\ NeverStarted(l, d, c)
  /\ TurnsGrow(l)
  /\ CountsOn(l, Boundary(l))

\* What an event needs to keep a log sound.
LogFits(l, e, d, c) ==
  /\ e \in EventType
  /\ Started(e) => /\ Open(l) = NothingOpen
                   /\ e.turn \in 1..(Boundary(l) + 1)
                   /\ \A i \in DOMAIN l : l[i].turn < e.turn
  /\ ~Started(e) => e.turn \in 1..Boundary(l)
  /\ e.kind \in {"step/start", "assistant/message", "tool/call"} => Open(l).turn > 0
  /\ e.kind = "tool/result" /\ e.form = "tool-result" => Open(l).turn > 0
  /\ e.kind = "assistant/message" => \A i \in DOMAIN e.calls : e.calls[i] \in 1..c \ d
  /\ e.kind = "tool/call" => e.call \in 1..c
  /\ e.reason = "interrupted" => Ended(e) /\ Open(l).turn > 0 /\ e.turn = Open(l).turn
  /\ Ended(e) => \A i \in DOMAIN l : Interrupted(l, i) => l[i].turn # e.turn
  /\ e.reason = "not-started" => e.call \in 1..c /\ e.call \notin d

Grown(l, e, m, n) ==
  /\ n \in Nat
  /\ DOMAIN l = 1..n /\ DOMAIN m = 1..(n + 1)
  /\ Len(l) = n /\ Len(m) = n + 1
  /\ m[n + 1] = e
  /\ \A i \in 1..n : m[i] = l[i]

LEMMA AppendGrows ==
  ASSUME NEW S, NEW l \in Seq(S), NEW e \in S
  PROVE  Grown(l, e, Append(l, e), Len(l))
BY DEF Grown

LEMMA FiniteEnds ==
  ASSUME NEW l, NEW i \in Int, NEW j \in Int
  PROVE  IsFiniteSet(EndsIn(l, i, j)) /\ Cardinality(EndsIn(l, i, j)) \in Nat
<1>1. IsFiniteSet(i..j)
  BY FS_Interval
<1>2. EndsIn(l, i, j) \subseteq i..j
  BY DEF EndsIn
<1>3. IsFiniteSet(EndsIn(l, i, j))
  BY <1>1, <1>2, FS_Subset
<1> QED BY <1>3, FS_CardinalityType

LEMMA TurnsGrowOn ==
  ASSUME NEW l, NEW e, NEW m, NEW n, Grown(l, e, m, n),
         TurnsGrow(l), CountsOn(l, Boundary(l)), Boundary(l) \in Nat,
         \A i \in DOMAIN l : l[i].turn \in Nat, e.turn \in Nat,
         Started(e) => e.turn \in 1..(Boundary(l) + 1) /\ \A i \in DOMAIN l : l[i].turn < e.turn
  PROVE  TurnsGrow(m)
<1> SUFFICES ASSUME NEW i \in DOMAIN m, NEW j \in DOMAIN m,
                    i < j, Started(m[j]), LastStart(m, i, j)
             PROVE  m[j].turn - m[i].turn \in 1..(1 + Cardinality(EndsIn(m, i, j)))
  BY DEF TurnsGrow
<1>1. i \in 1..n /\ m[i] = l[i] /\ i \in DOMAIN l /\ n \in Nat /\ j \in 1..(n + 1)
  BY DEF Grown
<1>2. CASE j # n + 1
  <2>1. j \in 1..n /\ m[j] = l[j] /\ j \in DOMAIN l
    BY <1>1, <1>2 DEF Grown
  <2>2. \A k \in i..j : m[k] = l[k]
    BY <1>1, <2>1 DEF Grown
  <2>3. EndsIn(m, i, j) = EndsIn(l, i, j)
    BY <2>2 DEF EndsIn
  <2>4. LastStart(l, i, j)
    BY <1>1, <2>1, <2>2 DEF LastStart
  <2> QED BY <1>1, <2>1, <2>3, <2>4 DEF TurnsGrow
<1>3. CASE j = n + 1
  <2>1. m[j] = e /\ Started(e) /\ ~Ended(e)
    BY <1>3 DEF Grown, Started, Ended
  <2>2. \A k \in i..n : m[k] = l[k]
    BY <1>1 DEF Grown
  <2>3. EndsIn(m, i, j) = EndsIn(l, i, n)
    <3>1. ASSUME NEW k \in i..j, Ended(m[k]) PROVE k \in i..n /\ Ended(l[k])
      BY <1>1, <1>3, <2>1, <2>2, <3>1
    <3>2. ASSUME NEW k \in i..n, Ended(l[k]) PROVE k \in i..j /\ Ended(m[k])
      BY <1>1, <1>3, <2>2, <3>2
    <3> QED BY <3>1, <3>2 DEF EndsIn
  <2>4. LastStart(l, i, Len(l) + 1)
    BY <1>1, <1>3, <2>2 DEF LastStart, Grown
  <2>5. Boundary(l) <= l[i].turn + Cardinality(EndsIn(l, i, n))
    BY <1>1, <2>4 DEF CountsOn, Grown
  <2>6. Cardinality(EndsIn(l, i, n)) \in Nat
    BY <1>1, FiniteEnds
  <2>7. e.turn \in 1..(Boundary(l) + 1) /\ l[i].turn < e.turn /\ l[i].turn \in Nat
    BY <1>1, <2>1
  <2> QED BY <1>1, <2>1, <2>3, <2>5, <2>6, <2>7
<1> QED BY <1>2, <1>3

LEMMA CountsOnOn ==
  ASSUME NEW l, NEW e, NEW m, NEW n, Grown(l, e, m, n),
         CountsOn(l, Boundary(l)), Boundary(l) \in Nat, Boundary(m) \in Nat,
         \A i \in DOMAIN l : l[i].turn \in Nat, e.turn \in Nat,
         Started(e) => Boundary(m) = e.turn,
         Ended(e) => Boundary(m) = Boundary(l) + 1,
         ~Started(e) /\ ~Ended(e) => Boundary(m) = Boundary(l)
  PROVE  CountsOn(m, Boundary(m))
<1> SUFFICES ASSUME NEW i \in DOMAIN m, LastStart(m, i, Len(m) + 1)
             PROVE  Boundary(m) <= m[i].turn + Cardinality(EndsIn(m, i, Len(m)))
  BY DEF CountsOn
<1>1. i \in 1..(n + 1) /\ n \in Nat /\ Len(m) = n + 1 /\ Len(l) = n /\ m[n + 1] = e
  BY DEF Grown
<1>2. Cardinality(EndsIn(m, i, n + 1)) \in Nat
  BY <1>1, FiniteEnds
<1>3. Started(m[i]) /\ \A k \in (i + 1)..(n + 1) : ~Started(m[k])
  BY <1>1 DEF LastStart
<1>4. CASE i = n + 1
  BY <1>1, <1>2, <1>3, <1>4
<1>5. CASE i # n + 1
  <2>1. i \in 1..n /\ i \in DOMAIN l /\ m[i] = l[i]
    BY <1>1, <1>5 DEF Grown
  <2>2. ~Started(e) /\ \A k \in i..n : m[k] = l[k]
    BY <1>1, <1>3, <2>1 DEF Grown
  <2>3. LastStart(l, i, Len(l) + 1)
    BY <1>1, <1>3, <2>1, <2>2 DEF LastStart
  <2>4. Boundary(l) <= l[i].turn + Cardinality(EndsIn(l, i, n))
    BY <1>1, <2>1, <2>3 DEF CountsOn
  <2>5. IsFiniteSet(EndsIn(l, i, n)) /\ Cardinality(EndsIn(l, i, n)) \in Nat
    BY <1>1, FiniteEnds
  <2>6. CASE Ended(e)
    <3>1. EndsIn(m, i, n + 1) = EndsIn(l, i, n) \cup {n + 1}
      <4>1. ASSUME NEW k \in i..(n + 1), Ended(m[k]) PROVE k = n + 1 \/ (k \in i..n /\ Ended(l[k]))
        BY <1>1, <2>1, <2>2, <4>1
      <4>2. ASSUME NEW k \in i..n, Ended(l[k]) PROVE k \in i..(n + 1) /\ Ended(m[k])
        BY <1>1, <2>1, <2>2, <4>2
      <4>3. n + 1 \in i..(n + 1) /\ Ended(m[n + 1])
        BY <1>1, <2>6
      <4> QED BY <4>1, <4>2, <4>3 DEF EndsIn
    <3>2. n + 1 \notin EndsIn(l, i, n)
      BY <1>1 DEF EndsIn
    <3>3. Cardinality(EndsIn(m, i, n + 1)) = Cardinality(EndsIn(l, i, n)) + 1
      BY <2>5, <3>1, <3>2, FS_AddElement
    <3> QED BY <1>1, <2>1, <2>4, <2>5, <2>6, <3>3
  <2>7. CASE ~Ended(e)
    <3>1. EndsIn(m, i, n + 1) = EndsIn(l, i, n)
      <4>1. ASSUME NEW k \in i..(n + 1), Ended(m[k]) PROVE k \in i..n /\ Ended(l[k])
        BY <1>1, <2>1, <2>2, <2>7, <4>1
      <4>2. ASSUME NEW k \in i..n, Ended(l[k]) PROVE k \in i..(n + 1) /\ Ended(m[k])
        BY <1>1, <2>1, <2>2, <4>2
      <4> QED BY <4>1, <4>2 DEF EndsIn
    <3> QED BY <1>1, <2>1, <2>2, <2>4, <2>7, <3>1
  <2> QED BY <2>6, <2>7
<1> QED BY <1>4, <1>5

LEMMA EndsOnceOn ==
  ASSUME NEW l, NEW e, NEW m, NEW n, Grown(l, e, m, n), EndsOnce(l), OpenRuns(l),
         e.reason = "interrupted" => Ended(e) /\ Open(l).turn > 0 /\ e.turn = Open(l).turn,
         Ended(e) => \A i \in DOMAIN l : Interrupted(l, i) => l[i].turn # e.turn
  PROVE  EndsOnce(m)
<1>1. ASSUME NEW i \in DOMAIN m, Interrupted(m, i) PROVE Ended(m[i])
  <2>1. CASE i = n + 1
    BY <1>1, <2>1 DEF Grown, Interrupted
  <2>2. CASE i # n + 1
    <3>1. i \in DOMAIN l /\ m[i] = l[i]
      BY <2>2 DEF Grown
    <3> QED BY <1>1, <3>1 DEF EndsOnce, Interrupted
  <2> QED BY <2>1, <2>2
<1>2. ASSUME NEW i \in DOMAIN m, NEW j \in DOMAIN m,
             Interrupted(m, i), Ended(m[j]), m[i].turn = m[j].turn
      PROVE  i = j
  <2>1. CASE i = n + 1 /\ j # n + 1
    <3>1. j \in DOMAIN l /\ m[j] = l[j] /\ m[i] = e
      BY <2>1 DEF Grown
    <3> QED BY <1>2, <3>1 DEF OpenRuns, Interrupted
  <2>2. CASE i # n + 1 /\ j = n + 1
    <3>1. i \in DOMAIN l /\ m[i] = l[i] /\ m[j] = e
      BY <2>2 DEF Grown
    <3> QED BY <1>2, <3>1 DEF Interrupted
  <2>3. CASE i # n + 1 /\ j # n + 1
    <3>1. i \in DOMAIN l /\ m[i] = l[i] /\ j \in DOMAIN l /\ m[j] = l[j]
      BY <2>3 DEF Grown
    <3> QED BY <1>2, <3>1 DEF EndsOnce, Interrupted
  <2> QED BY <2>1, <2>2, <2>3
<1> QED BY <1>1, <1>2 DEF EndsOnce

LEMMA SoundAppend ==
  ASSUME NEW l, NEW e, NEW d, NEW c \in Nat, Sound(l, d, c), LogFits(l, e, d, c)
  PROVE  Sound(Append(l, e), d, c)
<1>1. PICK m : m = Append(l, e)
  OBVIOUS
<1>2. PICK n : n = Len(l)
  OBVIOUS
<1>3. l \in Seq(EventType) /\ e \in EventType
  BY DEF Sound, LogFits
<1>4. Grown(l, e, m, n) /\ m \in Seq(EventType)
  BY <1>1, <1>2, <1>3, AppendGrows
<1>5. Open(m) = ScanEvent(Open(l), e) /\ turnBoundaryFrom(m) = BoundaryEvent(turnBoundaryFrom(l), e)
  BY <1>1, <1>3, OpenAppends, BoundaryAppends
<1>6. PICK b, b2 : b = Boundary(l) /\ b2 = Boundary(m)
  OBVIOUS
<1>7. turnBoundaryFrom(l) \in BoundaryType
  BY DEF Sound
<1>8. /\ turnBoundaryFrom(m) \in BoundaryType
      /\ Started(e) => b2 = e.turn
      /\ Ended(e) => b2 = b + 1
      /\ ~Started(e) /\ ~Ended(e) => b2 = b
  BY <1>3, <1>5, <1>6, <1>7, BoundaryIs DEF Boundary
<1>9. b \in Nat /\ b2 \in Nat
  BY <1>6, <1>7, <1>8 DEF Boundary, BoundaryType
<1>10. e.turn \in Nat /\ \A i \in DOMAIN l : l[i].turn \in Nat
  <2>1. \A i \in DOMAIN l : l[i] \in EventType
    BY <1>3
  <2>2. \A x \in EventType : x.turn \in Nat
    BY DEF EventType
  <2> QED BY <1>3, <2>1, <2>2
<1>11. TurnsUpto(l, b) /\ OpenOK(Open(l), b, d, c) /\ OpenRuns(l) /\ EndsOnce(l)
       /\ NeverStarted(l, d, c) /\ TurnsGrow(l) /\ CountsOn(l, b)
  BY <1>6 DEF Sound
<1>12. e.turn \in 1..b2 /\ TurnsUpto(l, b2)
  <2>1. CASE Started(e)
    <3>1. e.turn >= 1 /\ \A i \in DOMAIN l : l[i].turn < e.turn
      BY <2>1, <1>6, <1>9 DEF LogFits
    <3> QED BY <1>8, <1>9, <1>10, <1>11, <2>1, <3>1 DEF TurnsUpto
  <2>2. CASE ~Started(e)
    <3>1. e.turn \in 1..b /\ b <= b2
      BY <1>6, <1>8, <1>9, <2>2 DEF LogFits
    <3> QED BY <1>9, <1>10, <1>11, <3>1 DEF TurnsUpto
  <2> QED BY <2>1, <2>2
<1>13. TurnsUpto(m, b2)
  <2> SUFFICES ASSUME NEW i \in DOMAIN m PROVE m[i].turn \in 1..b2
    BY DEF TurnsUpto
  <2>1. CASE i = n + 1
    BY <1>4, <1>12, <2>1 DEF Grown
  <2>2. CASE i # n + 1
    <3>1. i \in DOMAIN l /\ m[i] = l[i]
      BY <1>4, <2>2 DEF Grown
    <3> QED BY <1>12, <3>1 DEF TurnsUpto
  <2> QED BY <2>1, <2>2
<1>14. PICK o, o2 : o = Open(l) /\ o2 = Open(m)
  OBVIOUS
<1>15. OpenOK(o2, b2, d, c)
  <2>1. OpenOK(o, b2, d, c)
    <3>1. CASE Started(e)
      <4>1. o = NothingOpen
        BY <1>14, <3>1 DEF LogFits
      <4>2. Parts(0, 0, <<>>, b2, d, c)
        BY <1>9 DEF Parts
      <4>3. o = OpenOf(0, 0, <<>>)
        BY <4>1 DEF OpenOf, NothingOpen
      <4> QED BY <1>9, <4>2, <4>3, OpenMade
    <3>2. CASE ~Started(e)
      <4>1. b <= b2
        BY <1>8, <1>9, <3>2
      <4> QED BY <1>9, <1>11, <1>14, <4>1, OpenLonger
    <3> QED BY <3>1, <3>2
  <2>2. Fits(o, e, b2, d, c)
    <3>1. e.kind = "tool/call" => e.call \in 1..c /\ e.call \in Ids
      <4>1. e.call \in Ids \cup {0}
        BY <1>3 DEF EventType
      <4> QED BY <4>1 DEF LogFits
    <3> QED BY <1>3, <1>12, <1>14, <3>1 DEF Fits, LogFits
  <2> QED BY <1>5, <1>9, <1>14, <2>1, <2>2, ScanKeeps
<1>16. OpenRuns(m)
  <2> SUFFICES ASSUME o2.turn > 0, NEW i \in DOMAIN m, Ended(m[i]) PROVE m[i].turn # o2.turn
    BY <1>14 DEF OpenRuns
  <2>1. PICK t, s, ps : t = o.turn /\ s = o.step /\ ps = o.pending
    OBVIOUS
  <2>2. o = OpenOf(t, s, ps)
    BY <1>9, <1>11, <1>14, <2>1, OpenParts
  <2>3. ScanCases(o, e, t, s, ps) /\ o2 = ScanEvent(o, e)
    BY <1>5, <1>14, <2>2, ScanIs
  <2>4. ~Ended(e)
    BY <2>3 DEF ScanCases, Ended, NothingOpen
  <2>5. i # n + 1
    BY <1>4, <2>4 DEF Grown
  <2>6. i \in DOMAIN l /\ m[i] = l[i] /\ Ended(l[i])
    BY <1>4, <2>5 DEF Grown
  <2>7. CASE Started(e)
    <3>1. o2 = OpenOf(e.turn, s, ps)
      BY <2>3, <2>7 DEF ScanCases, Started
    <3>2. l[i].turn < e.turn
      BY <2>6, <2>7 DEF LogFits
    <3> QED BY <1>10, <2>6, <3>1, <3>2 DEF OpenOf
  <2>8. CASE ~Started(e)
    <3>1. o2.turn = t
      <4>1. e.kind \in Kinds
        BY <1>3 DEF EventType, Kinds
      <4> QED BY <2>2, <2>3, <2>4, <2>8, <4>1 DEF ScanCases, OpenOf, Kinds, Started, Ended
    <3>2. o.turn > 0 /\ o.turn = o2.turn
      BY <2>1, <3>1
    <3> QED BY <1>11, <1>14, <2>6, <3>2 DEF OpenRuns
  <2> QED BY <2>7, <2>8
<1>17. EndsOnce(m)
  <2>1. e.reason = "interrupted" => Ended(e) /\ Open(l).turn > 0 /\ e.turn = Open(l).turn
    BY DEF LogFits
  <2>2. Ended(e) => \A i \in DOMAIN l : Interrupted(l, i) => l[i].turn # e.turn
    BY DEF LogFits
  <2> QED BY <1>4, <1>11, <2>1, <2>2, EndsOnceOn
<1>18. NeverStarted(m, d, c)
  <2> SUFFICES ASSUME NEW i \in DOMAIN m, m[i].reason = "not-started"
               PROVE  m[i].call \in 1..c /\ m[i].call \notin d
    BY DEF NeverStarted
  <2>1. CASE i = n + 1
    BY <1>4, <2>1 DEF Grown, LogFits
  <2>2. CASE i # n + 1
    <3>1. i \in DOMAIN l /\ m[i] = l[i]
      BY <1>4, <2>2 DEF Grown
    <3> QED BY <1>11, <3>1 DEF NeverStarted
  <2> QED BY <2>1, <2>2
<1>19. TurnsGrow(m)
  <2>1. Started(e) => e.turn \in 1..(Boundary(l) + 1) /\ \A i \in DOMAIN l : l[i].turn < e.turn
    BY DEF LogFits
  <2> QED BY <1>4, <1>6, <1>9, <1>10, <1>11, <2>1, TurnsGrowOn
<1>20. CountsOn(m, b2)
  BY <1>4, <1>6, <1>8, <1>9, <1>10, <1>11, CountsOnOn
<1>21. Sound(m, d, c)
  BY <1>4, <1>6, <1>8, <1>13, <1>14, <1>15, <1>16, <1>17, <1>18, <1>19, <1>20 DEF Sound
<1> QED BY <1>1, <1>21

LEMMA SoundNothing ==
  ASSUME NEW d, NEW c \in Nat
  PROVE  Sound(<<>>, d, c)
<1>1. PICK l : l = <<>>
  OBVIOUS
<1>2. l \in Seq(EventType) /\ DOMAIN l = {} /\ Len(l) = 0
  BY <1>1
<1>3. Open(l) = NothingOpen /\ turnBoundaryFrom(l) = NoBoundary
  BY <1>1, OpenOfNothing, BoundaryOfNothing
<1>4. turnBoundaryFrom(l) \in BoundaryType /\ Boundary(l) = 0
  BY <1>3 DEF NoBoundary, BoundaryType, Boundary
<1>5. OpenOK(NothingOpen, 0, d, c)
  <2>1. Parts(0, 0, <<>>, 0, d, c)
    BY DEF Parts
  <2>2. NothingOpen = OpenOf(0, 0, <<>>)
    BY DEF OpenOf, NothingOpen
  <2> QED BY <2>1, <2>2, OpenMade
<1>6. /\ TurnsUpto(l, 0) /\ OpenRuns(l) /\ EndsOnce(l) /\ NeverStarted(l, d, c)
      /\ TurnsGrow(l) /\ CountsOn(l, 0)
  BY <1>2 DEF TurnsUpto, OpenRuns, EndsOnce, NeverStarted, TurnsGrow, CountsOn
<1>7. Sound(l, d, c)
  BY <1>2, <1>3, <1>4, <1>5, <1>6 DEF Sound
<1> QED BY <1>1, <1>7

\* More calls handed out.
LEMMA SoundLonger ==
  ASSUME NEW l, NEW d, NEW c \in Nat, NEW c2 \in Nat, Sound(l, d, c), c <= c2
  PROVE  Sound(l, d, c2)
<1>1. Boundary(l) \in Nat
  BY DEF Sound, Boundary, BoundaryType
<1>2. OpenOK(Open(l), Boundary(l), d, c2)
  BY <1>1, OpenLonger DEF Sound
<1>3. NeverStarted(l, d, c2)
  BY DEF Sound, NeverStarted
<1> QED BY <1>2, <1>3 DEF Sound

\* One more call dispatched: it is recorded, and was never said not to be.
LEMMA SoundDispatched ==
  ASSUME NEW l, NEW d, NEW c \in Nat, NEW id, Sound(l, d, c),
         \A i \in DOMAIN Open(l).pending :
           Open(l).pending[i].id = id => Open(l).pending[i].recorded,
         \A i \in DOMAIN l : l[i].reason = "not-started" => l[i].call # id
  PROVE  Sound(l, d \cup {id}, c)
<1>1. PICK d2, b, o : d2 = d \cup {id} /\ b = Boundary(l) /\ o = Open(l)
  OBVIOUS
<1>2. b \in Nat /\ OpenOK(o, b, d, c)
  BY <1>1 DEF Sound, Boundary, BoundaryType
<1>3. PICK t, s, ps : t = o.turn /\ s = o.step /\ ps = o.pending
  OBVIOUS
<1>4. o = OpenOf(t, s, ps) /\ Parts(t, s, ps, b, d, c)
  BY <1>2, <1>3, OpenParts
<1>5. PICK T, T2 : T = Askable(b, d, c) /\ T2 = Askable(b, d2, c)
  OBVIOUS
<1>6. ps \in Seq(T)
  BY <1>4, <1>5 DEF Parts
<1>7. PICK k \in Nat : DOMAIN ps = 1..k /\ \A i \in 1..k : ps[i] \in T
  BY <1>6
<1>8. \A i \in 1..k : ps[i] \in T2
  <2> SUFFICES ASSUME NEW i \in 1..k PROVE ps[i] \in T2
    OBVIOUS
  <2>1. PICK p : p = ps[i]
    OBVIOUS
  <2>2. p \in PendingType /\ p.turn \in 1..b /\ p.id \in 1..c /\ (p.id \in d => p.recorded)
    BY <1>5, <1>7, <2>1 DEF Askable
  <2>3. p.id = id => p.recorded
    BY <1>1, <1>3, <1>7, <2>1
  <2> QED BY <1>1, <1>5, <2>1, <2>2, <2>3 DEF Askable
<1>9. ps \in Seq(T2)
  <2>1. ps = [i \in 1..k |-> ps[i]]
    BY <1>6, <1>7
  <2> QED BY <1>8, <2>1
<1>10. Parts(t, s, ps, b, d2, c)
  BY <1>4, <1>5, <1>9 DEF Parts
<1>11. OpenOK(o, b, d2, c)
  BY <1>2, <1>4, <1>10, OpenMade
<1>12. NeverStarted(l, d2, c)
  BY <1>1 DEF Sound, NeverStarted
<1>13. Sound(l, d2, c)
  BY <1>1, <1>11, <1>12 DEF Sound
<1> QED BY <1>1, <1>13

-----------------------------------------------------------------------------
(* What the last action appended, event by event.                          *)

\* Whatever a crash keeps of l beyond from is sound.
Safe(l, from, d, c) ==
  /\ l \in Seq(EventType) /\ from \in 0..Len(l)
  /\ \A n \in from..Len(l) : Sound(SubSeq(l, 1, n), d, c)

LEMMA WholeIs ==
  ASSUME NEW S, NEW l \in Seq(S)
  PROVE  SubSeq(l, 1, Len(l)) = l
OBVIOUS

LEMMA SafeNow ==
  ASSUME NEW l, NEW d, NEW c, Sound(l, d, c)
  PROVE  Safe(l, Len(l), d, c)
<1>1. l \in Seq(EventType)
  BY DEF Sound
<1>2. Len(l) \in 0..Len(l) /\ \A n \in Len(l)..Len(l) : n = Len(l)
  BY <1>1
<1>3. SubSeq(l, 1, Len(l)) = l
  BY <1>1, WholeIs
<1> QED BY <1>1, <1>2, <1>3 DEF Safe

LEMMA SafeIsSound ==
  ASSUME NEW l, NEW from, NEW d, NEW c, Safe(l, from, d, c)
  PROVE  Sound(l, d, c)
<1>1. l \in Seq(EventType) /\ Len(l) \in from..Len(l)
  BY DEF Safe
<1>2. SubSeq(l, 1, Len(l)) = l
  BY <1>1, WholeIs
<1> QED BY <1>1, <1>2 DEF Safe

LEMMA SafeAppend ==
  ASSUME NEW l, NEW from, NEW d, NEW c, Safe(l, from, d, c),
         NEW e \in EventType, Sound(Append(l, e), d, c)
  PROVE  Safe(Append(l, e), from, d, c)
<1>1. PICK m : m = Append(l, e)
  OBVIOUS
<1>2. l \in Seq(EventType) /\ from \in 0..Len(l)
  BY DEF Safe
<1>3. m \in Seq(EventType) /\ Len(m) = Len(l) + 1 /\ from \in 0..Len(m)
  BY <1>1, <1>2
<1>4. ASSUME NEW n \in from..Len(m) PROVE Sound(SubSeq(m, 1, n), d, c)
  <2>1. CASE n \in from..Len(l)
    <3>1. SubSeq(m, 1, n) = SubSeq(l, 1, n)
      BY <1>1, <1>2, <2>1
    <3> QED BY <2>1, <3>1 DEF Safe
  <2>2. CASE n \notin from..Len(l)
    <3>1. n = Len(m)
      BY <1>2, <1>3, <2>2
    <3>2. SubSeq(m, 1, n) = m
      BY <1>3, <3>1, WholeIs
    <3> QED BY <1>1, <3>2
  <2> QED BY <2>1, <2>2
<1> QED BY <1>1, <1>3, <1>4 DEF Safe

\* The log of an agent in turn t.
At(l, t) ==
  /\ t \in Nat /\ t > 0 /\ t <= Boundary(l)
  /\ TurnsUpto(l, t)
  /\ \A i \in DOMAIN l : Interrupted(l, i) => l[i].turn # t

\* An event of turn t that is no start of it and none of a repair.
Plain(e, t, d, c) ==
  /\ e \in EventType /\ e.turn = t
  /\ ~Started(e)
  /\ e.reason \notin {"interrupted", "not-started"} /\ e.form # "tool-result"
  /\ e.kind = "assistant/message" => \A i \in DOMAIN e.calls : e.calls[i] \in 1..c \ d
  /\ e.kind = "tool/call" => e.call \in 1..c

NeedsTurn(e) == e.kind \in {"step/start", "assistant/message", "tool/call"}

LEMMA TurnAppends ==
  ASSUME NEW l, NEW from, NEW t, NEW d, NEW c \in Nat, NEW e,
         Safe(l, from, d, c), At(l, t), Plain(e, t, d, c), NeedsTurn(e) => Open(l).turn = t
  PROVE  /\ Safe(Append(l, e), from, d, c)
         /\ At(Append(l, e), t)
         /\ Ended(e) => Open(Append(l, e)) = NothingOpen
         /\ ~Ended(e) => Open(Append(l, e)).turn = Open(l).turn
<1>1. Sound(l, d, c)
  BY SafeIsSound
<1>2. e \in EventType /\ l \in Seq(EventType)
  BY <1>1 DEF Plain, Sound
<1>3. PICK b, m, n : b = Boundary(l) /\ m = Append(l, e) /\ n = Len(l)
  OBVIOUS
<1>4. b \in Nat /\ t \in 1..b /\ e.turn = t
  BY <1>1, <1>3 DEF Sound, Boundary, BoundaryType, At, Plain
<1>5. LogFits(l, e, d, c)
  <2>1. ~Started(e) /\ e.turn \in 1..Boundary(l)
    BY <1>3, <1>4 DEF Plain
  <2>2. NeedsTurn(e) => Open(l).turn > 0
    BY <1>4
  <2>3. e.reason # "interrupted" /\ e.reason # "not-started" /\ e.form # "tool-result"
    BY DEF Plain
  <2>4. Ended(e) => \A i \in DOMAIN l : Interrupted(l, i) => l[i].turn # e.turn
    BY <1>4 DEF At
  <2> QED BY <1>2, <2>1, <2>2, <2>3, <2>4 DEF LogFits, NeedsTurn, Plain
<1>6. Sound(m, d, c)
  BY <1>1, <1>3, <1>5, SoundAppend
<1>7. Safe(m, from, d, c)
  BY <1>2, <1>3, <1>6, SafeAppend
<1>8. At(m, t)
  <2>1. Grown(l, e, m, n)
    BY <1>2, <1>3, AppendGrows
  <2>2. t <= Boundary(m)
    <3>1. turnBoundaryFrom(m) = BoundaryEvent(turnBoundaryFrom(l), e)
      BY <1>2, <1>3, BoundaryAppends
    <3>2. turnBoundaryFrom(l) \in BoundaryType /\ ~Started(e)
      BY <1>1 DEF Sound, Plain
    <3>3. (Ended(e) => Boundary(m) = b + 1) /\ (~Ended(e) => Boundary(m) = b)
      BY <1>2, <1>3, <3>1, <3>2, BoundaryIs DEF Boundary
    <3> QED BY <1>4, <3>3
  <2>3. ASSUME NEW i \in DOMAIN m
        PROVE  m[i].turn \in 1..t /\ (Interrupted(m, i) => m[i].turn # t)
    <3>1. CASE i = n + 1
      BY <1>4, <2>1, <3>1 DEF Grown, Interrupted, Plain
    <3>2. CASE i # n + 1
      <4>1. i \in DOMAIN l /\ m[i] = l[i]
        BY <2>1, <3>2 DEF Grown
      <4> QED BY <4>1 DEF At, TurnsUpto, Interrupted
    <3> QED BY <3>1, <3>2
  <2> QED BY <2>2, <2>3 DEF At, TurnsUpto
<1>9. /\ Ended(e) => Open(m) = NothingOpen
      /\ ~Ended(e) => Open(m).turn = Open(l).turn
  <2>1. PICK o : o = Open(l)
    OBVIOUS
  <2>2. OpenOK(o, b, d, c)
    BY <1>1, <1>3, <2>1 DEF Sound
  <2>3. PICK t2, s, ps : t2 = o.turn /\ s = o.step /\ ps = o.pending
    OBVIOUS
  <2>4. o = OpenOf(t2, s, ps)
    BY <1>4, <2>2, <2>3, OpenParts
  <2>5. ScanCases(o, e, t2, s, ps) /\ Open(m) = ScanEvent(o, e)
    BY <1>2, <1>3, <2>1, <2>4, ScanIs, OpenAppends
  <2>6. e.kind \in Kinds
    BY <1>2 DEF EventType, Kinds
  <2>7. ASSUME ~Ended(e) PROVE Open(m).turn = t2
    BY <2>4, <2>5, <2>6, <2>7 DEF ScanCases, OpenOf, Kinds, Started, Ended, Plain
  <2> QED BY <2>1, <2>3, <2>5, <2>7 DEF ScanCases, Ended
<1> QED BY <1>3, <1>7, <1>8, <1>9

-----------------------------------------------------------------------------
(* The inductive invariant.                                                *)

InTurnAt == pc \notin {"idle", "down"}
HasTools == pc \in {"tools", "recorded", "running"}

\* What every crash may leave is sound.
SafeLog == Safe(log, durable, dispatched, calls)

\* An agent that waits has nothing open, one in a turn has that turn open.
TurnIsOpen ==
  /\ pc = "idle" => Open(log) = NothingOpen
  /\ InTurnAt => phase.turn > 0 /\ Open(log).turn = phase.turn

\* The agent's count of turns is at the log's events, and within the boundary.
CountsAhead == pc # "down" => phase.turn <= Boundary(log) /\ TurnsUpto(log, phase.turn)

\* The calls still to be run are new ones the repair said nothing about, and
\* the one about to be dispatched is in the log.
CallsAreNew ==
  /\ dispatched \subseteq 1..calls
  /\ HasTools =>
       \A i \in DOMAIN todo :
         /\ todo[i] \in 1..calls
         /\ \A j \in DOMAIN log : log[j].reason = "not-started" => log[j].call # todo[i]
  /\ pc \in {"recorded", "running"} => todo # <<>>
  /\ pc = "recorded" =>
       \A i \in DOMAIN Open(log).pending :
         Open(log).pending[i].id = Head(todo) => Open(log).pending[i].recorded

\* The calls of turn t in l are answered, but for those of S.
Answers(l, t, S) ==
  \A i \in DOMAIN l, k \in Ids :
    l[i].turn = t /\ k \in ToSet(l[i].calls)
    => k \in S \/ \E j \in DOMAIN l : l[j].kind = "tool/result" /\ l[j].call = k

TurnAnswered ==
  /\ InTurnAt /\ ~HasTools => Answers(log, phase.turn, {})
  /\ HasTools => Answers(log, phase.turn, ToSet(todo))

IInv == TypeOK /\ SafeLog /\ TurnIsOpen /\ CountsAhead /\ CallsAreNew /\ TurnAnswered

-----------------------------------------------------------------------------
(* The events of an agent in a turn.                                       *)

LEMMA EventIs ==
  ASSUME phase \in BoundaryType, NEW kind \in Kinds
  PROVE  /\ Event(kind) \in EventType
         /\ Event(kind).kind = kind /\ Event(kind).turn = phase.turn
         /\ Event(kind).calls = <<>> /\ Event(kind).call = 0
         /\ Event(kind).form = "none" /\ Event(kind).reason = "none"
<1>1. phase.turn \in Nat /\ phase.step \in Nat
  BY DEF BoundaryType
<1>2. <<>> \in Seq(Ids)
  OBVIOUS
<1> QED BY <1>1, <1>2 DEF Event, EventType, Kinds

\* An event like e in all that matters here but what is named.
LEMMA PlainEvents ==
  ASSUME phase \in BoundaryType, NEW d, NEW c \in Nat
  PROVE  /\ \A kind \in {"step/end", "user/message", "assistant/attempt"} :
              /\ Plain(Event(kind), phase.turn, d, c)
              /\ ~Ended(Event(kind)) /\ ~NeedsTurn(Event(kind)) /\ Event(kind).calls = <<>>
         /\ \A reason \in {"completed", "aborted", "blocked", "error"} :
              /\ Plain(TurnEnd(reason), phase.turn, d, c)
              /\ Ended(TurnEnd(reason)) /\ ~NeedsTurn(TurnEnd(reason))
<1> USE DEF Plain, Started, Ended, NeedsTurn
<1>1. ASSUME NEW kind \in {"step/end", "user/message", "assistant/attempt"}
      PROVE  /\ Plain(Event(kind), phase.turn, d, c)
             /\ ~Ended(Event(kind)) /\ ~NeedsTurn(Event(kind)) /\ Event(kind).calls = <<>>
  <2>1. kind \in Kinds
    BY DEF Kinds
  <2> QED BY <2>1, EventIs
<1>2. ASSUME NEW reason \in {"completed", "aborted", "blocked", "error"}
      PROVE  /\ Plain(TurnEnd(reason), phase.turn, d, c)
             /\ Ended(TurnEnd(reason)) /\ ~NeedsTurn(TurnEnd(reason))
  <2>1. PICK e : e = Event("turn/end")
    OBVIOUS
  <2>2. /\ e \in EventType /\ e.kind = "turn/end" /\ e.turn = phase.turn
        /\ e.form = "none"
    BY <2>1, EventIs DEF Kinds
  <2>3. PICK f : f = [e EXCEPT !.reason = reason]
    OBVIOUS
  <2>4. f \in EventType /\ f.kind = "turn/end" /\ f.turn = phase.turn /\ f.form = "none" /\ f.reason = reason
    BY <2>2, <2>3 DEF EventType
  <2>5. TurnEnd(reason) = f
    BY <2>1, <2>3 DEF TurnEnd
  <2>6. Plain(f, phase.turn, d, c) /\ Ended(f) /\ ~NeedsTurn(f)
    BY <2>4
  <2> QED BY <2>5, <2>6
<1> QED BY <1>1, <1>2

LEMMA MessageIsPlain ==
  ASSUME phase \in BoundaryType, NEW d, NEW c \in Nat,
         NEW ids, ids \in Seq(Ids), \A i \in DOMAIN ids : ids[i] \in 1..c \ d
  PROVE  /\ Plain(AssistantMessage(ids), phase.turn, d, c)
         /\ ~Ended(AssistantMessage(ids)) /\ AssistantMessage(ids).calls = ids
         /\ AssistantMessage(ids).reason = "none"
<1>1. PICK e : e = Event("assistant/message")
  OBVIOUS
<1>2. /\ e \in EventType /\ e.kind = "assistant/message" /\ e.turn = phase.turn
      /\ e.form = "none" /\ e.reason = "none"
  BY <1>1, EventIs DEF Kinds
<1>3. PICK f : f = [e EXCEPT !.calls = ids]
  OBVIOUS
<1>4. /\ f \in EventType /\ f.kind = "assistant/message" /\ f.turn = phase.turn
      /\ f.form = "none" /\ f.reason = "none" /\ f.calls = ids
  BY <1>2, <1>3 DEF EventType
<1>5. AssistantMessage(ids) = f
  BY <1>1, <1>3 DEF AssistantMessage
<1>6. Plain(f, phase.turn, d, c) /\ ~Ended(f)
  BY <1>4 DEF Plain, Started, Ended
<1> QED BY <1>4, <1>5, <1>6

LEMMA StepStartIsPlain ==
  ASSUME phase \in BoundaryType, NEW d, NEW c \in Nat, NEW step \in Nat, NEW f,
         f = [Event("step/start") EXCEPT !.step = step]
  PROVE  Plain(f, phase.turn, d, c) /\ ~Ended(f) /\ f.calls = <<>>
<1>1. PICK e : e = Event("step/start")
  OBVIOUS
<1>2. /\ e \in EventType /\ e.kind = "step/start" /\ e.turn = phase.turn
      /\ e.form = "none" /\ e.reason = "none" /\ e.calls = <<>>
  BY <1>1, EventIs DEF Kinds
<1>3. f = [e EXCEPT !.step = step]
  BY <1>1
<1>4. /\ f \in EventType /\ f.kind = "step/start" /\ f.turn = phase.turn
      /\ f.form = "none" /\ f.reason = "none" /\ f.calls = <<>>
  BY <1>2, <1>3 DEF EventType
<1> QED BY <1>4 DEF Plain, Started, Ended

LEMMA ToolEventsArePlain ==
  ASSUME phase \in BoundaryType, NEW d, NEW c \in Nat, NEW id \in Ids, id \in 1..c
  PROVE  /\ Plain(ToolCall(id), phase.turn, d, c) /\ ~Ended(ToolCall(id))
         /\ ToolCall(id).kind = "tool/call" /\ ToolCall(id).call = id /\ ToolCall(id).calls = <<>>
         /\ ToolCall(id).reason = "none"
         /\ Plain(ToolResult(id), phase.turn, d, c) /\ ~Ended(ToolResult(id)) /\ ~NeedsTurn(ToolResult(id))
         /\ ToolResult(id).kind = "tool/result" /\ ToolResult(id).call = id /\ ToolResult(id).calls = <<>>
         /\ ToolResult(id).reason = "none"
<1>1. PICK e, g : e = Event("tool/call") /\ g = Event("tool/result")
  OBVIOUS
<1>2. /\ e \in EventType /\ e.kind = "tool/call" /\ e.turn = phase.turn
      /\ e.form = "none" /\ e.reason = "none" /\ e.calls = <<>>
      /\ g \in EventType /\ g.kind = "tool/result" /\ g.turn = phase.turn
      /\ g.form = "none" /\ g.reason = "none" /\ g.calls = <<>>
  BY <1>1, EventIs DEF Kinds
<1>3. PICK f, h, h1 : /\ f = [e EXCEPT !.call = id]
                      /\ h1 = [g EXCEPT !.call = id] /\ h = [h1 EXCEPT !.form = "text"]
  OBVIOUS
<1>4. /\ f \in EventType /\ f.kind = "tool/call" /\ f.turn = phase.turn /\ f.call = id
      /\ f.form = "none" /\ f.reason = "none" /\ f.calls = <<>>
  BY <1>2, <1>3 DEF EventType
<1>5. /\ h1 \in EventType /\ h1.kind = "tool/result" /\ h1.turn = phase.turn /\ h1.call = id
      /\ h1.form = "none" /\ h1.reason = "none" /\ h1.calls = <<>>
  BY <1>2, <1>3 DEF EventType
<1>6. /\ h \in EventType /\ h.kind = "tool/result" /\ h.turn = phase.turn /\ h.call = id
      /\ h.form = "text" /\ h.reason = "none" /\ h.calls = <<>>
  BY <1>3, <1>5 DEF EventType
<1>7. ToolCall(id) = f
  BY <1>1, <1>3 DEF ToolCall
<1>8. ToolResult(id) = h
  <2>1. h = [[g EXCEPT !.call = id] EXCEPT !.form = "text"]
    BY <1>3
  <2>2. [g EXCEPT !.call = id, !.form = "text"] = [[g EXCEPT !.call = id] EXCEPT !.form = "text"]
    BY <1>2 DEF EventType
  <2>3. ToolResult(id) = [g EXCEPT !.call = id, !.form = "text"]
    BY <1>1 DEF ToolResult
  <2> QED BY <2>1, <2>2, <2>3
<1>9. Plain(f, phase.turn, d, c) /\ ~Ended(f)
  BY <1>4 DEF Plain, Started, Ended
<1>10. Plain(h, phase.turn, d, c) /\ ~Ended(h) /\ ~NeedsTurn(h)
  BY <1>6 DEF Plain, Started, Ended, NeedsTurn
<1> QED BY <1>4, <1>6, <1>7, <1>8, <1>9, <1>10

LEMMA AnswersAppend ==
  ASSUME NEW l \in Seq(EventType), NEW e \in EventType, NEW t, NEW S, NEW S2, Answers(l, t, S),
         \A k \in S : k \in S2 \/ (e.kind = "tool/result" /\ e.call = k),
         \A k \in ToSet(e.calls) : k \in S2
  PROVE  Answers(Append(l, e), t, S2)
<1>1. PICK m, n : m = Append(l, e) /\ n = Len(l)
  OBVIOUS
<1>2. Grown(l, e, m, n)
  BY <1>1, AppendGrows
<1>3. ASSUME NEW i \in DOMAIN m, NEW k \in Ids, m[i].turn = t, k \in ToSet(m[i].calls)
      PROVE  k \in S2 \/ \E j \in DOMAIN m : m[j].kind = "tool/result" /\ m[j].call = k
  <2>1. CASE i = n + 1
    BY <1>2, <1>3, <2>1 DEF Grown
  <2>2. CASE i # n + 1
    <3>1. i \in DOMAIN l /\ m[i] = l[i]
      BY <1>2, <2>2 DEF Grown
    <3>2. k \in S \/ \E j \in DOMAIN l : l[j].kind = "tool/result" /\ l[j].call = k
      BY <1>3, <3>1 DEF Answers
    <3>3. CASE k \in S
      <4>1. n + 1 \in DOMAIN m /\ m[n + 1] = e
        BY <1>2 DEF Grown
      <4> QED BY <3>3, <4>1
    <3>4. CASE \E j \in DOMAIN l : l[j].kind = "tool/result" /\ l[j].call = k
      <4>1. PICK j \in DOMAIN l : l[j].kind = "tool/result" /\ l[j].call = k
        BY <3>4
      <4>2. j \in DOMAIN m /\ m[j] = l[j]
        BY <1>2 DEF Grown
      <4> QED BY <4>1, <4>2
    <3> QED BY <3>2, <3>3, <3>4
  <2> QED BY <2>1, <2>2
<1>4. Answers(m, t, S2)
  BY <1>3 DEF Answers
<1> QED BY <1>1, <1>4

LEMMA AnswersQuiet ==
  ASSUME NEW l \in Seq(EventType), NEW e \in EventType, NEW t, NEW S,
         Answers(l, t, S), e.calls = <<>>
  PROVE  Answers(Append(l, e), t, S)
<1>1. \A k \in ToSet(e.calls) : k \in S
  BY DEF ToSet
<1> QED BY <1>1, AnswersAppend

-----------------------------------------------------------------------------
(* Each action preserves the invariant.                                    *)

\* The log after a few more events.
After2(l, a, b) == Append(Append(l, a), b)
After3(l, a, b, c) == Append(After2(l, a, b), c)
After4(l, a, b, c, d) == Append(After3(l, a, b, c), d)

\* Appending a few events at once is appending them one by one.
Plus(l, evs) == l \o evs

LEMMA ConcatOne ==
  ASSUME NEW l, NEW a, l \in Seq(EventType), a \in EventType
  PROVE  Plus(l, <<a>>) = Append(l, a)
BY DEF Plus

LEMMA ConcatTwo ==
  ASSUME NEW l, NEW a, NEW b, l \in Seq(EventType), a \in EventType, b \in EventType
  PROVE  Plus(l, <<a>> \o <<b>>) = After2(l, a, b)
BY DEF Plus, After2

\* What \o does, element by element.
LEMMA PlusIs ==
  ASSUME NEW l \in Seq(EventType), NEW evs \in Seq(EventType)
  PROVE  /\ Plus(l, evs) \in Seq(EventType) /\ Len(Plus(l, evs)) = Len(l) + Len(evs)
         /\ \A i \in 1..Len(l) : Plus(l, evs)[i] = l[i]
         /\ \A i \in 1..Len(evs) : Plus(l, evs)[Len(l) + i] = evs[i]
BY DEF Plus

LEMMA ConcatThree ==
  ASSUME NEW l, NEW a, NEW b, NEW c,
         l \in Seq(EventType), a \in EventType, b \in EventType, c \in EventType
  PROVE  Plus(l, <<a>> \o (<<b>> \o <<c>>)) = After3(l, a, b, c)
<1>1. PICK m : m = After3(l, a, b, c)
  OBVIOUS
<1>2. /\ m \in Seq(EventType) /\ Len(m) = Len(l) + 3 /\ Len(l) \in Nat
      /\ \A i \in 1..Len(l) : m[i] = l[i]
      /\ m[Len(l) + 1] = a /\ m[Len(l) + 2] = b /\ m[Len(l) + 3] = c
  BY <1>1 DEF After3, After2
<1>3. PICK evs : evs = <<a>> \o (<<b>> \o <<c>>)
  OBVIOUS
<1>4. /\ evs \in Seq(EventType) /\ Len(evs) = 3
      /\ evs[1] = a /\ evs[2] = b /\ evs[3] = c
  BY <1>3
<1>5. PICK p : p = Plus(l, evs)
  OBVIOUS
<1>6. /\ p \in Seq(EventType) /\ Len(p) = Len(l) + Len(evs)
      /\ \A i \in 1..Len(l) : p[i] = l[i]
      /\ \A i \in 1..Len(evs) : p[Len(l) + i] = evs[i]
  BY <1>4, <1>5, PlusIs, Zenon
<1>i. \A i \in 1..3 : i \in 1..Len(evs) /\ p[Len(l) + i] = m[Len(l) + i]
  BY <1>2, <1>4, <1>6
<1>7. ASSUME NEW i \in 1..(Len(l) + 3) PROVE p[i] = m[i]
  <2>1. CASE i \in 1..Len(l)
    BY <1>2, <1>6, <2>1
  <2>2. CASE i \notin 1..Len(l)
    <3>1. i - Len(l) \in 1..3 /\ Len(l) + (i - Len(l)) = i
      BY <1>2, <2>2
    <3> QED BY <1>i, <3>1
  <2> QED BY <2>1, <2>2
<1>8. p = [i \in 1..(Len(l) + 3) |-> p[i]] /\ m = [i \in 1..(Len(l) + 3) |-> m[i]]
  BY <1>2, <1>4, <1>6
<1>9. p = m
  BY <1>7, <1>8
<1> QED BY <1>1, <1>3, <1>5, <1>9

LEMMA ConcatFour ==
  ASSUME NEW l, NEW a, NEW b, NEW c, NEW d,
         l \in Seq(EventType), a \in EventType, b \in EventType, c \in EventType, d \in EventType
  PROVE  Plus(l, <<a, b>> \o (<<c>> \o <<d>>)) = After4(l, a, b, c, d)
<1>1. PICK m : m = After4(l, a, b, c, d)
  OBVIOUS
<1>2. /\ m \in Seq(EventType) /\ Len(m) = Len(l) + 4 /\ Len(l) \in Nat
      /\ \A i \in 1..Len(l) : m[i] = l[i]
      /\ m[Len(l) + 1] = a /\ m[Len(l) + 2] = b /\ m[Len(l) + 3] = c /\ m[Len(l) + 4] = d
  BY <1>1 DEF After4, After3, After2
<1>3. PICK evs : evs = <<a, b>> \o (<<c>> \o <<d>>)
  OBVIOUS
<1>4. /\ evs \in Seq(EventType) /\ Len(evs) = 4
      /\ evs[1] = a /\ evs[2] = b /\ evs[3] = c /\ evs[4] = d
  BY <1>3
<1>5. PICK p : p = Plus(l, evs)
  OBVIOUS
<1>6. /\ p \in Seq(EventType) /\ Len(p) = Len(l) + Len(evs)
      /\ \A i \in 1..Len(l) : p[i] = l[i]
      /\ \A i \in 1..Len(evs) : p[Len(l) + i] = evs[i]
  BY <1>4, <1>5, PlusIs, Zenon
<1>i. \A i \in 1..4 : i \in 1..Len(evs) /\ p[Len(l) + i] = m[Len(l) + i]
  BY <1>2, <1>4, <1>6
<1>7. ASSUME NEW i \in 1..(Len(l) + 4) PROVE p[i] = m[i]
  <2>1. CASE i \in 1..Len(l)
    BY <1>2, <1>6, <2>1
  <2>2. CASE i \notin 1..Len(l)
    <3>1. i - Len(l) \in 1..4 /\ Len(l) + (i - Len(l)) = i
      BY <1>2, <2>2
    <3> QED BY <1>i, <3>1
  <2> QED BY <2>1, <2>2
<1>8. p = [i \in 1..(Len(l) + 4) |-> p[i]] /\ m = [i \in 1..(Len(l) + 4) |-> m[i]]
  BY <1>2, <1>4, <1>6
<1>9. p = m
  BY <1>7, <1>8
<1> QED BY <1>1, <1>3, <1>5, <1>9

\* step/end and turn/end: the turn is closed.
LEMMA TurnCloses ==
  ASSUME phase \in BoundaryType, NEW l, NEW from, NEW d, NEW c \in Nat,
         Safe(l, from, d, c), At(l, phase.turn),
         NEW reason \in {"completed", "aborted", "blocked", "error"}
  PROVE  LET m == After2(l, Event("step/end"), TurnEnd(reason))
         IN  Safe(m, from, d, c) /\ At(m, phase.turn) /\ Open(m) = NothingOpen
<1>1. PICK t, e, f, k : /\ t = phase.turn /\ e = Event("step/end") /\ f = TurnEnd(reason)
                        /\ k = Append(l, e)
  OBVIOUS
<1>2. Plain(e, t, d, c) /\ ~NeedsTurn(e) /\ Plain(f, t, d, c) /\ Ended(f) /\ ~NeedsTurn(f)
  BY <1>1, PlainEvents
<1>3. Safe(k, from, d, c) /\ At(k, t)
  BY <1>1, <1>2, TurnAppends
<1>4. Safe(Append(k, f), from, d, c) /\ At(Append(k, f), t) /\ Open(Append(k, f)) = NothingOpen
  BY <1>2, <1>3, TurnAppends
<1> QED BY <1>1, <1>4 DEF After2

\* Another event of the turn first.
LEMMA TurnClosesAfter ==
  ASSUME phase \in BoundaryType, NEW l, NEW from, NEW d, NEW c \in Nat,
         Safe(l, from, d, c), At(l, phase.turn),
         NEW e, Plain(e, phase.turn, d, c), NeedsTurn(e) => Open(l).turn = phase.turn,
         NEW reason \in {"completed", "aborted", "blocked", "error"}
  PROVE  LET m == After3(l, e, Event("step/end"), TurnEnd(reason))
         IN  Safe(m, from, d, c) /\ At(m, phase.turn) /\ Open(m) = NothingOpen
<1>1. PICK k : k = Append(l, e)
  OBVIOUS
<1>2. Safe(k, from, d, c) /\ At(k, phase.turn)
  BY <1>1, TurnAppends
<1> QED BY <1>1, <1>2, TurnCloses DEF After3, After2

\* An event of the turn and its end, both before step/end and the second end.
LEMMA TurnClosesTwice ==
  ASSUME phase \in BoundaryType, NEW l, NEW from, NEW d, NEW c \in Nat,
         Safe(l, from, d, c), At(l, phase.turn),
         NEW e, Plain(e, phase.turn, d, c), NeedsTurn(e) => Open(l).turn = phase.turn,
         NEW first \in {"completed", "aborted", "blocked", "error"},
         NEW reason \in {"completed", "aborted", "blocked", "error"}
  PROVE  LET m == After4(l, e, TurnEnd(first), Event("step/end"), TurnEnd(reason))
         IN  Safe(m, from, d, c) /\ At(m, phase.turn) /\ Open(m) = NothingOpen
<1>1. PICK k : k = Append(l, e)
  OBVIOUS
<1>2. Safe(k, from, d, c) /\ At(k, phase.turn)
  BY <1>1, TurnAppends
<1>3. PICK f : f = TurnEnd(first)
  OBVIOUS
<1>4. Plain(f, phase.turn, d, c) /\ ~NeedsTurn(f)
  BY <1>3, PlainEvents
<1> QED BY <1>1, <1>2, <1>3, <1>4, TurnClosesAfter DEF After4, After3, After2

\* What the invariant says about an agent in a turn.
LEMMA InTurn ==
  ASSUME IInv, InTurnAt
  PROVE  /\ phase \in BoundaryType /\ calls \in Nat
         /\ Safe(log, Len(log), dispatched, calls)
         /\ At(log, phase.turn) /\ Open(log).turn = phase.turn
         /\ log \in Seq(EventType)
<1>1. phase \in BoundaryType /\ calls \in Nat
  BY AgentAssumption DEF IInv, TypeOK, BoundaryType
<1>2. Sound(log, dispatched, calls)
  BY SafeIsSound DEF IInv, SafeLog
<1>3. Safe(log, Len(log), dispatched, calls)
  BY <1>2, SafeNow
<1>4. phase.turn > 0 /\ Open(log).turn = phase.turn
  BY DEF IInv, TurnIsOpen
<1>5. \A i \in DOMAIN log : Interrupted(log, i) => log[i].turn # phase.turn
  BY <1>2, <1>4 DEF Sound, OpenRuns, EndsOnce
<1>6. At(log, phase.turn)
  <2>1. pc # "down"
    BY DEF InTurnAt
  <2> QED BY <1>1, <1>4, <1>5, <2>1 DEF At, BoundaryType, IInv, CountsAhead
<1> QED BY <1>1, <1>2, <1>3, <1>4, <1>6 DEF Sound

\* The end of a turn, whatever brought it about.
LEMMA TurnIsOver ==
  ASSUME IInv, Safe(log', durable', dispatched', calls'), At(log', phase.turn),
         Open(log') = NothingOpen, pc' = "idle",
         UNCHANGED <<phase, todo, dispatched, crashes>>,
         concluded' \in BOOLEAN, cancelled' \in BOOLEAN,
         calls' \in Nat, calls <= calls', calls' <= MaxCalls
  PROVE  IInv'
<1>1. TypeOK'
  <2>1. log' \in Seq(EventType) /\ durable' \in 0..Len(log')
    BY DEF Safe
  <2> QED BY <2>1, AgentAssumption DEF IInv, TypeOK
<1>2. SafeLog'
  BY DEF SafeLog
<1>3. TurnIsOpen'
  BY DEF TurnIsOpen, InTurnAt
<1>4. CountsAhead'
  BY DEF CountsAhead, At
<1>5. CallsAreNew'
  BY AgentAssumption DEF CallsAreNew, HasTools, IInv, TypeOK
<1>6. TurnAnswered'
  BY DEF TurnAnswered, InTurnAt, HasTools
<1> QED BY <1>1, <1>2, <1>3, <1>4, <1>5, <1>6 DEF IInv

\* The turn goes on: what is left to show are its calls.
LEMMA TurnGoesOn ==
  ASSUME IInv, Safe(log', durable', dispatched', calls'), At(log', phase.turn),
         Open(log').turn = phase.turn,
         pc' \in {"loop", "stream", "tools", "recorded", "running"},
         phase' \in BoundaryType, phase'.turn = phase.turn,
         todo' \in Seq(Ids), dispatched' \subseteq Ids,
         concluded' \in BOOLEAN, cancelled' \in BOOLEAN, crashes' = crashes,
         calls' \in Nat, calls' <= MaxCalls, CallsAreNew', TurnAnswered'
  PROVE  IInv'
<1>1. TypeOK'
  <2>1. log' \in Seq(EventType) /\ durable' \in 0..Len(log')
    BY DEF Safe
  <2> QED BY <2>1, AgentAssumption DEF IInv, TypeOK, BoundaryType
<1>2. SafeLog'
  BY DEF SafeLog
<1>3. TurnIsOpen'
  BY DEF TurnIsOpen, InTurnAt, At
<1>4. CountsAhead'
  BY DEF CountsAhead, At
<1> QED BY <1>1, <1>2, <1>3, <1>4 DEF IInv

\* More calls may be handed out.
LEMMA InTurnMore ==
  ASSUME IInv, InTurnAt, NEW n \in Nat, calls + n <= MaxCalls
  PROVE  /\ calls + n \in Nat /\ calls <= calls + n
         /\ Safe(log, Len(log), dispatched, calls + n)
         /\ Asked(n) \in Seq(Ids) /\ DOMAIN Asked(n) = 1..n
         /\ \A i \in 1..n : /\ Asked(n)[i] \in 1..(calls + n) \ dispatched
                            /\ Asked(n)[i] > calls
<1>1. calls \in Nat /\ MaxCalls \in Nat /\ Sound(log, dispatched, calls)
  BY InTurn, SafeIsSound, AgentAssumption
<1>2. Safe(log, Len(log), dispatched, calls + n)
  <2>1. PICK c2 \in Nat : c2 = calls + n /\ calls <= c2
    BY <1>1
  <2>2. Sound(log, dispatched, c2)
    BY <1>1, <2>1, SoundLonger
  <2> QED BY <2>1, <2>2, SafeNow
<1>3. Asked(n) \in Seq(Ids) /\ DOMAIN Asked(n) = 1..n
  <2>1. \A i \in 1..n : calls + i \in Ids
    BY <1>1 DEF Ids
  <2> QED BY <2>1 DEF Asked
<1>4. ASSUME NEW i \in 1..n
      PROVE  Asked(n)[i] \in 1..(calls + n) \ dispatched /\ Asked(n)[i] > calls
  <2>1. Asked(n)[i] = calls + i
    BY DEF Asked
  <2>2. dispatched \subseteq 1..calls
    BY DEF IInv, CallsAreNew
  <2> QED BY <1>1, <2>1, <2>2
<1> QED BY <1>1, <1>2, <1>3, <1>4

LEMMA AbortKeeps == IInv /\ LoopAborts => IInv'
<1> SUFFICES ASSUME IInv, LoopAborts PROVE IInv'
  OBVIOUS
<1>1. InTurnAt
  BY DEF LoopAborts, InTurnAt
<1>2. PICK e : e = TurnEnd("aborted")
  OBVIOUS
<1>3. Plain(e, phase.turn, dispatched, calls) /\ Ended(e) /\ ~NeedsTurn(e)
  BY <1>1, <1>2, InTurn, PlainEvents
<1>4. e \in EventType
  BY <1>3 DEF Plain
<1>5. log' = Append(log, e) /\ durable' = Len(log)
  BY <1>1, <1>2, <1>4, InTurn, ConcatOne DEF LoopAborts, Append2Log
<1>6. Safe(log', durable', dispatched, calls) /\ At(log', phase.turn) /\ Open(log') = NothingOpen
  BY <1>1, <1>3, <1>5, InTurn, TurnAppends
<1> QED BY <1>1, <1>6, InTurn, TurnIsOver DEF LoopAborts, IInv, TypeOK

\* Events without calls leave the answers as they are.
LEMMA QuietTurnGoesOn ==
  ASSUME IInv, InTurnAt, ~HasTools, NEW e, Plain(e, phase.turn, dispatched, calls), ~Ended(e),
         e.calls = <<>>, log' = Append(log, e), durable' = Len(log),
         pc' \in {"loop", "stream"}, phase' \in BoundaryType, phase'.turn = phase.turn,
         UNCHANGED <<todo, concluded, cancelled, dispatched, calls, crashes>>
  PROVE  IInv'
<1>1. Safe(log', durable', dispatched, calls) /\ At(log', phase.turn) /\ Open(log').turn = phase.turn
  BY InTurn, TurnAppends
<1>2. CallsAreNew'
  BY DEF CallsAreNew, HasTools, IInv
<1>3. Answers(log', phase.turn, {})
  <2>1. Answers(log, phase.turn, {}) /\ e \in EventType
    BY DEF IInv, TurnAnswered, Plain
  <2> QED BY <2>1, InTurn, AnswersQuiet
<1>4. TurnAnswered'
  BY <1>3 DEF TurnAnswered, HasTools
<1> QED BY <1>1, <1>2, <1>4, InTurn, TurnGoesOn DEF IInv, TypeOK

LEMMA ClaimKeeps == IInv /\ ClaimMessage => IInv'
<1> SUFFICES ASSUME IInv, ClaimMessage PROVE IInv'
  OBVIOUS
<1>1. InTurnAt /\ ~HasTools
  BY DEF ClaimMessage, InTurnAt, HasTools
<1>2. CASE Append2Log(<<Event("user/message")>>) /\ pc' = "loop"
  <2>1. PICK e : e = Event("user/message")
    OBVIOUS
  <2>2. Plain(e, phase.turn, dispatched, calls) /\ ~Ended(e) /\ e.calls = <<>> /\ e \in EventType
    BY <1>1, <2>1, InTurn, PlainEvents DEF Plain
  <2>3. log' = Append(log, e) /\ durable' = Len(log)
    BY <1>1, <1>2, <2>1, <2>2, InTurn, ConcatOne DEF Append2Log, Plus
  <2> QED BY <1>1, <1>2, <2>2, <2>3, InTurn, QuietTurnGoesOn DEF ClaimMessage
<1>3. CASE Append2Log(<<TurnEnd("blocked")>>) /\ pc' = "idle"
  <2>1. PICK e : e = TurnEnd("blocked")
    OBVIOUS
  <2>2. Plain(e, phase.turn, dispatched, calls) /\ Ended(e) /\ ~NeedsTurn(e) /\ e \in EventType
    BY <1>1, <2>1, InTurn, PlainEvents DEF Plain
  <2>3. log' = Append(log, e) /\ durable' = Len(log)
    BY <1>1, <1>3, <2>1, <2>2, InTurn, ConcatOne DEF Append2Log, Plus
  <2>4. Safe(log', durable', dispatched, calls) /\ At(log', phase.turn) /\ Open(log') = NothingOpen
    BY <1>1, <2>2, <2>3, InTurn, TurnAppends
  <2> QED BY <1>1, <1>3, <2>4, InTurn, TurnIsOver DEF ClaimMessage, IInv, TypeOK
<1> QED BY <1>2, <1>3 DEF ClaimMessage

LEMMA StartKeeps == IInv /\ StartStep => IInv'
<1> SUFFICES ASSUME IInv, StartStep PROVE IInv'
  OBVIOUS
<1>1. InTurnAt /\ ~HasTools
  BY DEF StartStep, InTurnAt, HasTools
<1>2. phase \in BoundaryType
  BY <1>1, InTurn
<1>3. PICK e, step : step = phase.step + 1 /\ e = [Event("step/start") EXCEPT !.step = step]
  OBVIOUS
<1>4. step \in Nat
  BY <1>2, <1>3 DEF BoundaryType
<1>5. Plain(e, phase.turn, dispatched, calls) /\ ~Ended(e) /\ e.calls = <<>>
  BY <1>1, <1>3, <1>4, InTurn, StepStartIsPlain
<1>6. e \in EventType
  BY <1>5 DEF Plain
<1>7. log' = Append(log, e) /\ durable' = Len(log)
  <2>1. Append2Log(<<e>>)
    BY <1>3 DEF StartStep
  <2> QED BY <1>1, <1>6, <2>1, InTurn, ConcatOne, ConcatTwo DEF Append2Log, Plus
<1>8. phase' \in BoundaryType /\ phase'.turn = phase.turn
  BY <1>2 DEF StartStep, BoundaryType
<1> QED BY <1>1, <1>5, <1>7, <1>8, QuietTurnGoesOn DEF StartStep

LEMMA FailKeeps == IInv /\ StreamFails => IInv'
<1> SUFFICES ASSUME IInv, StreamFails PROVE IInv'
  OBVIOUS
<1>1. InTurnAt /\ ~HasTools
  BY DEF StreamFails, InTurnAt, HasTools
<1>2. PICK e, f, g : e = Event("assistant/attempt") /\ f = Event("step/end") /\ g = TurnEnd("error")
  OBVIOUS
<1>3. /\ Plain(e, phase.turn, dispatched, calls) /\ ~Ended(e) /\ ~NeedsTurn(e) /\ e.calls = <<>>
      /\ Plain(f, phase.turn, dispatched, calls) /\ ~Ended(f) /\ ~NeedsTurn(f) /\ f.calls = <<>>
      /\ Plain(g, phase.turn, dispatched, calls)
  BY <1>1, <1>2, InTurn, PlainEvents
<1>4. e \in EventType /\ f \in EventType /\ g \in EventType
  BY <1>3 DEF Plain
<1>5. CASE Append2Log(<<e>> \o StepEnds) /\ pc' = "loop"
  <2>1. PICK k : k = Append(log, e)
    OBVIOUS
  <2>2. log' = Append(k, f) /\ durable' = Len(log)
    <3>1. StepEnds = <<f>>
      BY <1>2 DEF StepEnds
    <3> QED BY <1>1, <1>4, <1>5, <2>1, <3>1, InTurn, ConcatOne, ConcatTwo DEF Append2Log, Plus
  <2>3. /\ Safe(k, Len(log), dispatched, calls) /\ At(k, phase.turn)
        /\ Open(k).turn = phase.turn
    BY <1>1, <1>3, <2>1, InTurn, TurnAppends
  <2>4. /\ Safe(log', Len(log), dispatched, calls) /\ At(log', phase.turn)
        /\ Open(log').turn = phase.turn
    BY <1>1, <1>3, <2>2, <2>3, InTurn, TurnAppends
  <2>5. CallsAreNew'
    BY <1>5 DEF CallsAreNew, HasTools, IInv, StreamFails
  <2>6. Answers(log', phase.turn, {})
    <3>1. Answers(log, phase.turn, {})
      BY <1>1 DEF IInv, TurnAnswered
    <3>2. Answers(k, phase.turn, {}) /\ k \in Seq(EventType)
      BY <1>1, <1>3, <1>4, <2>1, <3>1, InTurn, AnswersQuiet
    <3> QED BY <1>3, <1>4, <2>2, <3>2, AnswersQuiet
  <2>7. TurnAnswered'
    BY <1>5, <2>6 DEF TurnAnswered, HasTools, StreamFails
  <2> QED BY <1>1, <1>5, <2>2, <2>4, <2>5, <2>7, InTurn, TurnGoesOn DEF StreamFails, IInv, TypeOK
<1>6. CASE Append2Log(<<e, g>> \o TurnEnds("error")) /\ pc' = "idle"
  <2>1. log' = After4(log, e, g, f, g) /\ durable' = Len(log)
    <3>1. TurnEnds("error") = <<f>> \o <<g>>
      BY <1>2 DEF StepEnds, TurnEnds
    <3>2. log \in Seq(EventType)
      BY <1>1, InTurn
    <3>3. Plus(log, <<e, g>> \o (<<f>> \o <<g>>)) = After4(log, e, g, f, g)
      BY <1>4, <3>2, ConcatFour, Zenon
    <3> QED BY <1>6, <3>1, <3>3 DEF Append2Log, Plus
  <2>2. Safe(log', durable', dispatched, calls) /\ At(log', phase.turn) /\ Open(log') = NothingOpen
    BY <1>1, <1>2, <1>3, <2>1, InTurn, TurnClosesTwice
  <2> QED BY <1>1, <1>6, <2>2, InTurn, TurnIsOver DEF StreamFails, IInv, TypeOK
<1> QED BY <1>2, <1>5, <1>6 DEF StreamFails

LEMMA AbortedKeeps == IInv /\ StreamAborted => IInv'
<1> SUFFICES ASSUME IInv, StreamAborted PROVE IInv'
  OBVIOUS
<1>1. InTurnAt /\ ~HasTools
  BY DEF StreamAborted, InTurnAt, HasTools
<1>2. PICK f, g, h : f = Event("step/end") /\ g = TurnEnd("completed") /\ h = TurnEnd("aborted")
  OBVIOUS
<1>3. f \in EventType /\ g \in EventType /\ h \in EventType
  BY <1>1, <1>2, InTurn, PlainEvents DEF Plain
<1>4. TurnEnds("completed") = <<f>> \o <<g>>
  BY <1>2 DEF StepEnds, TurnEnds
<1>5. log \in Seq(EventType) /\ phase \in BoundaryType
  BY <1>1, InTurn
<1>6. CASE Append2Log(<<Event("assistant/attempt")>> \o TurnEnds("completed")) /\ UNCHANGED calls
  <2>1. PICK e : e = Event("assistant/attempt")
    OBVIOUS
  <2>2. Plain(e, phase.turn, dispatched, calls) /\ ~NeedsTurn(e) /\ e \in EventType
    BY <1>1, <2>1, InTurn, PlainEvents DEF Plain
  <2>3. log' = After3(log, e, f, g) /\ durable' = Len(log)
    BY <1>3, <1>4, <1>5, <1>6, <2>1, <2>2, ConcatThree DEF Append2Log, Plus
  <2>4. Safe(log', durable', dispatched, calls) /\ At(log', phase.turn) /\ Open(log') = NothingOpen
    BY <1>1, <1>2, <2>2, <2>3, InTurn, TurnClosesAfter
  <2> QED BY <1>1, <1>6, <2>4, InTurn, TurnIsOver DEF StreamAborted, IInv, TypeOK
<1>7. ASSUME NEW n \in 0..2, calls + n <= MaxCalls, calls' = calls + n,
             Append2Log(<<AssistantMessage(Asked(n)), TurnEnd("aborted")>> \o TurnEnds("completed"))
      PROVE  IInv'
  <2>1. PICK e : e = AssistantMessage(Asked(n))
    OBVIOUS
  <2>2. PICK c : c = calls + n
    OBVIOUS
  <2>3. c \in Nat /\ calls <= c /\ Safe(log, Len(log), dispatched, c) /\ Asked(n) \in Seq(Ids)
        /\ \A i \in DOMAIN Asked(n) : Asked(n)[i] \in 1..c \ dispatched
    BY <1>1, <1>7, <2>2, InTurnMore
  <2>4. Plain(e, phase.turn, dispatched, c)
    BY <1>5, <2>1, <2>3, MessageIsPlain
  <2>e. e \in EventType
    BY <2>4 DEF Plain
  <2>5. log' = After4(log, e, h, f, g) /\ durable' = Len(log)
    <3>1. Plus(log, <<e, h>> \o (<<f>> \o <<g>>)) = After4(log, e, h, f, g)
      BY <1>3, <1>5, <2>e, ConcatFour, Zenon
    <3> QED BY <1>2, <1>4, <1>7, <2>1, <3>1 DEF Append2Log, Plus
  <2>6. Safe(log', durable', dispatched, c) /\ At(log', phase.turn) /\ Open(log') = NothingOpen
    BY <1>1, <1>2, <1>5, <2>3, <2>4, <2>5, InTurn, TurnClosesTwice
  <2> QED BY <1>1, <1>7, <2>2, <2>3, <2>6, InTurn, TurnIsOver DEF StreamAborted, IInv, TypeOK
<1> QED BY <1>6, <1>7 DEF StreamAborted

LEMMA LimitKeeps == IInv /\ StreamHitsLimit => IInv'
<1> SUFFICES ASSUME IInv, StreamHitsLimit PROVE IInv'
  OBVIOUS
<1>1. InTurnAt /\ ~HasTools
  BY DEF StreamHitsLimit, InTurnAt, HasTools
<1>2. PICK f, g : f = Event("step/end") /\ g = TurnEnd("completed")
  OBVIOUS
<1>3. f \in EventType /\ g \in EventType
  BY <1>1, <1>2, InTurn, PlainEvents DEF Plain
<1>4. TurnEnds("completed") = <<f>> \o <<g>>
  BY <1>2 DEF StepEnds, TurnEnds
<1>5. log \in Seq(EventType) /\ phase \in BoundaryType
  BY <1>1, InTurn
<1>7. ASSUME NEW n \in 0..2, calls + n <= MaxCalls, calls' = calls + n,
             Append2Log(<<AssistantMessage(Asked(n))>> \o TurnEnds("completed"))
      PROVE  IInv'
  <2>1. PICK e : e = AssistantMessage(Asked(n))
    OBVIOUS
  <2>2. PICK c : c = calls + n
    OBVIOUS
  <2>3. c \in Nat /\ calls <= c /\ Safe(log, Len(log), dispatched, c) /\ Asked(n) \in Seq(Ids)
        /\ \A i \in DOMAIN Asked(n) : Asked(n)[i] \in 1..c \ dispatched
    BY <1>1, <1>7, <2>2, InTurnMore
  <2>4. Plain(e, phase.turn, dispatched, c)
    BY <1>5, <2>1, <2>3, MessageIsPlain
  <2>e. e \in EventType
    BY <2>4 DEF Plain
  <2>5. log' = After3(log, e, f, g) /\ durable' = Len(log)
    BY <1>3, <1>4, <1>5, <1>7, <2>1, <2>e, ConcatThree DEF Append2Log, Plus
  <2>6. Safe(log', durable', dispatched, c) /\ At(log', phase.turn) /\ Open(log') = NothingOpen
    BY <1>1, <1>2, <1>5, <2>3, <2>4, <2>5, InTurn, TurnClosesAfter
  <2> QED BY <1>1, <1>7, <2>2, <2>3, <2>6, InTurn, TurnIsOver DEF StreamHitsLimit, IInv, TypeOK
<1> QED BY <1>7 DEF StreamHitsLimit

LEMMA AnswerKeeps == IInv /\ StreamAnswers => IInv'
<1> SUFFICES ASSUME IInv, StreamAnswers PROVE IInv'
  OBVIOUS
<1>1. InTurnAt /\ ~HasTools
  BY DEF StreamAnswers, InTurnAt, HasTools
<1>2. PICK f, g : f = Event("step/end") /\ g = TurnEnd("completed")
  OBVIOUS
<1>3. f \in EventType /\ g \in EventType
  BY <1>1, <1>2, InTurn, PlainEvents DEF Plain
<1>4. TurnEnds("completed") = <<f>> \o <<g>>
  BY <1>2 DEF StepEnds, TurnEnds
<1>5. log \in Seq(EventType) /\ phase \in BoundaryType
  BY <1>1, InTurn
<1>6. CASE Append2Log(<<AssistantMessage(<<>>)>> \o TurnEnds("completed"))
  <2>1. PICK e, none : none = <<>> /\ e = AssistantMessage(none)
    OBVIOUS
  <2>2. none \in Seq(Ids) /\ \A i \in DOMAIN none : none[i] \in 1..calls \ dispatched
    BY <2>1
  <2>3. Plain(e, phase.turn, dispatched, calls)
    BY <1>1, <2>1, <2>2, InTurn, MessageIsPlain
  <2>e. e \in EventType
    BY <2>3 DEF Plain
  <2>4. log' = After3(log, e, f, g) /\ durable' = Len(log)
    BY <1>3, <1>4, <1>5, <1>6, <2>1, <2>e, ConcatThree DEF Append2Log, Plus
  <2>5. Safe(log', durable', dispatched, calls) /\ At(log', phase.turn) /\ Open(log') = NothingOpen
    BY <1>1, <1>2, <2>3, <2>4, InTurn, TurnClosesAfter
  <2> QED BY <1>1, <1>6, <2>5, InTurn, TurnIsOver DEF StreamAnswers, IInv, TypeOK
<1>7. CASE Append2Log(TurnEnds("completed"))
  <2>1. log' = After2(log, f, g) /\ durable' = Len(log)
    BY <1>3, <1>4, <1>5, <1>7, ConcatTwo DEF Append2Log, Plus
  <2>2. Safe(log', durable', dispatched, calls) /\ At(log', phase.turn) /\ Open(log') = NothingOpen
    BY <1>1, <1>2, <2>1, InTurn, TurnCloses
  <2> QED BY <1>1, <1>7, <2>2, InTurn, TurnIsOver DEF StreamAnswers, IInv, TypeOK
<1> QED BY <1>6, <1>7 DEF StreamAnswers

LEMMA AskKeeps == IInv /\ StreamAsksTools => IInv'
<1> SUFFICES ASSUME IInv, StreamAsksTools PROVE IInv'
  OBVIOUS
<1>1. InTurnAt /\ ~HasTools
  BY DEF StreamAsksTools, InTurnAt, HasTools
<1>2. PICK n \in 1..2 : /\ calls + n <= MaxCalls /\ calls' = calls + n
                        /\ todo' = Asked(n)
                        /\ Append2Log(<<AssistantMessage(Asked(n))>>)
  BY DEF StreamAsksTools
<1>3. PICK e, c : e = AssistantMessage(Asked(n)) /\ c = calls + n
  OBVIOUS
<1>4. log \in Seq(EventType) /\ phase \in BoundaryType /\ calls \in Nat
      /\ Open(log).turn = phase.turn /\ At(log, phase.turn)
  BY <1>1, InTurn
<1>5. c \in Nat /\ calls <= c /\ Safe(log, Len(log), dispatched, c) /\ Asked(n) \in Seq(Ids)
      /\ \A i \in DOMAIN Asked(n) : Asked(n)[i] \in 1..c \ dispatched /\ Asked(n)[i] > calls
  BY <1>1, <1>2, <1>3, InTurnMore
<1>6. /\ Plain(e, phase.turn, dispatched, c) /\ ~Ended(e)
      /\ e.calls = Asked(n) /\ e.reason = "none"
  <2>1. PICK ids : ids = Asked(n)
    OBVIOUS
  <2>2. ids \in Seq(Ids) /\ \A i \in DOMAIN ids : ids[i] \in 1..c \ dispatched
    BY <1>5, <2>1
  <2>3. c \in Nat /\ phase \in BoundaryType /\ e = AssistantMessage(ids)
    BY <1>3, <1>4, <1>5, <2>1
  <2> QED BY <2>1, <2>2, <2>3, MessageIsPlain
<1>e. e \in EventType
  BY <1>6 DEF Plain
<1>7. log' = Append(log, e) /\ durable' = Len(log)
  BY <1>2, <1>3, <1>4, <1>e, ConcatOne DEF Append2Log, Plus
<1>8. Safe(log', durable', dispatched, c) /\ At(log', phase.turn) /\ Open(log').turn = phase.turn
  BY <1>4, <1>5, <1>6, <1>7, TurnAppends
<1>9. CallsAreNew'
  <2>1. dispatched \subseteq 1..c
    BY <1>4, <1>5 DEF IInv, CallsAreNew
  <2>2. NeverStarted(log, dispatched, calls)
    <3>1. Sound(log, dispatched, calls)
      BY <1>1, InTurn, SafeIsSound
    <3> QED BY <3>1 DEF Sound
  <2>3. ASSUME NEW i \in DOMAIN todo', NEW j \in DOMAIN log', log'[j].reason = "not-started"
        PROVE  log'[j].call # todo'[i]
    <3>1. Grown(log, e, log', Len(log))
      BY <1>4, <1>e, <1>7, AppendGrows
    <3>2. j \in DOMAIN log /\ log'[j] = log[j]
      BY <1>6, <2>3, <3>1 DEF Grown
    <3>3. log[j].call \in 1..calls
      BY <2>2, <2>3, <3>2 DEF NeverStarted
    <3>4. todo'[i] > calls
      BY <1>2, <1>5
    <3> QED BY <1>4, <3>2, <3>3, <3>4
  <2>4. \A i \in DOMAIN todo' : todo'[i] \in 1..c
    BY <1>2, <1>5
  <2> QED BY <1>2, <1>3, <2>1, <2>3, <2>4 DEF CallsAreNew, HasTools, StreamAsksTools
<1>10. TurnAnswered'
  <2>1. Answers(log, phase.turn, {})
    BY <1>1 DEF IInv, TurnAnswered
  <2>2. Answers(log', phase.turn, ToSet(todo'))
    BY <1>2, <1>4, <1>6, <1>e, <1>7, <2>1, AnswersAppend
  <2> QED BY <2>2 DEF TurnAnswered, InTurnAt, HasTools, StreamAsksTools
<1> QED BY <1>1, <1>2, <1>3, <1>4, <1>5, <1>8, <1>9, <1>10, TurnGoesOn
        DEF StreamAsksTools, IInv, TypeOK

\* What the repair said of calls stays, whatever else is appended.
LEMMA SaidBefore ==
  ASSUME NEW l, l \in Seq(EventType), NEW e, e \in EventType, e.reason # "not-started",
         NEW j \in DOMAIN Append(l, e), Append(l, e)[j].reason = "not-started"
  PROVE  j \in DOMAIN l /\ Append(l, e)[j] = l[j]
<1>1. PICK m, n : m = Append(l, e) /\ n = Len(l)
  OBVIOUS
<1>2. Grown(l, e, m, n)
  BY <1>1, AppendGrows
<1> QED BY <1>1, <1>2 DEF Grown

\* Once tool/call is in the log, the call counts as recorded.
LEMMA RecordedAfterCall ==
  ASSUME NEW o, NEW t, NEW s, NEW ps, NEW e, o = OpenOf(t, s, ps), ps \in Seq(PendingType),
         e.kind = "tool/call", e \in EventType, e.call \in Ids
  PROVE  \A i \in DOMAIN ScanEvent(o, e).pending :
           ScanEvent(o, e).pending[i].id = e.call => ScanEvent(o, e).pending[i].recorded
<1>1. ScanCases(o, e, t, s, ps)
  BY ScanIs
<1>2. CASE Has(ps, e.call)
  <2>1. PICK q : q = Records(ps, e.call)
    OBVIOUS
  <2>2. ScanEvent(o, e).pending = q
    BY <1>1, <1>2, <2>1 DEF ScanCases, OpenOf
  <2>3. ASSUME NEW i \in DOMAIN q, q[i].id = e.call PROVE q[i].recorded
    <3>1. i \in DOMAIN ps
      BY <2>1 DEF Records
    <3>2. PICK p, r : p = ps[i] /\ r = [p EXCEPT !.recorded = TRUE]
      OBVIOUS
    <3>3. p \in PendingType
      BY <3>1, <3>2
    <3>4. r.recorded /\ r.id = p.id
      BY <3>2, <3>3 DEF PendingType
    <3>5. q[i] = IF p.id = e.call THEN r ELSE p
      BY <2>1, <3>1, <3>2 DEF Records
    <3> QED BY <2>3, <3>4, <3>5
  <2> QED BY <2>2, <2>3
<1>3. CASE ~Has(ps, e.call)
  <2>1. PICK p, q : p = Pending(e.call, e, TRUE) /\ q = Append(ps, p)
    OBVIOUS
  <2>2. ScanEvent(o, e).pending = q
    <3>1. ScanEvent(o, e) = OpenOf(t, s, q)
      BY <1>1, <1>3, <2>1 DEF ScanCases
    <3> QED BY <3>1 DEF OpenOf
  <2>3. p.recorded /\ p \in PendingType
    BY <2>1 DEF Pending, PendingType, EventType
  <2>4. ASSUME NEW i \in DOMAIN q, q[i].id = e.call PROVE q[i] = p
    <3>0. Grown(ps, p, q, Len(ps))
      BY <2>1, <2>3, AppendGrows
    <3>1. CASE i = Len(ps) + 1
      BY <3>0, <3>1 DEF Grown
    <3>2. CASE i # Len(ps) + 1
      <4>1. i \in DOMAIN ps /\ q[i] = ps[i]
        BY <2>4, <3>0, <3>2 DEF Grown
      <4> QED BY <1>3, <2>4, <4>1 DEF Has
    <3> QED BY <3>1, <3>2
  <2> QED BY <2>2, <2>3, <2>4
<1> QED BY <1>2, <1>3

LEMMA RecordKeeps == IInv /\ RecordCall => IInv'
<1> SUFFICES ASSUME IInv, RecordCall PROVE IInv'
  OBVIOUS
<1>1. InTurnAt /\ HasTools
  BY DEF RecordCall, InTurnAt, HasTools
<1>2. todo \in Seq(Ids) /\ todo # <<>> /\ UNCHANGED <<phase, todo, concluded, cancelled, dispatched, calls, crashes>>
  BY DEF RecordCall, IInv, TypeOK
<1>3. PICK id, e : id = Head(todo) /\ e = ToolCall(id)
  OBVIOUS
<1>4. id \in Ids /\ 1 \in DOMAIN todo /\ id = todo[1]
  BY <1>2, <1>3
<1>5. id \in 1..calls
  BY <1>1, <1>4 DEF IInv, CallsAreNew
<1>6. /\ log \in Seq(EventType) /\ phase \in BoundaryType /\ calls \in Nat
      /\ Safe(log, Len(log), dispatched, calls) /\ At(log, phase.turn)
      /\ Open(log).turn = phase.turn
  BY <1>1, InTurn
<1>7. /\ Plain(e, phase.turn, dispatched, calls) /\ ~Ended(e)
      /\ e.kind = "tool/call" /\ e.call = id /\ e.calls = <<>> /\ e.reason = "none"
  BY <1>3, <1>4, <1>5, <1>6, ToolEventsArePlain
<1>e. e \in EventType
  BY <1>7 DEF Plain
<1>8. log' = Append(log, e) /\ durable' = Len(log)
  BY <1>3, <1>6, <1>e, ConcatOne DEF RecordCall, Append2Log, Plus
<1>9. Safe(log', durable', dispatched, calls) /\ At(log', phase.turn) /\ Open(log').turn = phase.turn
  BY <1>6, <1>7, <1>8, TurnAppends
<1>10. CallsAreNew'
  <2>1. \A i \in DOMAIN todo, j \in DOMAIN log' :
          log'[j].reason = "not-started" => log'[j].call # todo[i]
    <3> SUFFICES ASSUME NEW i \in DOMAIN todo, NEW j \in DOMAIN log', log'[j].reason = "not-started"
                 PROVE  log'[j].call # todo[i]
      OBVIOUS
    <3>1. j \in DOMAIN log /\ log'[j] = log[j]
      BY <1>6, <1>7, <1>e, <1>8, SaidBefore
    <3> QED BY <1>1, <3>1 DEF IInv, CallsAreNew
  <2>2. \A i \in DOMAIN Open(log').pending :
          Open(log').pending[i].id = id => Open(log').pending[i].recorded
    <3>1. PICK o, b : o = Open(log) /\ b = Boundary(log)
      OBVIOUS
    <3>2. OpenOK(o, b, dispatched, calls) /\ b \in Nat
      BY <1>6, <3>1, SafeIsSound DEF Sound, Boundary, BoundaryType
    <3>3. PICK t, s, ps, T : t = o.turn /\ s = o.step /\ ps = o.pending /\ T = Askable(b, dispatched, calls)
      OBVIOUS
    <3>4. o = OpenOf(t, s, ps) /\ Parts(t, s, ps, b, dispatched, calls)
      BY <3>2, <3>3, OpenParts
    <3>5. ps \in Seq(T)
      BY <3>3, <3>4 DEF Parts
    <3>6. \A x \in T : x \in PendingType
      BY <3>3 DEF Askable
    <3>7. ps \in Seq(PendingType)
      <4>1. PICK k \in Nat : DOMAIN ps = 1..k /\ ps = [i \in 1..k |-> ps[i]] /\ \A i \in 1..k : ps[i] \in T
        BY <3>5
      <4> QED BY <3>6, <4>1
    <3>8. Open(log') = ScanEvent(o, e)
      BY <1>6, <1>e, <1>8, <3>1, OpenAppends
    <3> QED BY <1>4, <1>7, <1>e, <3>4, <3>7, <3>8, RecordedAfterCall
  <2>3. HasTools' /\ pc' = "recorded"
    BY DEF RecordCall, HasTools
  <2> QED BY <1>1, <1>2, <1>3, <2>1, <2>2, <2>3 DEF CallsAreNew, IInv
<1>11. TurnAnswered'
  <2>1. Answers(log, phase.turn, ToSet(todo))
    BY <1>1 DEF IInv, TurnAnswered
  <2>2. Answers(log', phase.turn, ToSet(todo))
    BY <1>6, <1>7, <1>e, <1>8, <2>1, AnswersQuiet
  <2> QED BY <1>2, <2>2 DEF TurnAnswered, InTurnAt, HasTools, RecordCall
<1> QED BY <1>2, <1>6, <1>9, <1>10, <1>11, TurnGoesOn DEF RecordCall, IInv, TypeOK

LEMMA DispatchKeeps == IInv /\ Dispatch => IInv'
<1> SUFFICES ASSUME IInv, Dispatch PROVE IInv'
  OBVIOUS
<1>1. InTurnAt /\ HasTools /\ pc = "recorded"
  BY DEF Dispatch, InTurnAt, HasTools
<1>2. /\ todo \in Seq(Ids) /\ todo # <<>> /\ durable' = Len(log) /\ pc' = "running"
      /\ UNCHANGED <<log, phase, todo, concluded, cancelled, calls, crashes>>
  BY <1>1 DEF Dispatch, IInv, TypeOK, CallsAreNew
<1>3. PICK id : id = Head(todo)
  OBVIOUS
<1>4. id \in Ids /\ 1 \in DOMAIN todo /\ id = todo[1] /\ dispatched' = dispatched \cup {id}
  BY <1>2, <1>3 DEF Dispatch
<1>5. /\ id \in 1..calls
      /\ \A j \in DOMAIN log : log[j].reason = "not-started" => log[j].call # id
      /\ \A i \in DOMAIN Open(log).pending :
           Open(log).pending[i].id = id => Open(log).pending[i].recorded
  BY <1>1, <1>3, <1>4 DEF IInv, CallsAreNew
<1>6. /\ log \in Seq(EventType) /\ phase \in BoundaryType /\ calls \in Nat
      /\ Safe(log, Len(log), dispatched, calls) /\ At(log, phase.turn)
      /\ Open(log).turn = phase.turn
  BY <1>1, InTurn
<1>7. Safe(log', durable', dispatched', calls')
  <2>1. Sound(log, dispatched, calls)
    BY <1>6, SafeIsSound
  <2>2. Sound(log, dispatched \cup {id}, calls)
    BY <1>5, <1>6, <2>1, SoundDispatched
  <2> QED BY <1>2, <1>4, <2>2, SafeNow
<1>8. CallsAreNew'
  <2>1. HasTools'
    BY <1>2 DEF HasTools
  <2> QED BY <1>1, <1>2, <1>4, <1>5, <2>1 DEF CallsAreNew, IInv
<1>9. TurnAnswered'
  BY <1>1, <1>2 DEF TurnAnswered, InTurnAt, HasTools, IInv
<1> QED BY <1>2, <1>4, <1>6, <1>7, <1>8, <1>9, TurnGoesOn DEF IInv, TypeOK

LEMMA ReturnKeeps == IInv /\ ToolReturns => IInv'
<1> SUFFICES ASSUME IInv, ToolReturns PROVE IInv'
  OBVIOUS
<1>1. InTurnAt /\ HasTools
  BY DEF ToolReturns, InTurnAt, HasTools
<1>2. /\ todo \in Seq(Ids) /\ todo # <<>> /\ todo' = Tail(todo) /\ pc' = "tools"
      /\ UNCHANGED <<phase, cancelled, dispatched, calls, crashes>>
      /\ concluded' \in BOOLEAN /\ Append2Log(<<ToolResult(Head(todo))>>)
  BY DEF ToolReturns, IInv, TypeOK, CallsAreNew
<1>3. PICK id, e : id = Head(todo) /\ e = ToolResult(id)
  OBVIOUS
<1>4. /\ id \in Ids /\ 1 \in DOMAIN todo /\ id = todo[1]
      /\ todo' \in Seq(Ids) /\ \A i \in DOMAIN todo' : i + 1 \in DOMAIN todo /\ todo'[i] = todo[i + 1]
      /\ \A i \in DOMAIN todo : i # 1 => i - 1 \in DOMAIN todo' /\ todo'[i - 1] = todo[i]
  BY <1>2, <1>3
<1>5. id \in 1..calls
  BY <1>1, <1>4 DEF IInv, CallsAreNew
<1>6. /\ log \in Seq(EventType) /\ phase \in BoundaryType /\ calls \in Nat
      /\ Safe(log, Len(log), dispatched, calls) /\ At(log, phase.turn)
      /\ Open(log).turn = phase.turn
  BY <1>1, InTurn
<1>7. /\ Plain(e, phase.turn, dispatched, calls) /\ ~Ended(e) /\ ~NeedsTurn(e)
      /\ e.kind = "tool/result" /\ e.call = id /\ e.calls = <<>> /\ e.reason = "none"
  BY <1>3, <1>4, <1>5, <1>6, ToolEventsArePlain
<1>e. e \in EventType
  BY <1>7 DEF Plain
<1>8. log' = Append(log, e) /\ durable' = Len(log)
  BY <1>2, <1>3, <1>6, <1>e, ConcatOne DEF Append2Log, Plus
<1>9. Safe(log', durable', dispatched, calls) /\ At(log', phase.turn) /\ Open(log').turn = phase.turn
  BY <1>6, <1>7, <1>8, TurnAppends
<1>10. CallsAreNew'
  <2>1. ASSUME NEW i \in DOMAIN todo'
        PROVE  /\ todo'[i] \in 1..calls
               /\ \A j \in DOMAIN log' : log'[j].reason = "not-started" => log'[j].call # todo'[i]
    <3>1. i + 1 \in DOMAIN todo /\ todo'[i] = todo[i + 1]
      BY <1>4
    <3>2. ASSUME NEW j \in DOMAIN log', log'[j].reason = "not-started"
          PROVE  j \in DOMAIN log /\ log'[j] = log[j]
      BY <1>6, <1>7, <1>e, <1>8, <3>2, SaidBefore
    <3> QED BY <1>1, <3>1, <3>2 DEF IInv, CallsAreNew
  <2> QED BY <1>2, <2>1 DEF CallsAreNew, IInv
<1>11. TurnAnswered'
  <2>1. Answers(log, phase.turn, ToSet(todo))
    BY <1>1 DEF IInv, TurnAnswered
  <2>2. \A k \in ToSet(todo) : k \in ToSet(todo') \/ (e.kind = "tool/result" /\ e.call = k)
    <3> SUFFICES ASSUME NEW i \in DOMAIN todo, todo[i] # id PROVE todo[i] \in ToSet(todo')
      BY <1>7 DEF ToSet
    <3>1. i - 1 \in DOMAIN todo' /\ todo'[i - 1] = todo[i]
      BY <1>4
    <3> QED BY <3>1 DEF ToSet
  <2>3. \A k \in ToSet(e.calls) : k \in ToSet(todo')
    BY <1>7 DEF ToSet
  <2>4. Answers(log', phase.turn, ToSet(todo'))
    BY <1>6, <1>e, <1>8, <2>1, <2>2, <2>3, AnswersAppend
  <2> QED BY <1>2, <2>4 DEF TurnAnswered, InTurnAt, HasTools
<1> QED BY <1>2, <1>4, <1>6, <1>9, <1>10, <1>11, TurnGoesOn DEF IInv, TypeOK

\* The process is gone: what the log holds is all that matters.
LEMMA AllIsGone ==
  ASSUME IInv, Safe(log', durable', dispatched', calls'), pc' = "down",
         UNCHANGED <<phase, todo, concluded, cancelled, dispatched, calls>>,
         crashes' \in 0..MaxCrashes
  PROVE  IInv'
<1>1. TypeOK'
  <2>1. log' \in Seq(EventType) /\ durable' \in 0..Len(log')
    BY DEF Safe
  <2> QED BY <2>1 DEF IInv, TypeOK
<1> QED BY <1>1 DEF IInv, SafeLog, TurnIsOpen, InTurnAt, CountsAhead, CallsAreNew, HasTools, TurnAnswered

LEMMA ErrKeeps == IInv /\ ToolErrs => IInv'
<1> SUFFICES ASSUME IInv, ToolErrs PROVE IInv'
  OBVIOUS
<1>1. InTurnAt /\ HasTools
  BY DEF ToolErrs, InTurnAt, HasTools
<1>2. /\ todo \in Seq(Ids) /\ todo # <<>> /\ pc' = "down"
      /\ UNCHANGED <<phase, todo, concluded, cancelled, dispatched, calls, crashes>>
      /\ Append2Log(<<ToolResult(Head(todo))>>)
  BY DEF ToolErrs, IInv, TypeOK, CallsAreNew
<1>3. PICK id, e : id = Head(todo) /\ e = ToolResult(id)
  OBVIOUS
<1>4. id \in Ids /\ 1 \in DOMAIN todo /\ id = todo[1]
  BY <1>2, <1>3
<1>5. id \in 1..calls
  BY <1>1, <1>4 DEF IInv, CallsAreNew
<1>6. /\ log \in Seq(EventType) /\ phase \in BoundaryType /\ calls \in Nat
      /\ Safe(log, Len(log), dispatched, calls) /\ At(log, phase.turn)
      /\ Open(log).turn = phase.turn
  BY <1>1, InTurn
<1>7. Plain(e, phase.turn, dispatched, calls) /\ ~NeedsTurn(e)
  BY <1>3, <1>4, <1>5, <1>6, ToolEventsArePlain
<1>e. e \in EventType
  BY <1>7 DEF Plain
<1>8. log' = Append(log, e) /\ durable' = Len(log)
  BY <1>2, <1>3, <1>6, <1>e, ConcatOne DEF Append2Log, Plus
<1>9. Safe(log', durable', dispatched, calls)
  BY <1>6, <1>7, <1>8, TurnAppends
<1> QED BY <1>2, <1>9, AllIsGone DEF IInv, TypeOK

LEMMA DoneKeeps == IInv /\ ToolsDone => IInv'
<1> SUFFICES ASSUME IInv, ToolsDone PROVE IInv'
  OBVIOUS
<1>1. InTurnAt /\ HasTools
  BY DEF ToolsDone, InTurnAt, HasTools
<1>2. todo = <<>> /\ UNCHANGED <<phase, todo, concluded, cancelled, dispatched, calls, crashes>>
  BY DEF ToolsDone
<1>3. PICK f, g : f = Event("step/end") /\ g = TurnEnd("completed")
  OBVIOUS
<1>4. /\ Plain(f, phase.turn, dispatched, calls) /\ ~Ended(f) /\ ~NeedsTurn(f) /\ f.calls = <<>>
      /\ Plain(g, phase.turn, dispatched, calls)
  BY <1>1, <1>3, InTurn, PlainEvents
<1>e. f \in EventType /\ g \in EventType
  BY <1>4 DEF Plain
<1>5. /\ log \in Seq(EventType) /\ phase \in BoundaryType /\ calls \in Nat
      /\ Safe(log, Len(log), dispatched, calls) /\ At(log, phase.turn)
      /\ Open(log).turn = phase.turn
  BY <1>1, InTurn
<1>6. CASE concluded
  <2>1. Append2Log(<<f>> \o <<g>>) /\ pc' = "idle"
    BY <1>3, <1>6 DEF ToolsDone, TurnEnds, StepEnds
  <2>2. log' = After2(log, f, g) /\ durable' = Len(log)
    BY <1>5, <1>e, <2>1, ConcatTwo DEF Append2Log, Plus
  <2>3. Safe(log', durable', dispatched, calls) /\ At(log', phase.turn) /\ Open(log') = NothingOpen
    BY <1>3, <1>5, <2>2, TurnCloses
  <2> QED BY <1>2, <1>5, <2>1, <2>3, TurnIsOver DEF IInv, TypeOK
<1>7. CASE ~concluded
  <2>1. Append2Log(<<f>>) /\ pc' = "loop"
    BY <1>3, <1>7 DEF ToolsDone, StepEnds
  <2>2. log' = Append(log, f) /\ durable' = Len(log)
    BY <1>5, <1>e, <2>1, ConcatOne DEF Append2Log, Plus
  <2>3. Safe(log', durable', dispatched, calls) /\ At(log', phase.turn) /\ Open(log').turn = phase.turn
    BY <1>4, <1>5, <2>2, TurnAppends
  <2>4. CallsAreNew'
    BY <1>2, <2>1 DEF CallsAreNew, HasTools, IInv
  <2>5. TurnAnswered'
    <3>1. Answers(log, phase.turn, ToSet(todo)) /\ ToSet(todo) = {}
      BY <1>1, <1>2 DEF IInv, TurnAnswered, ToSet
    <3>2. Answers(log', phase.turn, {})
      BY <1>4, <1>5, <1>e, <2>2, <3>1, AnswersQuiet
    <3> QED BY <1>2, <2>1, <3>2 DEF TurnAnswered, InTurnAt, HasTools
  <2> QED BY <1>2, <1>5, <2>1, <2>3, <2>4, <2>5, TurnGoesOn DEF IInv, TypeOK
<1> QED BY <1>6, <1>7

LEMMA CancelKeeps == IInv /\ Cancel => IInv'
BY DEF IInv, Cancel, TypeOK, SafeLog, TurnIsOpen, InTurnAt, CountsAhead, CallsAreNew, HasTools, TurnAnswered

LEMMA CrashKeeps == IInv /\ Crash => IInv'
<1> SUFFICES ASSUME IInv, Crash PROVE IInv'
  OBVIOUS
<1>1. PICK n \in durable..Len(log) : log' = SubSeq(log, 1, n) /\ durable' = n
  BY DEF Crash
<1>2. log \in Seq(EventType) /\ durable \in 0..Len(log)
  BY DEF IInv, TypeOK
<1>3. Sound(log', dispatched, calls)
  BY <1>1 DEF IInv, SafeLog, Safe
<1>4. Len(log') = n
  BY <1>1, <1>2
<1>5. Safe(log', durable', dispatched, calls)
  BY <1>1, <1>3, <1>4, SafeNow
<1>6. crashes' \in 0..MaxCrashes
  BY AgentAssumption DEF Crash, IInv, TypeOK
<1> QED BY <1>5, <1>6, AllIsGone DEF Crash

LEMMA FitAppends ==
  ASSUME NEW l, NEW from, NEW d, NEW c \in Nat, NEW e, Safe(l, from, d, c), LogFits(l, e, d, c)
  PROVE  Safe(Append(l, e), from, d, c)
<1>1. Sound(l, d, c) /\ e \in EventType
  BY SafeIsSound DEF LogFits
<1>2. Sound(Append(l, e), d, c)
  BY <1>1, SoundAppend
<1> QED BY <1>1, <1>2, SafeAppend

LEMMA PromptKeeps == IInv /\ Prompt => IInv'
<1> SUFFICES ASSUME IInv, Prompt PROVE IInv'
  OBVIOUS
<1>1. /\ pc = "idle" /\ pc' = "message" /\ phase' = [turn |-> phase.turn + 1, step |-> 0]
      /\ cancelled' = FALSE
      /\ UNCHANGED <<todo, concluded, dispatched, calls, crashes>>
  BY DEF Prompt
<1>2. Sound(log, dispatched, calls) /\ calls \in Nat /\ phase \in BoundaryType
  BY SafeIsSound, AgentAssumption DEF IInv, SafeLog, TypeOK, BoundaryType
<1>3. /\ log \in Seq(EventType) /\ Open(log) = NothingOpen
      /\ phase.turn <= Boundary(log) /\ TurnsUpto(log, phase.turn) /\ Boundary(log) \in Nat
  BY <1>1, <1>2 DEF Sound, IInv, TurnIsOpen, CountsAhead, Boundary, BoundaryType
<1>4. PICK t, e : t = phase.turn + 1 /\ e = [Event("turn/start") EXCEPT !.turn = t, !.step = 0]
  OBVIOUS
<1>5. t \in Nat /\ t > 0 /\ t = phase'.turn /\ phase' \in BoundaryType
  BY <1>1, <1>2, <1>4 DEF BoundaryType
<1>6. /\ e \in EventType /\ e.kind = "turn/start" /\ e.turn = t /\ e.step = 0
      /\ e.calls = <<>> /\ e.reason = "none" /\ e.form = "none"
  <2>1. PICK g, g1, g2 : /\ g = Event("turn/start")
                         /\ g1 = [g EXCEPT !.turn = t] /\ g2 = [g1 EXCEPT !.step = 0]
    OBVIOUS
  <2>2. /\ g \in EventType /\ g.kind = "turn/start" /\ g.calls = <<>>
        /\ g.reason = "none" /\ g.form = "none"
    BY <1>2, <2>1, EventIs DEF Kinds
  <2>3. /\ g1 \in EventType /\ g1.kind = "turn/start" /\ g1.turn = t /\ g1.calls = <<>>
        /\ g1.reason = "none" /\ g1.form = "none"
    BY <1>5, <2>1, <2>2 DEF EventType
  <2>4. /\ g2 \in EventType /\ g2.kind = "turn/start" /\ g2.turn = t /\ g2.step = 0
        /\ g2.calls = <<>> /\ g2.reason = "none" /\ g2.form = "none"
    BY <2>1, <2>3 DEF EventType
  <2>5. e = g2
    <3>1. [g EXCEPT !.turn = t, !.step = 0] = [[g EXCEPT !.turn = t] EXCEPT !.step = 0]
      BY <2>2 DEF EventType
    <3> QED BY <1>4, <2>1, <3>1
  <2> QED BY <2>4, <2>5
<1>7. log' = Append(log, e) /\ durable' = Len(log)
  <2>1. Append2Log(<<e>>)
    BY <1>4 DEF Prompt
  <2> QED BY <1>3, <1>6, <2>1, ConcatOne DEF Append2Log, Plus
<1>8. LogFits(log, e, dispatched, calls)
  <2>1. \A i \in DOMAIN log : log[i].turn < t
    BY <1>2, <1>3, <1>4 DEF TurnsUpto, BoundaryType
  <2>2. t \in 1..(Boundary(log) + 1)
    BY <1>2, <1>3, <1>4 DEF BoundaryType
  <2> QED BY <1>3, <1>6, <2>1, <2>2 DEF LogFits, Started, Ended
<1>9. Safe(log', durable', dispatched, calls)
  BY <1>2, <1>7, <1>8, SafeNow, FitAppends
<1>10. Sound(log', dispatched, calls)
  BY <1>9, SafeIsSound
<1>11. Boundary(log') = t
  <2>1. turnBoundaryFrom(log') = BoundaryEvent(turnBoundaryFrom(log), e)
    BY <1>3, <1>6, <1>7, BoundaryAppends
  <2> QED BY <1>2, <1>6, <2>1, BoundaryIs DEF Boundary, Sound, Started
<1>12. Open(log').turn = t
  <2>1. NothingOpen = OpenOf(0, 0, <<>>)
    BY DEF NothingOpen, OpenOf
  <2>2. ScanCases(NothingOpen, e, 0, 0, <<>>)
    BY <2>1, ScanIs
  <2>3. Open(log') = ScanEvent(NothingOpen, e)
    BY <1>3, <1>6, <1>7, OpenAppends
  <2> QED BY <1>6, <2>2, <2>3 DEF ScanCases, OpenOf
<1>13. TypeOK'
  <2>1. log' \in Seq(EventType) /\ durable' \in 0..Len(log')
    BY <1>9 DEF Safe
  <2> QED BY <1>1, <1>5, <2>1 DEF IInv, TypeOK, BoundaryType
<1>14. SafeLog'
  BY <1>1, <1>9 DEF SafeLog
<1>15. TurnIsOpen' /\ CountsAhead'
  BY <1>1, <1>5, <1>10, <1>11, <1>12 DEF TurnIsOpen, InTurnAt, CountsAhead, Sound
<1>16. CallsAreNew'
  BY <1>1 DEF CallsAreNew, HasTools, IInv
<1>17. TurnAnswered'
  <2>1. Answers(log, t, {})
    BY <1>2, <1>3, <1>4 DEF Answers, TurnsUpto, BoundaryType
  <2>2. Answers(log', t, {})
    BY <1>3, <1>6, <1>7, <2>1, AnswersQuiet
  <2> QED BY <1>1, <1>5, <2>2 DEF TurnAnswered, InTurnAt, HasTools
<1> QED BY <1>13, <1>14, <1>15, <1>16, <1>17 DEF IInv

-----------------------------------------------------------------------------
(* Resume: the repair's events one by one.                                 *)

\* What the repair writes for a call without a result.
Closes(e, b, d, c) ==
  /\ e \in EventType /\ e.kind = "tool/result" /\ e.form = "tool-result" /\ e.turn \in 1..b
  /\ e.reason # "interrupted"
  /\ e.reason = "not-started" => e.call \in 1..c /\ e.call \notin d

LEMMA CloserAppends ==
  ASSUME NEW l, NEW from, NEW d, NEW c \in Nat, NEW e, NEW b,
         Safe(l, from, d, c), Open(l).turn > 0, Boundary(l) = b, Closes(e, b, d, c)
  PROVE  /\ Safe(Append(l, e), from, d, c)
         /\ Open(Append(l, e)).turn = Open(l).turn
         /\ Boundary(Append(l, e)) = b
<1>1. Sound(l, d, c)
  BY SafeIsSound
<1>2. l \in Seq(EventType) /\ e \in EventType /\ ~Started(e) /\ ~Ended(e)
  BY <1>1 DEF Sound, Closes, Started, Ended
<1>3. LogFits(l, e, d, c)
  BY <1>2 DEF LogFits, Closes, Started, Ended
<1>4. Safe(Append(l, e), from, d, c)
  BY <1>3, FitAppends
<1>5. Boundary(Append(l, e)) = b
  <2>1. turnBoundaryFrom(Append(l, e)) = BoundaryEvent(turnBoundaryFrom(l), e)
    BY <1>2, BoundaryAppends
  <2> QED BY <1>1, <1>2, <2>1, BoundaryIs DEF Boundary, Sound
<1>6. Open(Append(l, e)).turn = Open(l).turn
  <2>1. PICK o : o = Open(l)
    OBVIOUS
  <2>2. OpenOK(o, b, d, c) /\ b \in Nat
    BY <1>1, <2>1 DEF Sound, Boundary, BoundaryType
  <2>3. PICK t, s, ps : t = o.turn /\ s = o.step /\ ps = o.pending
    OBVIOUS
  <2>4. o = OpenOf(t, s, ps)
    BY <2>2, <2>3, OpenParts
  <2>5. ScanCases(o, e, t, s, ps) /\ Open(Append(l, e)) = ScanEvent(o, e)
    BY <1>2, <2>1, <2>4, ScanIs, OpenAppends
  <2>6. ScanEvent(o, e) = OpenOf(t, s, Without(ps, e.call))
    BY <2>5 DEF ScanCases, Closes
  <2> QED BY <2>1, <2>3, <2>5, <2>6 DEF OpenOf
<1> QED BY <1>4, <1>5, <1>6

LEMMA ClosersAppend ==
  ASSUME NEW l, NEW from, NEW d, NEW c \in Nat, NEW b, NEW rs \in Seq(EventType),
         Safe(l, from, d, c), Open(l).turn > 0, Boundary(l) = b,
         \A i \in DOMAIN rs : Closes(rs[i], b, d, c)
  PROVE  /\ Safe(Plus(l, rs), from, d, c)
         /\ Open(Plus(l, rs)).turn = Open(l).turn
         /\ Boundary(Plus(l, rs)) = b
<1> DEFINE m(k) == Plus(l, SubSeq(rs, 1, k))
           In(x) == /\ Safe(x, from, d, c)
                    /\ Open(x).turn = Open(l).turn
                    /\ Boundary(x) = b
           Good == {k \in Nat : k <= Len(rs) => In(m(k))}
<1>1. l \in Seq(EventType) /\ Len(rs) \in Nat
  BY DEF Safe
<1>2. m(0) = l
  BY <1>1 DEF Plus
<1>3. ASSUME NEW k \in Nat, k + 1 <= Len(rs) PROVE m(k + 1) = Append(m(k), rs[k + 1])
  <2>1. SubSeq(rs, 1, k + 1) = Append(SubSeq(rs, 1, k), rs[k + 1])
    BY <1>3
  <2>2. SubSeq(rs, 1, k) \in Seq(EventType) /\ rs[k + 1] \in EventType
    BY <1>3
  <2>3. \A x \in Seq(EventType), e \in EventType : l \o Append(x, e) = Append(l \o x, e)
    BY <1>1
  <2> QED BY <2>1, <2>2, <2>3 DEF Plus
<1>4. m(Len(rs)) = Plus(l, rs)
  BY WholeIs
<1> HIDE DEF m, In
<1>5. 0 \in Good
  BY <1>2 DEF In
<1>6. ASSUME NEW k \in Nat, k \in Good PROVE k + 1 \in Good
  <2>1. SUFFICES ASSUME k + 1 <= Len(rs) PROVE In(m(k + 1))
    OBVIOUS
  <2>2. In(m(k)) /\ k + 1 \in DOMAIN rs
    BY <1>1, <1>6, <2>1
  <2>3. PICK e, x : e = rs[k + 1] /\ x = m(k)
    OBVIOUS
  <2>4. Closes(e, b, d, c) /\ In(x)
    BY <2>2, <2>3
  <2>5. In(Append(x, e))
    BY <2>4, CloserAppends DEF In
  <2> QED BY <1>3, <2>1, <2>3, <2>5
<1> HIDE DEF Good
<1>7. Len(rs) \in Good
  BY <1>1, <1>5, <1>6, NaturalsIn
<1>8. In(Plus(l, rs))
  BY <1>1, <1>4, <1>7 DEF Good
<1> QED BY <1>8 DEF In

\* The events of the repair, written out.
Repair(kind, turn, step, call, form, reason) ==
  [kind |-> kind, turn |-> turn, step |-> step, calls |-> <<>>, call |-> call,
   form |-> form, reason |-> reason]

ResultOf(p) ==
  Repair("tool/result", p.turn, p.step, p.id, "tool-result",
         IF p.recorded THEN "outcome-unknown" ELSE "not-started")

LEMMA ResultCloses ==
  ASSUME NEW p, NEW b \in Nat, NEW d, NEW c, p \in Askable(b, d, c)
  PROVE  Closes(ResultOf(p), b, d, c)
<1>1. /\ p.turn \in Nat /\ p.turn \in 1..b /\ p.step \in Nat /\ p.id \in Ids /\ p.id \in 1..c
      /\ (p.id \in d => p.recorded)
  BY DEF Askable, PendingType
<1>2. PICK reason : reason = IF p.recorded THEN "outcome-unknown" ELSE "not-started"
  OBVIOUS
<1>3. reason \in {"outcome-unknown", "not-started"} /\ (reason = "not-started" => ~p.recorded)
  BY <1>2
<1>4. PICK e : e = Repair("tool/result", p.turn, p.step, p.id, "tool-result", reason)
  OBVIOUS
<1>5. /\ e \in EventType /\ e.kind = "tool/result" /\ e.form = "tool-result"
      /\ e.turn = p.turn /\ e.call = p.id /\ e.reason = reason
  BY <1>1, <1>3, <1>4 DEF Repair, EventType
<1>6. Closes(e, b, d, c)
  BY <1>1, <1>3, <1>5 DEF Closes
<1> QED BY <1>2, <1>4, <1>6 DEF ResultOf

LEMMA EventIsRepair ==
  ASSUME NEW kind
  PROVE  Event(kind) = Repair(kind, phase.turn, phase.step, 0, "none", "none")
BY DEF Event, Repair

LEMMA RepairIs ==
  ASSUME NEW turn, NEW step
  PROVE  /\ \A p : [Event("tool/result") EXCEPT
                      !.turn = p.turn, !.step = p.step, !.call = p.id, !.form = "tool-result",
                      !.reason = IF p.recorded THEN "outcome-unknown" ELSE "not-started"]
                   = ResultOf(p)
         /\ [Event("step/end") EXCEPT !.turn = turn, !.step = step]
            = Repair("step/end", turn, step, 0, "none", "none")
         /\ [[Event("turn/end") EXCEPT !.turn = turn, !.step = step]
               EXCEPT !.step = 0, !.reason = "interrupted"]
            = Repair("turn/end", turn, 0, 0, "none", "interrupted")
<1>1. ASSUME NEW r, NEW x1, NEW x2, NEW x3, NEW x4, NEW x5
      PROVE  [r EXCEPT !.turn = x1, !.step = x2, !.call = x3, !.form = x4, !.reason = x5]
             = [[[[[r EXCEPT !.turn = x1] EXCEPT !.step = x2] EXCEPT !.call = x3]
                   EXCEPT !.form = x4] EXCEPT !.reason = x5]
  OBVIOUS
<1>2. ASSUME NEW r, NEW x1, NEW x2
      PROVE  /\ [r EXCEPT !.turn = x1, !.step = x2] = [[r EXCEPT !.turn = x1] EXCEPT !.step = x2]
             /\ [r EXCEPT !.step = x1, !.reason = x2] = [[r EXCEPT !.step = x1] EXCEPT !.reason = x2]
  OBVIOUS
<1>3. ASSUME NEW p
      PROVE [Event("tool/result") EXCEPT
                      !.turn = p.turn, !.step = p.step, !.call = p.id, !.form = "tool-result",
                      !.reason = IF p.recorded THEN "outcome-unknown" ELSE "not-started"]
                   = ResultOf(p)
  <2>1. PICK re : re = IF p.recorded THEN "outcome-unknown" ELSE "not-started"
    OBVIOUS
  <2>2. PICK r, r1, r2, r3, r4, r5 :
          /\ r = Event("tool/result") /\ r1 = [r EXCEPT !.turn = p.turn]
          /\ r2 = [r1 EXCEPT !.step = p.step] /\ r3 = [r2 EXCEPT !.call = p.id]
          /\ r4 = [r3 EXCEPT !.form = "tool-result"] /\ r5 = [r4 EXCEPT !.reason = re]
    OBVIOUS
  <2>3. r = Repair("tool/result", phase.turn, phase.step, 0, "none", "none")
    BY <2>2, EventIsRepair
  <2>4. r1 = Repair("tool/result", p.turn, phase.step, 0, "none", "none")
    <3>1. r1 = [r EXCEPT !.turn = p.turn]
      BY <2>2
    <3> QED BY <2>3, <3>1 DEF Repair
  <2>5. r2 = Repair("tool/result", p.turn, p.step, 0, "none", "none")
    <3>1. r2 = [r1 EXCEPT !.step = p.step]
      BY <2>2
    <3> QED BY <2>4, <3>1 DEF Repair
  <2>6. r3 = Repair("tool/result", p.turn, p.step, p.id, "none", "none")
    <3>1. r3 = [r2 EXCEPT !.call = p.id]
      BY <2>2
    <3> QED BY <2>5, <3>1 DEF Repair
  <2>7. r4 = Repair("tool/result", p.turn, p.step, p.id, "tool-result", "none")
    <3>1. r4 = [r3 EXCEPT !.form = "tool-result"]
      BY <2>2
    <3> QED BY <2>6, <3>1 DEF Repair
  <2>8. r5 = Repair("tool/result", p.turn, p.step, p.id, "tool-result", re)
    <3>1. r5 = [r4 EXCEPT !.reason = re]
      BY <2>2
    <3> QED BY <2>7, <3>1 DEF Repair
  <2>9. [r EXCEPT !.turn = p.turn, !.step = p.step, !.call = p.id, !.form = "tool-result",
                  !.reason = re] = r5
    BY <1>1, <2>2
  <2> QED BY <2>1, <2>2, <2>8, <2>9 DEF ResultOf
<1>4. [Event("step/end") EXCEPT !.turn = turn, !.step = step]
            = Repair("step/end", turn, step, 0, "none", "none")
  <2>1. PICK r, r1, r2 : /\ r = Event("step/end") /\ r1 = [r EXCEPT !.turn = turn]
                         /\ r2 = [r1 EXCEPT !.step = step]
    OBVIOUS
  <2>2. r = Repair("step/end", phase.turn, phase.step, 0, "none", "none")
    BY <2>1, EventIsRepair
  <2>3. r1 = Repair("step/end", turn, phase.step, 0, "none", "none")
    <3>1. r1 = [r EXCEPT !.turn = turn]
      BY <2>1
    <3> QED BY <2>2, <3>1 DEF Repair
  <2>4. r2 = Repair("step/end", turn, step, 0, "none", "none")
    <3>1. r2 = [r1 EXCEPT !.step = step]
      BY <2>1
    <3> QED BY <2>3, <3>1 DEF Repair
  <2> QED BY <1>2, <2>1, <2>4
<1>5. [[Event("turn/end") EXCEPT !.turn = turn, !.step = step]
               EXCEPT !.step = 0, !.reason = "interrupted"]
            = Repair("turn/end", turn, 0, 0, "none", "interrupted")
  <2>1. PICK r, r1, r2, r3, r4 :
          /\ r = Event("turn/end") /\ r1 = [r EXCEPT !.turn = turn] /\ r2 = [r1 EXCEPT !.step = step]
          /\ r3 = [r2 EXCEPT !.step = 0] /\ r4 = [r3 EXCEPT !.reason = "interrupted"]
    OBVIOUS
  <2>2. r = Repair("turn/end", phase.turn, phase.step, 0, "none", "none")
    BY <2>1, EventIsRepair
  <2>3. r1 = Repair("turn/end", turn, phase.step, 0, "none", "none")
    <3>1. r1 = [r EXCEPT !.turn = turn]
      BY <2>1
    <3> QED BY <2>2, <3>1 DEF Repair
  <2>4. r2 = Repair("turn/end", turn, step, 0, "none", "none")
    <3>1. r2 = [r1 EXCEPT !.step = step]
      BY <2>1
    <3> QED BY <2>3, <3>1 DEF Repair
  <2>5. r3 = Repair("turn/end", turn, 0, 0, "none", "none")
    <3>1. r3 = [r2 EXCEPT !.step = 0]
      BY <2>1
    <3> QED BY <2>4, <3>1 DEF Repair
  <2>6. r4 = Repair("turn/end", turn, 0, 0, "none", "interrupted")
    <3>1. r4 = [r3 EXCEPT !.reason = "interrupted"]
      BY <2>1
    <3> QED BY <2>5, <3>1 DEF Repair
  <2> QED BY <1>2, <2>1, <2>6
<1> QED BY <1>3, <1>4, <1>5

\* The repair of what o has open, by its three parts.
IsRepair(closers, o) ==
  \E rs, x, y :
    /\ rs = [i \in DOMAIN o.pending |-> ResultOf(o.pending[i])]
    /\ x = IF o.step > 0 THEN <<Repair("step/end", o.turn, o.step, 0, "none", "none")>>
           ELSE <<>>
    /\ y = IF o.turn > 0 THEN <<Repair("turn/end", o.turn, 0, 0, "none", "interrupted")>>
           ELSE <<>>
    /\ closers = Plus(Plus(rs, x), y)

LEMMA ClosersAre ==
  ASSUME NEW l, NEW o, o = Open(l)
  PROVE  IsRepair(InterruptedTurnClosers(l), o)
<1>1. PICK rs, x, y :
        /\ rs = [i \in DOMAIN o.pending |-> ResultOf(o.pending[i])]
        /\ x = IF o.step > 0 THEN <<Repair("step/end", o.turn, o.step, 0, "none", "none")>>
               ELSE <<>>
        /\ y = IF o.turn > 0 THEN <<Repair("turn/end", o.turn, 0, 0, "none", "interrupted")>>
               ELSE <<>>
  OBVIOUS
<1>2. rs = [i \in DOMAIN o.pending |->
             [Event("tool/result") EXCEPT
                !.turn = o.pending[i].turn, !.step = o.pending[i].step, !.call = o.pending[i].id,
                !.form = "tool-result",
                !.reason = IF o.pending[i].recorded THEN "outcome-unknown" ELSE "not-started"]]
  <2>1. \A i \in DOMAIN o.pending :
          [Event("tool/result") EXCEPT
             !.turn = o.pending[i].turn, !.step = o.pending[i].step, !.call = o.pending[i].id,
             !.form = "tool-result",
             !.reason = IF o.pending[i].recorded THEN "outcome-unknown" ELSE "not-started"]
          = ResultOf(o.pending[i])
    BY RepairIs, Zenon
  <2> QED BY <1>1, <2>1, Zenon
<1>3. x = IF o.step > 0 THEN <<[Event("step/end") EXCEPT !.turn = o.turn, !.step = o.step]>>
          ELSE <<>>
  BY <1>1, RepairIs, Zenon
<1>4. y = IF o.turn > 0
          THEN <<[[Event("turn/end") EXCEPT !.turn = o.turn, !.step = o.step]
                    EXCEPT !.step = 0, !.reason = "interrupted"]>>
          ELSE <<>>
  BY <1>1, RepairIs, Zenon
<1>5. InterruptedTurnClosers(l) = Plus(Plus(rs, x), y)
  BY <1>2, <1>3, <1>4, Zenon DEF InterruptedTurnClosers, Plus
<1> QED BY <1>1, <1>5, Zenon DEF IsRepair

LEMMA PlusGroups ==
  ASSUME NEW l, NEW rs, NEW x, NEW y,
         l \in Seq(EventType), rs \in Seq(EventType), x \in Seq(EventType), y \in Seq(EventType)
  PROVE  Plus(l, Plus(Plus(rs, x), y)) = Plus(Plus(Plus(l, rs), x), y)
<1>1. ASSUME NEW p \in Seq(EventType), NEW q \in Seq(EventType), NEW r \in Seq(EventType)
      PROVE  Plus(p, q) \in Seq(EventType) /\ Plus(p, Plus(q, r)) = Plus(Plus(p, q), r)
  BY DEF Plus
<1>2. Plus(rs, x) \in Seq(EventType)
  BY <1>1
<1>3. Plus(l, Plus(Plus(rs, x), y)) = Plus(Plus(l, Plus(rs, x)), y)
  <2>1. PICK q : q = Plus(rs, x)
    OBVIOUS
  <2>2. q \in Seq(EventType)
    BY <1>2, <2>1
  <2>3. Plus(l, Plus(q, y)) = Plus(Plus(l, q), y)
    BY <1>1, <2>2
  <2> QED BY <2>1, <2>3
<1>4. Plus(l, Plus(rs, x)) = Plus(Plus(l, rs), x)
  BY <1>1, ZenonT(60)
<1> QED BY <1>3, <1>4, Zenon

\* What the repair leaves: nothing open, and a log as sound as before.
LEMMA RepairCloses ==
  ASSUME NEW l, NEW d, NEW c \in Nat, Sound(l, d, c),
         NEW m, m = l \o InterruptedTurnClosers(l)
  PROVE  Safe(m, Len(l), d, c) /\ Open(m) = NothingOpen
<1>1. PICK o, b, from : o = Open(l) /\ b = Boundary(l) /\ from = Len(l)
  OBVIOUS
<1>2. /\ l \in Seq(EventType) /\ OpenOK(o, b, d, c) /\ b \in Nat
      /\ Safe(l, from, d, c)
  BY <1>1, SafeNow DEF Sound, Boundary, BoundaryType
<1>3. PICK t, s, ps : t = o.turn /\ s = o.step /\ ps = o.pending
  OBVIOUS
<1>4. o = OpenOf(t, s, ps) /\ Parts(t, s, ps, b, d, c)
  BY <1>2, <1>3, OpenParts
<1>5. PICK rs, x, y :
        /\ rs = [i \in DOMAIN o.pending |-> ResultOf(o.pending[i])]
        /\ x = IF o.step > 0 THEN <<Repair("step/end", o.turn, o.step, 0, "none", "none")>>
               ELSE <<>>
        /\ y = IF o.turn > 0 THEN <<Repair("turn/end", o.turn, 0, 0, "none", "interrupted")>>
               ELSE <<>>
        /\ InterruptedTurnClosers(l) = Plus(Plus(rs, x), y)
  <2>1. IsRepair(InterruptedTurnClosers(l), o)
    BY <1>1, ClosersAre
  <2> QED BY <2>1 DEF IsRepair
<1>6. CASE t = 0
  <2>1. s = 0 /\ ps = <<>> /\ o = NothingOpen
    BY <1>1, <1>2, <1>3, <1>4, <1>6 DEF Parts, OpenOK
  <2>2. rs = <<>> /\ x = <<>> /\ y = <<>>
    <3>1. DOMAIN o.pending = {}
      BY <1>3, <2>1
    <3>2. rs = [i \in {} |-> ResultOf(o.pending[i])]
      BY <1>5, <3>1
    <3>3. rs = <<>>
      BY <3>2
    <3> QED BY <1>3, <1>5, <1>6, <2>1, <3>3
  <2>3. m = l
    <3>1. (<<>> \o <<>>) \o <<>> = <<>> /\ l \o <<>> = l
      BY <1>2
    <3>2. m = l \o ((<<>> \o <<>>) \o <<>>)
      BY <1>5, <2>2, Zenon DEF Plus
    <3> QED BY <3>1, <3>2, Zenon
  <2> QED BY <1>1, <1>2, <2>1, <2>3
<1>7. CASE t # 0
  <2>1. t \in 1..b /\ s \in Nat
    BY <1>4, <1>7 DEF Parts
  <2>2. PICK T : T = Askable(b, d, c)
    OBVIOUS
  <2>3. PICK k \in Nat : DOMAIN ps = 1..k /\ \A i \in 1..k : ps[i] \in T
    <3>1. ps \in Seq(T)
      BY <1>4, <2>2 DEF Parts
    <3> QED BY <3>1
  <2>4. \A i \in 1..k : Closes(ResultOf(ps[i]), b, d, c)
    BY <1>2, <2>2, <2>3, ResultCloses
  <2>5. rs = [i \in 1..k |-> ResultOf(ps[i])]
    BY <1>3, <1>5, <2>3
  <2>6. rs \in Seq(EventType) /\ \A i \in DOMAIN rs : Closes(rs[i], b, d, c)
    <3>1. \A i \in 1..k : ResultOf(ps[i]) \in EventType
      BY <2>4 DEF Closes
    <3> QED BY <2>4, <2>5, <3>1
  <2>7. PICK p : p = Plus(l, rs)
    OBVIOUS
  <2>8. Safe(p, from, d, c) /\ Open(p).turn = t /\ Boundary(p) = b
    BY <1>1, <1>2, <1>3, <2>1, <2>6, <2>7, ClosersAppend
  <2>9. PICK e, f : /\ e = Repair("step/end", t, s, 0, "none", "none")
                    /\ f = Repair("turn/end", t, 0, 0, "none", "interrupted")
    OBVIOUS
  <2>10. /\ e \in EventType /\ e.kind = "step/end" /\ e.turn = t /\ e.reason = "none" /\ e.form = "none"
         /\ f \in EventType /\ f.kind = "turn/end" /\ f.turn = t /\ f.reason = "interrupted"
         /\ f.form = "none"
    BY <2>1, <2>9 DEF Repair, EventType
  <2>11. PICK q : q = Plus(p, x)
    OBVIOUS
  <2>12. x \in Seq(EventType) /\ y \in Seq(EventType) /\ y = <<f>> /\ p \in Seq(EventType)
    BY <1>3, <1>5, <2>1, <2>8, <2>9, <2>10 DEF Safe
  <2>13. Safe(q, from, d, c) /\ Open(q).turn = t /\ Boundary(q) = b
    <3>1. CASE s = 0
      <4>1. x = <<>>
        BY <1>3, <1>5, <3>1
      <4>2. q = p
        BY <2>11, <2>12, <4>1 DEF Plus
      <4> QED BY <2>8, <4>2
    <3>2. CASE s # 0
      <4>1. x = <<e>>
        BY <1>3, <1>5, <2>1, <2>9, <3>2
      <4>2. q = Append(p, e)
        BY <2>10, <2>11, <2>12, <4>1, ConcatOne
      <4>3. LogFits(p, e, d, c)
        BY <2>1, <2>8, <2>10 DEF LogFits, Started, Ended
      <4>4. Safe(q, from, d, c)
        BY <2>8, <4>2, <4>3, FitAppends
      <4>5. Boundary(q) = b
        <5>1. turnBoundaryFrom(q) = BoundaryEvent(turnBoundaryFrom(p), e)
          BY <2>10, <2>12, <4>2, BoundaryAppends
        <5>2. turnBoundaryFrom(p) \in BoundaryType
          BY <2>8, SafeIsSound DEF Sound
        <5> QED BY <2>8, <2>10, <5>1, <5>2, BoundaryIs DEF Boundary, Started, Ended
      <4>6. Open(q).turn = t
        <5>1. PICK o2 : o2 = Open(p)
          OBVIOUS
        <5>2. OpenOK(o2, b, d, c)
          BY <2>8, <5>1, SafeIsSound DEF Sound
        <5>3. PICK t2, s2, ps2 : t2 = o2.turn /\ s2 = o2.step /\ ps2 = o2.pending
          OBVIOUS
        <5>4. o2 = OpenOf(t2, s2, ps2)
          BY <1>2, <5>2, <5>3, OpenParts
        <5>5. ScanCases(o2, e, t2, s2, ps2) /\ Open(q) = ScanEvent(o2, e)
          BY <2>10, <2>12, <4>2, <5>1, <5>4, ScanIs, OpenAppends
        <5>6. ScanEvent(o2, e) = OpenOf(t2, 0, ps2)
          BY <2>10, <5>5 DEF ScanCases
        <5> QED BY <2>8, <5>1, <5>3, <5>5, <5>6 DEF OpenOf
      <4> QED BY <4>4, <4>5, <4>6
    <3> QED BY <3>1, <3>2
  <2>14. m = Append(q, f) /\ q \in Seq(EventType)
    <3>1. q \in Seq(EventType)
      BY <2>13 DEF Safe
    <3>2. m = Plus(Plus(Plus(l, rs), x), y)
      <4>1. m = Plus(l, Plus(Plus(rs, x), y))
        BY <1>5, Zenon DEF Plus
      <4>2. Plus(l, Plus(Plus(rs, x), y)) = Plus(Plus(Plus(l, rs), x), y)
        <5>1. l \in Seq(EventType) /\ rs \in Seq(EventType) /\ x \in Seq(EventType) /\ y \in Seq(EventType)
          BY <1>2, <2>6, <2>12
        <5> QED BY <5>1, PlusGroups
      <4> QED BY <4>1, <4>2, Zenon
    <3>3. m = Plus(q, <<f>>)
      BY <2>7, <2>11, <2>12, <3>2
    <3> QED BY <2>10, <3>1, <3>3, ConcatOne
  <2>15. Sound(q, d, c)
    BY <2>13, SafeIsSound
  <2>16. \A i \in DOMAIN q : Interrupted(q, i) => q[i].turn # t
    BY <2>1, <2>13, <2>15 DEF Sound, EndsOnce, OpenRuns
  <2>17. LogFits(q, f, d, c)
    BY <2>1, <2>10, <2>13, <2>16 DEF LogFits, Started, Ended
  <2>18. Safe(m, from, d, c)
    BY <2>13, <2>14, <2>17, FitAppends
  <2>19. Open(m) = NothingOpen
    <3>1. PICK o2 : o2 = Open(q)
      OBVIOUS
    <3>2. OpenOK(o2, b, d, c)
      BY <2>13, <2>15, <3>1 DEF Sound
    <3>3. PICK t2, s2, ps2 : t2 = o2.turn /\ s2 = o2.step /\ ps2 = o2.pending
      OBVIOUS
    <3>4. o2 = OpenOf(t2, s2, ps2)
      BY <1>2, <3>2, <3>3, OpenParts
    <3>5. ScanCases(o2, f, t2, s2, ps2) /\ Open(m) = ScanEvent(o2, f)
      BY <2>10, <2>14, <3>1, <3>4, ScanIs, OpenAppends
    <3> QED BY <2>10, <3>5 DEF ScanCases
  <2> QED BY <1>1, <2>18, <2>19
<1> QED BY <1>6, <1>7

LEMMA ResumeKeeps == IInv /\ Resume => IInv'
<1> SUFFICES ASSUME IInv, Resume PROVE IInv'
  OBVIOUS
<1>1. /\ pc' = "idle" /\ phase' = turnBoundaryFrom(log')
      /\ todo' = <<>> /\ concluded' = FALSE /\ cancelled' = FALSE
      /\ UNCHANGED <<dispatched, calls, crashes>>
      /\ log' = log \o InterruptedTurnClosers(log) /\ durable' = Len(log)
  BY DEF Resume, Append2Log
<1>2. Sound(log, dispatched, calls) /\ calls \in Nat
  BY SafeIsSound, AgentAssumption DEF IInv, SafeLog, TypeOK
<1>3. Safe(log', durable', dispatched, calls) /\ Open(log') = NothingOpen
  BY <1>1, <1>2, RepairCloses
<1>4. Sound(log', dispatched, calls)
  BY <1>3, SafeIsSound
<1>5. phase' \in BoundaryType /\ phase'.turn = Boundary(log') /\ TurnsUpto(log', Boundary(log'))
  BY <1>1, <1>4 DEF Sound, Boundary
<1>6. TypeOK'
  <2>1. log' \in Seq(EventType) /\ durable' \in 0..Len(log')
    BY <1>3 DEF Safe
  <2>2. todo' \in Seq(Ids)
    BY <1>1
  <2>3. phase' \in [turn : Nat, step : Nat]
    BY <1>5 DEF BoundaryType
  <2> QED BY <1>1, <2>1, <2>2, <2>3 DEF IInv, TypeOK
<1>7. SafeLog'
  BY <1>1, <1>3 DEF SafeLog
<1>8. TurnIsOpen' /\ CountsAhead'
  BY <1>1, <1>3, <1>5 DEF TurnIsOpen, InTurnAt, CountsAhead, BoundaryType
<1>9. CallsAreNew' /\ TurnAnswered'
  BY <1>1 DEF CallsAreNew, HasTools, TurnAnswered, InTurnAt, IInv
<1> QED BY <1>6, <1>7, <1>8, <1>9 DEF IInv

-----------------------------------------------------------------------------
LEMMA InitIsIInv == Init => IInv
<1> SUFFICES ASSUME Init PROVE IInv
  OBVIOUS
<1>1. log = <<>> /\ durable = 0 /\ Len(log) = 0 /\ DOMAIN log = {} /\ calls = 0
  BY DEF Init
<1>2. Safe(log, durable, dispatched, calls)
  BY <1>1, SoundNothing, SafeNow
<1>3. Boundary(log) = 0 /\ Open(log) = NothingOpen
  BY <1>1, OpenOfNothing, BoundaryOfNothing DEF Boundary, NoBoundary
<1>4. TypeOK
  <2>1. log \in Seq(EventType) /\ todo \in Seq(Ids) /\ durable \in 0..Len(log)
    BY <1>1 DEF Init
  <2>2. phase \in [turn : Nat, step : Nat]
    BY DEF Init
  <2>3. calls \in 0..MaxCalls /\ crashes \in 0..MaxCrashes
    BY AgentAssumption DEF Init
  <2> QED BY <2>1, <2>2, <2>3 DEF Init, TypeOK
<1>5. TurnIsOpen /\ CountsAhead
  BY <1>1, <1>3 DEF Init, TurnIsOpen, InTurnAt, CountsAhead, TurnsUpto
<1>6. CallsAreNew /\ TurnAnswered
  BY DEF Init, CallsAreNew, HasTools, TurnAnswered, InTurnAt
<1> QED BY <1>2, <1>4, <1>5, <1>6 DEF IInv, SafeLog

LEMMA StepKeepsIInv == IInv /\ [Next]_vars => IInv'
<1> SUFFICES ASSUME IInv, [Next]_vars PROVE IInv'
  OBVIOUS
<1>1. CASE UNCHANGED vars
  BY <1>1 DEF vars, IInv, TypeOK, SafeLog, TurnIsOpen, InTurnAt, CountsAhead, CallsAreNew,
              HasTools, TurnAnswered
<1>2. CASE Prompt
  BY <1>2, PromptKeeps
<1>3. CASE AgentStep
  BY <1>3, ClaimKeeps, AbortKeeps, StartKeeps, FailKeeps, AbortedKeeps, LimitKeeps, AnswerKeeps,
     AskKeeps, RecordKeeps, DispatchKeeps, ReturnKeeps, ErrKeeps, DoneKeeps DEF AgentStep
<1>4. CASE Cancel
  BY <1>4, CancelKeeps
<1>5. CASE Crash
  BY <1>5, CrashKeeps
<1>6. CASE Resume
  BY <1>6, ResumeKeeps
<1> QED BY <1>1, <1>2, <1>3, <1>4, <1>5, <1>6 DEF Next

LEMMA AlwaysIInv == Spec => []IInv
BY InitIsIInv, StepKeepsIInv, PTL DEF Spec

-----------------------------------------------------------------------------
(* What has its end, by the events alone.                                  *)

StepStarted(e) == e.kind = "step/start"
StepEnded(e) == e.kind = "step/end"

TurnEndIn(l, i) == \E j \in DOMAIN l : i < j /\ Ended(l[j]) /\ l[j].turn = l[i].turn
StepEndIn(l, i) ==
  \E j \in DOMAIN l : i < j /\ StepEnded(l[j]) /\ l[j].turn = l[i].turn /\ l[j].step = l[i].step
CutIn(l, i) ==
  \E j \in DOMAIN l :
    /\ i < j /\ Ended(l[j]) /\ l[j].turn = l[i].turn
    /\ l[j].reason \in {"error", "aborted"}
    /\ \A n \in DOMAIN l : l[n].turn = l[i].turn => n <= j
ResultIn(l, k) == \E j \in DOMAIN l : l[j].kind = "tool/result" /\ l[j].call = k
OwnEndIn(l, i) ==
  \E j \in DOMAIN l : Ended(l[j]) /\ l[j].turn = l[i].turn /\ l[j].reason # "interrupted"

\* What lacks its end is open in a scan that found turn t, step s and the
\* calls ps.
TurnsClosed(l, t) ==
  \A i \in DOMAIN l : Started(l[i]) => TurnEndIn(l, i) \/ l[i].turn = t
StepsClosed(l, t, s) ==
  \A i \in DOMAIN l :
    StepStarted(l[i]) => \/ StepEndIn(l, i) \/ CutIn(l, i)
                         \/ l[i].turn = t /\ l[i].step = s /\ s > 0
CallsClosed(l, d, t, ps) ==
  /\ \A k \in d : ResultIn(l, k) \/ Has(ps, k)
  /\ \A i \in DOMAIN l : \A k \in ToSet(l[i].calls) :
       ResultIn(l, k) \/ OwnEndIn(l, i) \/ (Has(ps, k) /\ l[i].turn = t)
  /\ \A i \in DOMAIN ps : ps[i].turn = t

Closed(l, d) ==
  /\ TurnsClosed(l, Open(l).turn)
  /\ StepsClosed(l, Open(l).turn, Open(l).step)
  /\ CallsClosed(l, d, Open(l).turn, Open(l).pending)

\* The steps of turn t have their ends, but for those numbered s.
StepsDone(l, t) ==
  \A i \in DOMAIN l : StepStarted(l[i]) /\ l[i].turn = t => StepEndIn(l, i)
StepsBut(l, t, s) ==
  \A i \in DOMAIN l : StepStarted(l[i]) /\ l[i].turn = t => StepEndIn(l, i) \/ l[i].step = s

AllAnswered(l, d) == \A k \in d : ResultIn(l, k)
TurnAnsweredIn(l, t) ==
  \A i \in DOMAIN l : l[i].turn = t => \A k \in ToSet(l[i].calls) : ResultIn(l, k)

\* What an event needs for all that to go on.
EndFits(l, e, d) ==
  /\ Started(e) => Open(l) = NothingOpen /\ \A i \in DOMAIN l : l[i].turn < e.turn
  /\ StepStarted(e) => e.turn = Open(l).turn /\ e.step > 0 /\ StepsDone(l, e.turn)
  /\ StepEnded(e) => Open(l).turn \in {0, e.turn} /\ StepsBut(l, e.turn, e.step)
  /\ Ended(e) => /\ Open(l).turn \in {0, e.turn} /\ AllAnswered(l, d)
                 /\ e.reason \in {"error", "aborted"} \/ StepsDone(l, e.turn)
                 /\ e.reason = "interrupted" => TurnAnsweredIn(l, e.turn)
  /\ ~Started(e) /\ ~StepEnded(e) /\ ~Ended(e) => e.turn = Open(l).turn /\ e.turn > 0
  /\ e.kind # "assistant/message" => e.calls = <<>>

LEMMA EndsStay ==
  ASSUME NEW l, NEW e, NEW m, NEW n, Grown(l, e, m, n), NEW i \in DOMAIN l
  PROVE  /\ TurnEndIn(l, i) => TurnEndIn(m, i)
         /\ StepEndIn(l, i) => StepEndIn(m, i)
         /\ OwnEndIn(l, i) => OwnEndIn(m, i)
         /\ CutIn(l, i) /\ e.turn # l[i].turn => CutIn(m, i)
<1>1. \A j \in DOMAIN l : j \in DOMAIN m /\ m[j] = l[j]
  BY DEF Grown
<1>2. ASSUME TurnEndIn(l, i) PROVE TurnEndIn(m, i)
  <2>1. PICK j \in DOMAIN l : i < j /\ Ended(l[j]) /\ l[j].turn = l[i].turn
    BY <1>2 DEF TurnEndIn
  <2> QED BY <1>1, <2>1 DEF TurnEndIn
<1>3. ASSUME StepEndIn(l, i) PROVE StepEndIn(m, i)
  <2>1. PICK j \in DOMAIN l :
          i < j /\ StepEnded(l[j]) /\ l[j].turn = l[i].turn /\ l[j].step = l[i].step
    BY <1>3 DEF StepEndIn
  <2> QED BY <1>1, <2>1 DEF StepEndIn
<1>4. ASSUME OwnEndIn(l, i) PROVE OwnEndIn(m, i)
  <2>1. PICK j \in DOMAIN l : Ended(l[j]) /\ l[j].turn = l[i].turn /\ l[j].reason # "interrupted"
    BY <1>4 DEF OwnEndIn
  <2> QED BY <1>1, <2>1 DEF OwnEndIn
<1>5. ASSUME CutIn(l, i), e.turn # l[i].turn PROVE CutIn(m, i)
  <2>1. PICK j \in DOMAIN l :
          /\ i < j /\ Ended(l[j]) /\ l[j].turn = l[i].turn
          /\ l[j].reason \in {"error", "aborted"}
          /\ \A x \in DOMAIN l : l[x].turn = l[i].turn => x <= j
    BY <1>5 DEF CutIn
  <2>2. ASSUME NEW x \in DOMAIN m, m[x].turn = m[i].turn PROVE x <= j
    <3>1. m[i] = l[i] /\ m[n + 1] = e
      BY <1>1 DEF Grown
    <3>2. x # n + 1
      BY <1>5, <2>2, <3>1
    <3>3. x \in DOMAIN l /\ m[x] = l[x]
      BY <3>2 DEF Grown
    <3> QED BY <2>1, <2>2, <3>1, <3>3
  <2> QED BY <1>1, <2>1, <2>2 DEF CutIn
<1> QED BY <1>2, <1>3, <1>4, <1>5

LEMMA ResultsStay ==
  ASSUME NEW l, NEW e, NEW m, NEW n, Grown(l, e, m, n), NEW k
  PROVE  /\ ResultIn(l, k) => ResultIn(m, k)
         /\ e.kind = "tool/result" /\ e.call = k => ResultIn(m, k)
<1>1. \A j \in DOMAIN l : j \in DOMAIN m /\ m[j] = l[j]
  BY DEF Grown
<1>2. n + 1 \in DOMAIN m /\ m[n + 1] = e
  BY DEF Grown
<1> QED BY <1>1, <1>2 DEF ResultIn

LEMMA TurnsClosedOn ==
  ASSUME NEW l, NEW e, NEW m, NEW n, Grown(l, e, m, n), NEW t, NEW t2, TurnsClosed(l, t),
         \A i \in DOMAIN l : l[i].turn # 0,
         Started(e) => t = 0 /\ t2 = e.turn,
         Ended(e) => t \in {0, e.turn},
         ~Started(e) /\ ~Ended(e) => t2 = t
  PROVE  TurnsClosed(m, t2)
<1> SUFFICES ASSUME NEW i \in DOMAIN m, Started(m[i])
             PROVE  TurnEndIn(m, i) \/ m[i].turn = t2
  BY DEF TurnsClosed
<1>1. CASE i = n + 1
  <2>1. m[i] = e
    BY <1>1 DEF Grown
  <2> QED BY <2>1
<1>2. CASE i # n + 1
  <2>1. i \in DOMAIN l /\ m[i] = l[i] /\ l[i].turn # 0
    BY <1>2 DEF Grown
  <2>2. CASE TurnEndIn(l, i)
    BY <2>1, <2>2, EndsStay
  <2>3. CASE l[i].turn = t
    <3>1. CASE Ended(e)
      <4>1. n + 1 \in DOMAIN m /\ m[n + 1] = e /\ i < n + 1
        BY <2>1 DEF Grown
      <4>2. e.turn = m[i].turn
        BY <2>1, <2>3, <3>1
      <4> QED BY <3>1, <4>1, <4>2 DEF TurnEndIn
    <3>2. CASE ~Ended(e)
      BY <2>1, <2>3, <3>2
    <3> QED BY <3>1, <3>2
  <2> QED BY <2>1, <2>2, <2>3 DEF TurnsClosed
<1> QED BY <1>1, <1>2

LEMMA StepsClosedOn ==
  ASSUME NEW l, NEW e, NEW m, NEW n, Grown(l, e, m, n),
         NEW t, NEW s, NEW t2, NEW s2, StepsClosed(l, t, s),
         \A i \in DOMAIN l : l[i].turn \in Nat \ {0}, e.turn \in Nat,
         t # 0 => \A i \in DOMAIN l : Ended(l[i]) => l[i].turn # t,
         Started(e) => t = 0 /\ \A i \in DOMAIN l : l[i].turn < e.turn,
         StepStarted(e) => e.turn = t /\ e.step > 0 /\ StepsDone(l, e.turn) /\ t2 = t /\ s2 = e.step,
         StepEnded(e) => t \in {0, e.turn} /\ StepsBut(l, e.turn, e.step),
         Ended(e) => t \in {0, e.turn} /\ (e.reason \in {"error", "aborted"} \/ StepsDone(l, e.turn)),
         ~Started(e) /\ ~StepEnded(e) /\ ~Ended(e) => e.turn = t /\ t # 0,
         ~Started(e) /\ ~StepStarted(e) /\ ~StepEnded(e) /\ ~Ended(e) => t2 = t /\ s2 = s
  PROVE  StepsClosed(m, t2, s2)
<1>k. /\ StepEnded(e) => ~Started(e) /\ ~StepStarted(e) /\ ~Ended(e)
      /\ Started(e) => ~StepEnded(e) /\ ~StepStarted(e) /\ ~Ended(e)
      /\ StepStarted(e) => ~Started(e) /\ ~StepEnded(e) /\ ~Ended(e)
  BY DEF StepEnded, Started, StepStarted, Ended
<1>g. /\ DOMAIN m = 1..(n + 1) /\ DOMAIN l = 1..n /\ n \in Nat /\ m[n + 1] = e
      /\ \A i \in 1..n : m[i] = l[i]
  BY DEF Grown
<1> SUFFICES ASSUME NEW i \in DOMAIN m, StepStarted(m[i])
             PROVE  \/ StepEndIn(m, i) \/ CutIn(m, i)
                    \/ m[i].turn = t2 /\ m[i].step = s2 /\ s2 > 0
  BY DEF StepsClosed
<1>1. CASE i = n + 1
  <2>1. m[i] = e
    BY <1>1, <1>g
  <2> QED BY <2>1
<1>2. CASE i # n + 1
  <2>1. i \in DOMAIN l /\ m[i] = l[i] /\ l[i].turn \in Nat \ {0} /\ i < n + 1 /\ n + 1 \in DOMAIN m
    BY <1>2, <1>g
  <2>2. CASE StepEndIn(l, i)
    BY <2>1, <2>2, EndsStay
  <2>3. CASE ~StepEndIn(l, i) /\ CutIn(l, i) /\ e.turn # l[i].turn
    BY <2>1, <2>3, EndsStay
  <2>4. CASE ~StepEndIn(l, i) /\ e.turn = l[i].turn
    <3>1. ~Started(e)
      BY <2>1, <2>4
    <3>2. ~StepStarted(e)
      BY <2>1, <2>4 DEF StepsDone
    <3>3. CASE StepEnded(e)
      <4>1. l[i].step = e.step
        BY <2>1, <2>4, <3>3 DEF StepsBut
      <4> QED BY <1>g, <2>1, <2>4, <3>3, <4>1 DEF StepEndIn
    <3>4. CASE Ended(e)
      <4>1. e.reason \in {"error", "aborted"}
        BY <2>1, <2>4, <3>4 DEF StepsDone
      <4>2. \A x \in DOMAIN m : x <= n + 1
        BY <1>g
      <4> QED BY <1>g, <2>1, <2>4, <3>4, <4>1, <4>2 DEF CutIn
    <3>5. CASE ~StepEnded(e) /\ ~Ended(e)
      <4>1. e.turn = t /\ t # 0 /\ t2 = t /\ s2 = s
        BY <3>1, <3>2, <3>5
      <4>2. ~CutIn(l, i)
        BY <2>4, <4>1 DEF CutIn
      <4>3. l[i].step = s /\ s > 0
        BY <2>1, <2>4, <4>2 DEF StepsClosed
      <4> QED BY <2>1, <2>4, <4>1, <4>3
    <3> QED BY <3>3, <3>4, <3>5
  <2>5. CASE ~StepEndIn(l, i) /\ ~CutIn(l, i) /\ e.turn # l[i].turn
    <3>1. l[i].turn = t /\ l[i].step = s /\ s > 0
      BY <2>1, <2>5 DEF StepsClosed
    <3>2. ~Started(e) /\ ~StepEnded(e) /\ ~Ended(e)
      BY <2>1, <2>5, <3>1
    <3> QED BY <2>5, <3>1, <3>2
  <2> QED BY <2>2, <2>3, <2>4, <2>5
<1> QED BY <1>1, <1>2

LEMMA CallsClosedOn ==
  ASSUME NEW l, NEW e, NEW m, NEW n, Grown(l, e, m, n), NEW d,
         NEW t, NEW ps, NEW t2, NEW ps2, CallsClosed(l, d, t, ps),
         \A i \in DOMAIN l : l[i].turn # 0,
         Started(e) => t = 0,
         Ended(e) => t \in {0, e.turn} /\ AllAnswered(l, d),
         Ended(e) /\ e.reason = "interrupted" => TurnAnsweredIn(l, e.turn),
         ~Started(e) /\ ~Ended(e) => t2 = t,
         ~Ended(e) => \A k : Has(ps, k) => Has(ps2, k) \/ (e.kind = "tool/result" /\ e.call = k),
         \A k \in ToSet(e.calls) : Has(ps2, k) /\ e.turn = t2,
         \A i \in DOMAIN ps2 : ps2[i].turn = t2
  PROVE  CallsClosed(m, d, t2, ps2)
<1>1. ASSUME NEW k \in d PROVE ResultIn(m, k) \/ Has(ps2, k)
  <2>1. CASE ResultIn(l, k)
    BY <2>1, ResultsStay
  <2>2. CASE ~ResultIn(l, k)
    <3>1. ~Ended(e)
      BY <1>1, <2>2 DEF AllAnswered
    <3>2. Has(ps, k)
      BY <1>1, <2>2 DEF CallsClosed
    <3> QED BY <3>1, <3>2, ResultsStay
  <2> QED BY <2>1, <2>2
<1>2. ASSUME NEW i \in DOMAIN m, NEW k \in ToSet(m[i].calls)
      PROVE  ResultIn(m, k) \/ OwnEndIn(m, i) \/ (Has(ps2, k) /\ m[i].turn = t2)
  <2>1. CASE i = n + 1
    <3>1. m[i] = e
      BY <2>1 DEF Grown
    <3> QED BY <1>2, <3>1
  <2>2. CASE i # n + 1
    <3>1. i \in DOMAIN l /\ m[i] = l[i] /\ l[i].turn # 0
      BY <2>2 DEF Grown
    <3>2. CASE ResultIn(l, k)
      BY <3>2, ResultsStay
    <3>3. CASE OwnEndIn(l, i)
      BY <3>1, <3>3, EndsStay
    <3>4. CASE ~ResultIn(l, k) /\ Has(ps, k) /\ l[i].turn = t
      <4>1. t # 0 /\ ~Started(e)
        BY <3>1, <3>4
      <4>2. CASE Ended(e)
        <5>1. e.turn = l[i].turn
          BY <3>4, <4>1, <4>2
        <5>2. e.reason # "interrupted"
          BY <1>2, <3>1, <3>4, <4>2, <5>1 DEF TurnAnsweredIn
        <5>3. n + 1 \in DOMAIN m /\ m[n + 1] = e
          BY DEF Grown
        <5> QED BY <3>1, <4>2, <5>1, <5>2, <5>3 DEF OwnEndIn
      <4>3. CASE ~Ended(e)
        <5>1. Has(ps2, k) \/ (e.kind = "tool/result" /\ e.call = k)
          BY <3>4, <4>3
        <5>2. m[i].turn = t2
          BY <3>1, <3>4, <4>1, <4>3
        <5> QED BY <5>1, <5>2, ResultsStay
      <4> QED BY <4>2, <4>3
    <3>5. ResultIn(l, k) \/ OwnEndIn(l, i) \/ (Has(ps, k) /\ l[i].turn = t)
      BY <1>2, <3>1 DEF CallsClosed
    <3> QED BY <3>2, <3>3, <3>4, <3>5
  <2> QED BY <2>1, <2>2
<1> QED BY <1>1, <1>2 DEF CallsClosed

\* What one event does to what the scan has open.
LEMMA OpenMoves ==
  ASSUME NEW e \in EventType, NEW t, NEW s, NEW P, NEW ps \in Seq(P), NEW t2, NEW s2, NEW ps2,
         ScanEvent(OpenOf(t, s, ps), e) = OpenOf(t2, s2, ps2)
  PROVE  /\ Started(e) => t2 = e.turn /\ ps2 = ps
         /\ Ended(e) => t2 = 0 /\ ps2 = <<>>
         /\ ~Started(e) /\ ~Ended(e) => t2 = t
         /\ StepStarted(e) => s2 = e.step
         /\ StepEnded(e) => s2 = 0
         /\ ~StepStarted(e) /\ ~StepEnded(e) /\ ~Ended(e) => s2 = s
         /\ ~Ended(e) => \A k : Has(ps, k) => Has(ps2, k) \/ (e.kind = "tool/result" /\ e.call = k)
         /\ e.kind = "assistant/message" => \A k \in ToSet(e.calls) : Has(ps2, k)
         /\ e.kind = "tool/call" => Has(ps2, e.call)
         /\ e.kind = "tool/result" /\ e.form = "tool-result" => ps2 = Without(ps, e.call)
         /\ (\A i \in DOMAIN ps : ps[i].turn = t) /\ (Started(e) => ps = <<>>)
              /\ (e.kind \in {"assistant/message", "tool/call"} => e.turn = t)
            => \A i \in DOMAIN ps2 : ps2[i].turn = t2
<1> USE DEF Started, Ended, StepStarted, StepEnded
<1>1. PICK o : o = OpenOf(t, s, ps)
  OBVIOUS
<1>2. ScanCases(o, e, t, s, ps)
  BY <1>1, ScanIs
<1>3. ASSUME NEW x, NEW y, NEW z, OpenOf(x, y, z) = OpenOf(t2, s2, ps2)
      PROVE  t2 = x /\ s2 = y /\ ps2 = z
  BY <1>3 DEF OpenOf
<1>4. e.kind \in Kinds /\ e.calls \in Seq(Ids)
  BY DEF EventType, Kinds
<1>5. CASE e.kind = "turn/start"
  <2>1. ScanEvent(o, e) = OpenOf(e.turn, s, ps)
    BY <1>2, <1>5 DEF ScanCases
  <2>2. t2 = e.turn /\ s2 = s /\ ps2 = ps
    BY <1>1, <1>3, <2>1
  <2>3. ps2 = <<>> => DOMAIN ps2 = {}
    OBVIOUS
  <2> QED BY <1>5, <2>2, <2>3
<1>6. CASE e.kind = "turn/end"
  <2>1. ScanEvent(o, e) = OpenOf(0, 0, <<>>)
    BY <1>2, <1>6 DEF ScanCases, NothingOpen, OpenOf
  <2>2. t2 = 0 /\ s2 = 0 /\ ps2 = <<>>
    BY <1>1, <1>3, <2>1
  <2>3. DOMAIN ps2 = {}
    BY <2>2
  <2> QED BY <1>6, <2>2, <2>3
<1>7. CASE e.kind = "step/start"
  <2>1. ScanEvent(o, e) = OpenOf(t, e.step, ps)
    BY <1>2, <1>7 DEF ScanCases
  <2>2. t2 = t /\ s2 = e.step /\ ps2 = ps
    BY <1>1, <1>3, <2>1
  <2> QED BY <1>7, <2>2
<1>8. CASE e.kind = "step/end"
  <2>1. ScanEvent(o, e) = OpenOf(t, 0, ps)
    BY <1>2, <1>8 DEF ScanCases
  <2>2. t2 = t /\ s2 = 0 /\ ps2 = ps
    BY <1>1, <1>3, <2>1
  <2> QED BY <1>8, <2>2
<1>9. CASE e.kind = "assistant/message"
  <2>1. PICK as : as = Asks(e.calls, e)
    OBVIOUS
  <2>2. ScanEvent(o, e) = OpenOf(t, s, ps \o as)
    BY <1>2, <1>9, <2>1 DEF ScanCases
  <2>3. t2 = t /\ s2 = s /\ ps2 = ps \o as
    BY <1>1, <1>3, <2>2
  <2>4. PICK n : n = Len(e.calls)
    OBVIOUS
  <2>5. n \in Nat /\ DOMAIN e.calls = 1..n /\ as = [i \in 1..n |-> Pending(e.calls[i], e, FALSE)]
    BY <1>4, <2>1, <2>4 DEF Asks
  <2>6. /\ DOMAIN ps2 = 1..(Len(ps) + n) /\ Len(ps) \in Nat /\ DOMAIN ps = 1..Len(ps)
        /\ \A i \in 1..Len(ps) : ps2[i] = ps[i]
        /\ \A i \in 1..n : ps2[Len(ps) + i] = as[i] /\ Len(ps) + i \in DOMAIN ps2
        /\ \A i \in DOMAIN ps2 : i \in 1..Len(ps) \/ i - Len(ps) \in 1..n
    <3>1. PICK Q : (\A x \in P : x \in Q) /\ \A i \in 1..n : as[i] \in Q
      <4>1. PICK Q : Q = P \cup {as[i] : i \in 1..n}
        OBVIOUS
      <4>2. \A x \in P : x \in Q
        BY <4>1
      <4>3. \A i \in 1..n : as[i] \in Q
        BY <4>1
      <4> QED BY <4>2, <4>3
    <3>2. as \in Seq(Q) /\ Len(as) = n
      <4>1. DOMAIN as = 1..n /\ as = [i \in 1..n |-> as[i]] /\ n \in Nat
        BY <2>5
      <4>2. as \in Seq(Q)
        <5>1. PICK j \in Nat : j = n
          BY <4>1
        <5>2. \A i \in 1..j : as[i] \in Q
          BY <3>1, <5>1
        <5>3. as = [i \in 1..j |-> as[i]]
          BY <4>1, <5>1
        <5>4. as \in [1..j -> Q]
          BY <5>2, <5>3
        <5>5. \A f \in [1..j -> Q] : f \in Seq(Q)
          OBVIOUS
        <5> QED BY <5>4, <5>5
      <4> QED BY <4>1, <4>2
    <3>3. ps \in Seq(Q) /\ Len(ps) \in Nat /\ DOMAIN ps = 1..Len(ps)
      <4>1. ps = [i \in 1..Len(ps) |-> ps[i]] /\ Len(ps) \in Nat /\ DOMAIN ps = 1..Len(ps)
        OBVIOUS
      <4>2. \A i \in 1..Len(ps) : ps[i] \in P
        OBVIOUS
      <4>3. \A i \in 1..Len(ps) : ps[i] \in Q
        BY <3>1, <4>2
      <4>4. ps \in Seq(Q)
        BY <4>1, <4>3
      <4> QED BY <4>1, <4>4
    <3>4. /\ ps2 \in Seq(Q) /\ Len(ps2) = Len(ps) + n
          /\ \A i \in 1..Len(ps) : ps2[i] = ps[i]
          /\ \A i \in 1..n : ps2[Len(ps) + i] = as[i]
      <4>1. \A x \in Seq(Q), y \in Seq(Q) :
              /\ x \o y \in Seq(Q) /\ Len(x \o y) = Len(x) + Len(y)
              /\ \A i \in 1..Len(x) : (x \o y)[i] = x[i]
              /\ \A i \in 1..Len(y) : (x \o y)[Len(x) + i] = y[i]
        OBVIOUS
      <4> QED BY <2>3, <3>2, <3>3, <4>1
    <3>5. DOMAIN ps2 = 1..(Len(ps) + n)
      BY <3>4
    <3>6. \A i \in 1..n : Len(ps) + i \in 1..(Len(ps) + n)
      BY <2>5, <3>3
    <3>7. \A i \in 1..(Len(ps) + n) : i \in 1..Len(ps) \/ i - Len(ps) \in 1..n
      BY <2>5, <3>3
    <3> QED BY <3>3, <3>4, <3>5, <3>6, <3>7
  <2>7. \A i \in 1..n : as[i].id = e.calls[i] /\ as[i].turn = e.turn
    BY <2>5 DEF Pending
  <2>8. \A k : Has(ps, k) => Has(ps2, k)
    <3> SUFFICES ASSUME NEW k, NEW i \in DOMAIN ps, ps[i].id = k PROVE Has(ps2, k)
      BY DEF Has
    <3>1. i \in DOMAIN ps2 /\ ps2[i] = ps[i]
      BY <2>5, <2>6
    <3> QED BY <3>1 DEF Has
  <2>9. \A k \in ToSet(e.calls) : Has(ps2, k)
    <3> SUFFICES ASSUME NEW i \in 1..n PROVE Has(ps2, e.calls[i])
      BY <2>5 DEF ToSet
    <3>1. Len(ps) + i \in DOMAIN ps2 /\ ps2[Len(ps) + i].id = e.calls[i]
      BY <2>6, <2>7
    <3> QED BY <3>1 DEF Has
  <2>10. ASSUME \A i \in DOMAIN ps : ps[i].turn = t, e.turn = t, NEW i \in DOMAIN ps2
         PROVE  ps2[i].turn = t2
    <3>1. CASE i \in 1..Len(ps)
      BY <2>3, <2>6, <2>10, <3>1
    <3>2. CASE i - Len(ps) \in 1..n
      <4>1. PICK j \in 1..n : j = i - Len(ps)
        BY <3>2
      <4>2. i = Len(ps) + j
        BY <2>6, <4>1
      <4>3. ps2[i] = as[j] /\ as[j].turn = e.turn
        BY <2>6, <2>7, <4>1, <4>2
      <4> QED BY <2>3, <2>10, <4>3
    <3> QED BY <2>6, <3>1, <3>2
  <2> QED BY <1>9, <2>3, <2>8, <2>9, <2>10
<1>10. CASE e.kind = "tool/call" /\ Has(ps, e.call)
  <2>1. PICK q : q = Records(ps, e.call)
    OBVIOUS
  <2>2. t2 = t /\ s2 = s /\ ps2 = q
    <3>1. ScanEvent(o, e) = OpenOf(t, s, q)
      BY <1>2, <1>10, <2>1 DEF ScanCases
    <3> QED BY <1>1, <1>3, <3>1
  <2>3. DOMAIN q = DOMAIN ps
    BY <2>1 DEF Records
  <2>4. ASSUME NEW i \in DOMAIN ps PROVE q[i].id = ps[i].id /\ q[i].turn = ps[i].turn
    <3>1. PICK p, r : p = ps[i] /\ r = [p EXCEPT !.recorded = TRUE]
      OBVIOUS
    <3>2. r.id = p.id /\ r.turn = p.turn
      BY <3>1
    <3>3. q[i] = IF p.id = e.call THEN r ELSE p
      BY <2>1, <3>1 DEF Records
    <3> QED BY <3>1, <3>2, <3>3
  <2>5. \A k : Has(ps, k) => Has(ps2, k)
    BY <2>2, <2>3, <2>4 DEF Has
  <2> QED BY <1>10, <2>2, <2>3, <2>4, <2>5
<1>11. CASE e.kind = "tool/call" /\ ~Has(ps, e.call)
  <2>1. PICK p, n : p = Pending(e.call, e, TRUE) /\ n = Len(ps)
    OBVIOUS
  <2>2. t2 = t /\ s2 = s /\ ps2 = Append(ps, p)
    <3>1. ScanEvent(o, e) = OpenOf(t, s, Append(ps, p))
      BY <1>2, <1>11, <2>1 DEF ScanCases
    <3> QED BY <1>1, <1>3, <3>1
  <2>3. Grown(ps, p, ps2, n)
    <3>1. PICK Q : Q = P \cup {p}
      OBVIOUS
    <3>2. ps \in Seq(Q) /\ p \in Q
      <4>1. ps = [i \in 1..Len(ps) |-> ps[i]] /\ \A i \in 1..Len(ps) : ps[i] \in Q
        BY <3>1
      <4>2. ps \in Seq(Q)
        BY <4>1
      <4> QED BY <3>1, <4>2
    <3> QED BY <2>1, <2>2, <3>2, AppendGrows
  <2>4. p.id = e.call /\ p.turn = e.turn
    BY <2>1 DEF Pending
  <2>5. \A k : Has(ps, k) => Has(ps2, k)
    BY <2>3 DEF Has, Grown
  <2>6. Has(ps2, e.call)
    <3>1. n + 1 \in DOMAIN ps2 /\ ps2[n + 1] = p
      BY <2>3 DEF Grown
    <3> QED BY <2>4, <3>1 DEF Has
  <2>7. ASSUME \A i \in DOMAIN ps : ps[i].turn = t, e.turn = t, NEW i \in DOMAIN ps2
        PROVE  ps2[i].turn = t2
    <3>1. CASE i = n + 1
      BY <2>2, <2>3, <2>4, <2>7, <3>1 DEF Grown
    <3>2. CASE i # n + 1
      <4>1. i \in DOMAIN ps /\ ps2[i] = ps[i]
        BY <2>3, <3>2 DEF Grown
      <4> QED BY <2>2, <2>7, <4>1
    <3> QED BY <3>1, <3>2
  <2> QED BY <1>11, <2>2, <2>5, <2>6, <2>7
<1>12. CASE e.kind = "tool/result" /\ e.form = "tool-result"
  <2>1. PICK q : q = Without(ps, e.call)
    OBVIOUS
  <2>2. t2 = t /\ s2 = s /\ ps2 = q
    <3>1. ScanEvent(o, e) = OpenOf(t, s, q)
      BY <1>2, <1>12, <2>1 DEF ScanCases
    <3> QED BY <1>1, <1>3, <3>1
  <2>3. \A k : Has(ps, k) /\ k # e.call => Has(ps2, k)
    <3> SUFFICES ASSUME NEW i \in DOMAIN ps, ps[i].id # e.call PROVE Has(q, ps[i].id)
      BY <2>2 DEF Has
    <3>1. PICK j \in DOMAIN q : q[j] = ps[i]
      BY <2>1, WithoutThins
    <3> QED BY <3>1 DEF Has
  <2>4. ASSUME \A i \in DOMAIN ps : ps[i].turn = t, NEW i \in DOMAIN q
        PROVE  q[i].turn = t
    <3>1. PICK Q : Q = {p \in P : p.turn = t}
      OBVIOUS
    <3>2. ps \in Seq(Q)
      <4>1. ps = [x \in 1..Len(ps) |-> ps[x]] /\ \A x \in 1..Len(ps) : ps[x] \in Q
        BY <2>4, <3>1
      <4> QED BY <4>1
    <3>3. q \in Seq(Q)
      BY <2>1, <3>2, WithoutThins
    <3>4. q[i] \in Q
      BY <3>3
    <3> QED BY <3>1, <3>4
  <2> QED BY <1>12, <2>1, <2>2, <2>3, <2>4
<1>13. CASE \/ e.kind \in {"user/message", "assistant/attempt"}
            \/ e.kind = "tool/result" /\ e.form # "tool-result"
  <2>1. t2 = t /\ s2 = s /\ ps2 = ps
    <3>1. ScanEvent(o, e) = OpenOf(t, s, ps)
      BY <1>1, <1>2, <1>13 DEF ScanCases
    <3> QED BY <1>1, <1>3, <3>1
  <2> QED BY <1>13, <2>1
<1> QED BY <1>4, <1>5, <1>6, <1>7, <1>8, <1>9, <1>10, <1>11, <1>12, <1>13 DEF Kinds

LEMMA ClosedAppend ==
  ASSUME NEW l, NEW e, NEW d, NEW c \in Nat, Sound(l, d, c), Sound(Append(l, e), d, c),
         e \in EventType, Closed(l, d), EndFits(l, e, d)
  PROVE  Closed(Append(l, e), d)
<1>1. PICK m, n, b, o, o2 : /\ m = Append(l, e) /\ n = Len(l) /\ b = Boundary(l)
                            /\ o = Open(l) /\ o2 = Open(m)
  OBVIOUS
<1>2. l \in Seq(EventType) /\ b \in Nat /\ OpenOK(o, b, d, c)
  BY <1>1 DEF Sound, Boundary, BoundaryType
<1>3. Grown(l, e, m, n)
  BY <1>1, <1>2, AppendGrows
<1>4. PICK t, s, ps : t = o.turn /\ s = o.step /\ ps = o.pending
  OBVIOUS
<1>5. o = OpenOf(t, s, ps) /\ Parts(t, s, ps, b, d, c)
  BY <1>2, <1>4, OpenParts
<1>6. PICK P : P = Askable(b, d, c) /\ ps \in Seq(P)
  BY <1>5 DEF Parts
<1>7. PICK t2, s2, ps2 : t2 = o2.turn /\ s2 = o2.step /\ ps2 = o2.pending
  OBVIOUS
<1>8. o2 = OpenOf(t2, s2, ps2)
  <2>1. OpenOK(o2, Boundary(m), d, c) /\ Boundary(m) \in Nat
    BY <1>1 DEF Sound, Boundary, BoundaryType
  <2> QED BY <1>7, <2>1, OpenParts
<1>9. ScanEvent(OpenOf(t, s, ps), e) = OpenOf(t2, s2, ps2)
  <2>1. o2 = ScanEvent(o, e)
    BY <1>1, <1>2, OpenAppends
  <2> QED BY <1>5, <1>8, <2>1
<1>10. /\ TurnsClosed(l, t) /\ StepsClosed(l, t, s) /\ CallsClosed(l, d, t, ps)
  BY <1>1, <1>4 DEF Closed
<1>11. /\ \A i \in DOMAIN l : l[i].turn \in Nat \ {0}
       /\ t # 0 => \A i \in DOMAIN l : Ended(l[i]) => l[i].turn # t
       /\ t \in Nat
  <2>1. TurnsUpto(l, b) /\ OpenRuns(l)
    BY <1>1 DEF Sound
  <2>2. t \in Nat
    BY <1>2, <1>5 DEF Parts
  <2> QED BY <1>1, <1>2, <1>4, <2>1, <2>2 DEF TurnsUpto, OpenRuns
<1>12. e.turn \in Nat /\ e.kind \in Kinds
  BY DEF EventType, Kinds
<1>13. EndFits(l, e, d) /\ Open(l).turn = t
  BY <1>1, <1>4
<1>14. Started(e) => /\ t = 0 /\ ps = <<>> /\ \A i \in DOMAIN l : l[i].turn < e.turn
  BY <1>1, <1>4, <1>13 DEF EndFits, NothingOpen
<1>k. /\ StepEnded(e) => ~Started(e) /\ ~StepStarted(e) /\ ~Ended(e)
      /\ Started(e) => ~StepEnded(e) /\ ~StepStarted(e) /\ ~Ended(e)
      /\ StepStarted(e) => ~Started(e) /\ ~StepEnded(e) /\ ~Ended(e)
  BY DEF StepEnded, Started, StepStarted, Ended
<1>15. TurnsClosed(m, t2)
  <2>1. /\ Started(e) => t2 = e.turn
        /\ ~Started(e) /\ ~Ended(e) => t2 = t
    BY <1>6, <1>9, OpenMoves
  <2>2. Ended(e) => t \in {0, e.turn}
    BY <1>13 DEF EndFits
  <2> QED BY <1>3, <1>10, <1>11, <1>14, <2>1, <2>2, TurnsClosedOn
<1>16. StepsClosed(m, t2, s2)
  <2>1. /\ StepStarted(e) => t2 = t /\ s2 = e.step
        /\ ~Started(e) /\ ~StepStarted(e) /\ ~StepEnded(e) /\ ~Ended(e) => t2 = t /\ s2 = s
    BY <1>6, <1>9, <1>k, OpenMoves
  <2>2. /\ StepStarted(e) => e.turn = t /\ e.step > 0 /\ StepsDone(l, e.turn)
        /\ StepEnded(e) => t \in {0, e.turn} /\ StepsBut(l, e.turn, e.step)
        /\ Ended(e) => t \in {0, e.turn} /\ (e.reason \in {"error", "aborted"} \/ StepsDone(l, e.turn))
        /\ ~Started(e) /\ ~StepEnded(e) /\ ~Ended(e) => e.turn = t /\ t # 0
    BY <1>11, <1>13 DEF EndFits
  <2> QED BY <1>3, <1>10, <1>11, <1>12, <1>14, <2>1, <2>2, StepsClosedOn
<1>17. CallsClosed(m, d, t2, ps2)
  <2>1. /\ ~Started(e) /\ ~Ended(e) => t2 = t
        /\ ~Ended(e) => \A k : Has(ps, k) => Has(ps2, k) \/ (e.kind = "tool/result" /\ e.call = k)
        /\ e.kind = "assistant/message" => \A k \in ToSet(e.calls) : Has(ps2, k)
    BY <1>6, <1>9, OpenMoves
  <2>2. /\ Ended(e) => t \in {0, e.turn} /\ AllAnswered(l, d)
        /\ Ended(e) /\ e.reason = "interrupted" => TurnAnsweredIn(l, e.turn)
        /\ e.kind # "assistant/message" => e.calls = <<>>
        /\ e.kind \in {"assistant/message", "tool/call"} => e.turn = t
    BY <1>13 DEF EndFits, Started, Ended, StepEnded
  <2>3. \A i \in DOMAIN ps2 : ps2[i].turn = t2
    <3>1. \A i \in DOMAIN ps : ps[i].turn = t
      BY <1>10 DEF CallsClosed
    <3> QED BY <1>6, <1>9, <1>14, <2>2, <3>1, OpenMoves
  <2>4. ASSUME NEW k \in ToSet(e.calls) PROVE Has(ps2, k) /\ e.turn = t2
    <3>1. e.kind = "assistant/message"
      BY <2>2, <2>4 DEF ToSet
    <3>2. ~Started(e) /\ ~Ended(e)
      BY <3>1 DEF Started, Ended
    <3> QED BY <2>1, <2>2, <2>4, <3>1, <3>2
  <2> QED BY <1>3, <1>10, <1>11, <1>14, <2>1, <2>2, <2>3, <2>4, CallsClosedOn
<1>18. Closed(m, d)
  BY <1>1, <1>7, <1>15, <1>16, <1>17 DEF Closed
<1> QED BY <1>1, <1>18

\* Whatever a crash keeps of l beyond from lacks only ends of what is open.
Kept(l, from, d) ==
  /\ l \in Seq(EventType) /\ from \in 0..Len(l)
  /\ \A n \in from..Len(l) : Closed(SubSeq(l, 1, n), d)

LEMMA KeptNow ==
  ASSUME NEW l \in Seq(EventType), NEW d, Closed(l, d)
  PROVE  Kept(l, Len(l), d)
<1>1. Len(l) \in 0..Len(l) /\ \A n \in Len(l)..Len(l) : n = Len(l)
  OBVIOUS
<1>2. SubSeq(l, 1, Len(l)) = l
  BY WholeIs
<1> QED BY <1>1, <1>2 DEF Kept

LEMMA KeptIsClosed ==
  ASSUME NEW l, NEW from, NEW d, Kept(l, from, d)
  PROVE  Closed(l, d)
<1>1. l \in Seq(EventType) /\ Len(l) \in from..Len(l)
  BY DEF Kept
<1>2. SubSeq(l, 1, Len(l)) = l
  BY <1>1, WholeIs
<1> QED BY <1>1, <1>2 DEF Kept

LEMMA KeptAppend ==
  ASSUME NEW l, NEW from, NEW d, Kept(l, from, d),
         NEW e \in EventType, Closed(Append(l, e), d)
  PROVE  Kept(Append(l, e), from, d)
<1>1. PICK m : m = Append(l, e)
  OBVIOUS
<1>2. l \in Seq(EventType) /\ from \in 0..Len(l)
  BY DEF Kept
<1>3. m \in Seq(EventType) /\ Len(m) = Len(l) + 1 /\ from \in 0..Len(m)
  BY <1>1, <1>2
<1>4. ASSUME NEW n \in from..Len(m) PROVE Closed(SubSeq(m, 1, n), d)
  <2>1. CASE n \in from..Len(l)
    <3>1. SubSeq(m, 1, n) = SubSeq(l, 1, n)
      BY <1>1, <1>2, <2>1
    <3> QED BY <2>1, <3>1 DEF Kept
  <2>2. CASE n \notin from..Len(l)
    <3>1. n = Len(m)
      BY <1>2, <1>3, <2>2
    <3>2. SubSeq(m, 1, n) = m
      BY <1>3, <3>1, WholeIs
    <3> QED BY <1>1, <3>2
  <2> QED BY <2>1, <2>2
<1> QED BY <1>1, <1>3, <1>4 DEF Kept

\* The log of an agent in turn t, with what it appended beyond from.
Going(l, from, d, c, t) == Safe(l, from, d, c) /\ At(l, t) /\ Kept(l, from, d)

LEMMA GoesOn ==
  ASSUME NEW l, NEW from, NEW t, NEW d, NEW c \in Nat, NEW e,
         Going(l, from, d, c, t), Plain(e, t, d, c), NeedsTurn(e) => Open(l).turn = t,
         EndFits(l, e, d)
  PROVE  /\ Going(Append(l, e), from, d, c, t)
         /\ Ended(e) => Open(Append(l, e)) = NothingOpen
         /\ ~Ended(e) => Open(Append(l, e)).turn = Open(l).turn
         /\ Grown(l, e, Append(l, e), Len(l))
<1>1. Safe(l, from, d, c) /\ At(l, t) /\ Kept(l, from, d) /\ e \in EventType
  BY DEF Going, Plain
<1>2. PICK m : m = Append(l, e)
  OBVIOUS
<1>3. /\ Safe(m, from, d, c) /\ At(m, t)
      /\ Ended(e) => Open(m) = NothingOpen
      /\ ~Ended(e) => Open(m).turn = Open(l).turn
  BY <1>1, <1>2, TurnAppends
<1>4. Sound(l, d, c) /\ Sound(m, d, c) /\ Closed(l, d)
  BY <1>1, <1>3, SafeIsSound, KeptIsClosed
<1>5. Closed(m, d)
  BY <1>1, <1>2, <1>4, ClosedAppend
<1>6. Kept(m, from, d)
  BY <1>1, <1>2, <1>5, KeptAppend
<1>7. Grown(l, e, m, Len(l))
  <2>1. l \in Seq(EventType)
    BY <1>1 DEF Kept
  <2> QED BY <1>1, <1>2, <2>1, AppendGrows
<1> QED BY <1>2, <1>3, <1>6, <1>7 DEF Going

\* What is known of the steps and the results stays.
LEMMA StepsStay ==
  ASSUME NEW l, NEW e, NEW m, NEW n, Grown(l, e, m, n), NEW t, NEW s
  PROVE  /\ StepsDone(l, t) /\ ~StepStarted(e) => StepsDone(m, t)
         /\ StepsBut(l, t, s) /\ (StepStarted(e) => e.step = s) => StepsBut(m, t, s)
         /\ StepsBut(l, t, s) /\ StepEnded(e) /\ e.turn = t /\ e.step = s => StepsDone(m, t)
<1>1. n + 1 \in DOMAIN m /\ m[n + 1] = e /\ n \in Nat
  BY DEF Grown
<1>2. \A i \in DOMAIN m : i # n + 1 => i \in DOMAIN l /\ m[i] = l[i] /\ i < n + 1
  BY DEF Grown
<1>3. ASSUME StepsDone(l, t), ~StepStarted(e) PROVE StepsDone(m, t)
  <2> SUFFICES ASSUME NEW i \in DOMAIN m, StepStarted(m[i]), m[i].turn = t PROVE StepEndIn(m, i)
    BY DEF StepsDone
  <2>1. i # n + 1
    BY <1>1, <1>3
  <2>2. StepEndIn(l, i)
    BY <1>2, <1>3, <2>1 DEF StepsDone
  <2> QED BY <1>2, <2>1, <2>2, EndsStay
<1>4. ASSUME StepsBut(l, t, s), StepStarted(e) => e.step = s PROVE StepsBut(m, t, s)
  <2> SUFFICES ASSUME NEW i \in DOMAIN m, StepStarted(m[i]), m[i].turn = t
               PROVE  StepEndIn(m, i) \/ m[i].step = s
    BY DEF StepsBut
  <2>1. CASE i = n + 1
    BY <1>1, <1>4, <2>1
  <2>2. CASE i # n + 1
    <3>1. StepEndIn(l, i) \/ l[i].step = s
      BY <1>2, <1>4, <2>2 DEF StepsBut
    <3> QED BY <1>2, <2>2, <3>1, EndsStay
  <2> QED BY <2>1, <2>2
<1>5. ASSUME StepsBut(l, t, s), StepEnded(e), e.turn = t, e.step = s PROVE StepsDone(m, t)
  <2> SUFFICES ASSUME NEW i \in DOMAIN m, StepStarted(m[i]), m[i].turn = t PROVE StepEndIn(m, i)
    BY DEF StepsDone
  <2>1. i # n + 1
    BY <1>1, <1>5 DEF StepStarted, StepEnded
  <2>2. StepEndIn(l, i) \/ l[i].step = s
    BY <1>2, <1>5, <2>1 DEF StepsBut
  <2>3. ASSUME l[i].step = s PROVE StepEndIn(m, i)
    BY <1>1, <1>2, <1>5, <2>1, <2>3 DEF StepEndIn
  <2> QED BY <1>2, <2>1, <2>2, <2>3, EndsStay
<1> QED BY <1>3, <1>4, <1>5

LEMMA AnsweredStay ==
  ASSUME NEW l, NEW e, NEW m, NEW n, Grown(l, e, m, n), NEW d, AllAnswered(l, d)
  PROVE  AllAnswered(m, d)
BY ResultsStay DEF AllAnswered

\* An event of the turn that starts and ends nothing.
LEMMA QuietGoesOn ==
  ASSUME NEW l, NEW from, NEW t, NEW d, NEW c \in Nat, NEW e,
         Going(l, from, d, c, t), Open(l).turn = t, Plain(e, t, d, c),
         ~Ended(e), ~StepStarted(e), ~StepEnded(e),
         e.kind = "assistant/message" \/ e.calls = <<>>
  PROVE  /\ Going(Append(l, e), from, d, c, t) /\ Open(Append(l, e)).turn = t
         /\ StepsDone(l, t) => StepsDone(Append(l, e), t)
         /\ \A s : StepsBut(l, t, s) => StepsBut(Append(l, e), t, s)
         /\ AllAnswered(l, d) => AllAnswered(Append(l, e), d)
<1>1. ~Started(e) /\ e.turn = t /\ t > 0
  BY DEF Plain, Going, At
<1>2. EndFits(l, e, d)
  BY <1>1 DEF EndFits
<1>3. /\ Going(Append(l, e), from, d, c, t) /\ Open(Append(l, e)).turn = t
      /\ Grown(l, e, Append(l, e), Len(l))
  BY <1>2, GoesOn
<1> QED BY <1>3, StepsStay, AnsweredStay

\* step/end, inside the turn or after the turn/end that came before it.
LEMMA StepEndGoesOn ==
  ASSUME phase \in BoundaryType, NEW l, NEW from, NEW d, NEW c \in Nat, NEW e, e = Event("step/end"),
         Going(l, from, d, c, phase.turn), Open(l).turn \in {0, phase.turn},
         StepsBut(l, phase.turn, phase.step)
  PROVE  /\ Going(Append(l, e), from, d, c, phase.turn) /\ Open(Append(l, e)).turn = Open(l).turn
         /\ StepsDone(Append(l, e), phase.turn)
         /\ AllAnswered(l, d) => AllAnswered(Append(l, e), d)
<1>1. Plain(e, phase.turn, d, c) /\ ~Ended(e) /\ ~NeedsTurn(e) /\ e.calls = <<>>
  BY PlainEvents
<1>2. e.kind = "step/end" /\ e.turn = phase.turn /\ e.step = phase.step
  BY DEF Event
<1>3. EndFits(l, e, d)
  BY <1>1, <1>2 DEF EndFits, Started, StepStarted, StepEnded
<1>4. /\ Going(Append(l, e), from, d, c, phase.turn)
      /\ Open(Append(l, e)).turn = Open(l).turn
      /\ Grown(l, e, Append(l, e), Len(l))
  BY <1>1, <1>3, GoesOn
<1> QED BY <1>2, <1>4, StepsStay, AnsweredStay DEF StepEnded

LEMMA TurnEndIs ==
  ASSUME phase \in BoundaryType, NEW reason
  PROVE  TurnEnd(reason).reason = reason /\ TurnEnd(reason).calls = <<>>
<1>1. PICK e, f : e = Event("turn/end") /\ f = [e EXCEPT !.reason = reason]
  OBVIOUS
<1>2. f.reason = reason /\ f.calls = e.calls /\ e.calls = <<>>
  BY <1>1 DEF Event
<1>3. TurnEnd(reason) = f
  BY <1>1 DEF TurnEnd
<1> QED BY <1>2, <1>3

\* turn/end, after the steps of the turn or for an error inside one of them.
LEMMA TurnEndGoesOn ==
  ASSUME phase \in BoundaryType, NEW l, NEW from, NEW d, NEW c \in Nat,
         NEW reason \in {"completed", "aborted", "blocked", "error"},
         NEW e, e = TurnEnd(reason),
         Going(l, from, d, c, phase.turn), Open(l).turn \in {0, phase.turn}, AllAnswered(l, d),
         reason \in {"error", "aborted"} \/ StepsDone(l, phase.turn)
  PROVE  /\ Going(Append(l, e), from, d, c, phase.turn) /\ Open(Append(l, e)).turn = 0
         /\ \A s : StepsBut(l, phase.turn, s) => StepsBut(Append(l, e), phase.turn, s)
         /\ AllAnswered(Append(l, e), d)
<1>1. Plain(e, phase.turn, d, c) /\ Ended(e) /\ ~NeedsTurn(e)
  BY PlainEvents
<1>2. e.kind = "turn/end" /\ e.turn = phase.turn /\ e.reason = reason /\ e.calls = <<>>
  BY <1>1, TurnEndIs DEF Ended, Plain
<1>3. EndFits(l, e, d)
  BY <1>2 DEF EndFits, Started, StepStarted, StepEnded, Ended
<1>4. /\ Going(Append(l, e), from, d, c, phase.turn)
      /\ Open(Append(l, e)) = NothingOpen
      /\ Grown(l, e, Append(l, e), Len(l))
  BY <1>1, <1>3, GoesOn
<1>5. Open(Append(l, e)).turn = 0
  BY <1>4 DEF NothingOpen
<1>6. ~StepStarted(e)
  BY <1>2 DEF StepStarted
<1> QED BY <1>4, <1>5, <1>6, StepsStay, AnsweredStay

LEMMA ClosesWell ==
  ASSUME phase \in BoundaryType, NEW l, NEW from, NEW d, NEW c \in Nat,
         NEW reason \in {"completed", "aborted", "blocked", "error"},
         Going(l, from, d, c, phase.turn), Open(l).turn \in {0, phase.turn}, AllAnswered(l, d),
         StepsBut(l, phase.turn, phase.step)
  PROVE  LET m == After2(l, Event("step/end"), TurnEnd(reason))
         IN  Going(m, from, d, c, phase.turn) /\ AllAnswered(m, d)
<1>1. PICK e, f, k : e = Event("step/end") /\ f = TurnEnd(reason) /\ k = Append(l, e)
  OBVIOUS
<1>2. /\ Going(k, from, d, c, phase.turn) /\ Open(k).turn \in {0, phase.turn}
      /\ StepsDone(k, phase.turn) /\ AllAnswered(k, d)
  BY <1>1, StepEndGoesOn
<1>3. Going(Append(k, f), from, d, c, phase.turn) /\ AllAnswered(Append(k, f), d)
  BY <1>1, <1>2, TurnEndGoesOn
<1> QED BY <1>1, <1>3 DEF After2

\* Another event of the turn first.
LEMMA ClosesWellAfter ==
  ASSUME phase \in BoundaryType, NEW l, NEW from, NEW d, NEW c \in Nat, NEW e,
         NEW reason \in {"completed", "aborted", "blocked", "error"},
         Going(l, from, d, c, phase.turn), Open(l).turn = phase.turn, AllAnswered(l, d),
         StepsBut(l, phase.turn, phase.step), Plain(e, phase.turn, d, c),
         ~Ended(e), ~StepStarted(e), ~StepEnded(e), e.kind = "assistant/message" \/ e.calls = <<>>
  PROVE  LET m == After3(l, e, Event("step/end"), TurnEnd(reason))
         IN  Going(m, from, d, c, phase.turn) /\ AllAnswered(m, d)
<1>1. PICK k : k = Append(l, e)
  OBVIOUS
<1>2. /\ Going(k, from, d, c, phase.turn) /\ Open(k).turn = phase.turn
      /\ StepsBut(k, phase.turn, phase.step) /\ AllAnswered(k, d)
  BY <1>1, QuietGoesOn
<1> QED BY <1>1, <1>2, ClosesWell DEF After3, After2

\* The end of the turn twice, once inside the step.
LEMMA ClosesWellTwice ==
  ASSUME phase \in BoundaryType, NEW l, NEW from, NEW d, NEW c \in Nat, NEW e,
         NEW first \in {"error", "aborted"},
         NEW reason \in {"completed", "aborted", "blocked", "error"},
         Going(l, from, d, c, phase.turn), Open(l).turn = phase.turn, AllAnswered(l, d),
         StepsBut(l, phase.turn, phase.step), Plain(e, phase.turn, d, c),
         ~Ended(e), ~StepStarted(e), ~StepEnded(e), e.kind = "assistant/message" \/ e.calls = <<>>
  PROVE  LET m == After4(l, e, TurnEnd(first), Event("step/end"), TurnEnd(reason))
         IN  Going(m, from, d, c, phase.turn) /\ AllAnswered(m, d)
<1>1. PICK k, f, j : k = Append(l, e) /\ f = TurnEnd(first) /\ j = Append(k, f)
  OBVIOUS
<1>2. /\ Going(k, from, d, c, phase.turn) /\ Open(k).turn = phase.turn
      /\ StepsBut(k, phase.turn, phase.step) /\ AllAnswered(k, d)
  BY <1>1, QuietGoesOn
<1>3. /\ Going(j, from, d, c, phase.turn) /\ Open(j).turn = 0
      /\ StepsBut(j, phase.turn, phase.step) /\ AllAnswered(j, d)
  BY <1>1, <1>2, TurnEndGoesOn
<1> QED BY <1>1, <1>3, ClosesWell DEF After4, After3, After2

-----------------------------------------------------------------------------
(* What has no end in the log is open, and what the agent is doing says     *)
(* which step that is and which calls.                                      *)

KeptLog == Kept(log, durable, dispatched)

StepsHaveEnds ==
  /\ pc \in {"message", "loop"} => StepsDone(log, phase.turn)
  /\ pc \in {"stream", "tools", "recorded", "running"} =>
       StepsBut(log, phase.turn, phase.step)

CallsHaveResults ==
  /\ pc \notin {"running", "down"} => AllAnswered(log, dispatched)
  /\ pc = "running" => \A k \in dispatched : ResultIn(log, k) \/ k = Head(todo)
  /\ pc = "recorded" => Has(Open(log).pending, Head(todo))

HaveEnds == KeptLog /\ StepsHaveEnds /\ CallsHaveResults

LEMMA InTurnGoing ==
  ASSUME IInv, HaveEnds, InTurnAt
  PROVE  /\ Going(log, Len(log), dispatched, calls, phase.turn) /\ Open(log).turn = phase.turn
         /\ phase \in BoundaryType /\ calls \in Nat /\ log \in Seq(EventType)
<1>1. Closed(log, dispatched)
  BY KeptIsClosed DEF HaveEnds, KeptLog
<1>2. log \in Seq(EventType)
  BY InTurn
<1> QED BY <1>1, <1>2, InTurn, KeptNow DEF Going

LEMMA InTurnGoingMore ==
  ASSUME IInv, HaveEnds, InTurnAt, NEW n \in Nat, calls + n <= MaxCalls,
         NEW e, e = AssistantMessage(Asked(n))
  PROVE  /\ calls + n \in Nat /\ Going(log, Len(log), dispatched, calls + n, phase.turn)
         /\ Plain(e, phase.turn, dispatched, calls + n) /\ e \in EventType
         /\ ~Ended(e) /\ ~StepStarted(e) /\ ~StepEnded(e) /\ e.kind = "assistant/message"
<1>1. PICK c, ids : c = calls + n /\ ids = Asked(n)
  OBVIOUS
<1>2. /\ c \in Nat /\ Safe(log, Len(log), dispatched, c) /\ ids \in Seq(Ids)
      /\ \A i \in DOMAIN ids : ids[i] \in 1..c \ dispatched
  BY <1>1, InTurnMore
<1>3. Plain(e, phase.turn, dispatched, c) /\ phase \in BoundaryType
  <2>1. phase \in BoundaryType /\ e = AssistantMessage(ids)
    BY <1>1, InTurn
  <2> QED BY <1>2, <2>1, MessageIsPlain
<1>4. e.kind = "assistant/message"
  <2>1. PICK f, g : f = Event("assistant/message") /\ g = [f EXCEPT !.calls = ids]
    OBVIOUS
  <2>2. g.kind = "assistant/message"
    BY <2>1 DEF Event
  <2>3. e = g
    BY <1>1, <2>1 DEF AssistantMessage
  <2> QED BY <2>2, <2>3
<1>5. Going(log, Len(log), dispatched, c, phase.turn)
  BY <1>2, InTurnGoing DEF Going
<1> QED BY <1>1, <1>2, <1>3, <1>4, <1>5 DEF Plain, Ended, StepStarted, StepEnded

\* The end of a turn, whatever brought it about.
LEMMA TurnIsOverWell ==
  ASSUME NEW c, Going(log', durable', dispatched', c, phase.turn), AllAnswered(log', dispatched'),
         pc' = "idle"
  PROVE  HaveEnds'
BY DEF Going, HaveEnds, KeptLog, StepsHaveEnds, CallsHaveResults

LEMMA ClaimHasEnds == IInv /\ HaveEnds /\ ClaimMessage => HaveEnds'
<1> SUFFICES ASSUME IInv, HaveEnds, ClaimMessage PROVE HaveEnds'
  OBVIOUS
<1>1. InTurnAt /\ pc = "message" /\ UNCHANGED <<phase, dispatched>>
  BY DEF ClaimMessage, InTurnAt
<1>2. /\ Going(log, Len(log), dispatched, calls, phase.turn) /\ Open(log).turn = phase.turn
      /\ phase \in BoundaryType /\ calls \in Nat /\ log \in Seq(EventType)
  BY <1>1, InTurnGoing
<1>3. StepsDone(log, phase.turn) /\ AllAnswered(log, dispatched)
  BY <1>1 DEF HaveEnds, StepsHaveEnds, CallsHaveResults
<1>4. CASE Append2Log(<<Event("user/message")>>) /\ pc' = "loop"
  <2>1. PICK e : e = Event("user/message")
    OBVIOUS
  <2>2. /\ Plain(e, phase.turn, dispatched, calls) /\ ~Ended(e) /\ e.calls = <<>> /\ e \in EventType
        /\ ~StepStarted(e) /\ ~StepEnded(e)
    <3>1. e.kind = "user/message"
      BY <2>1 DEF Event
    <3> QED BY <1>2, <2>1, <3>1, PlainEvents DEF Plain, StepStarted, StepEnded
  <2>3. log' = Append(log, e) /\ durable' = Len(log)
    BY <1>2, <1>4, <2>1, <2>2, ConcatOne DEF Append2Log, Plus
  <2>4. /\ Going(log', durable', dispatched, calls, phase.turn)
        /\ StepsDone(log', phase.turn) /\ AllAnswered(log', dispatched)
    BY <1>2, <1>3, <2>2, <2>3, QuietGoesOn
  <2> QED BY <1>1, <1>4, <2>4 DEF Going, HaveEnds, KeptLog, StepsHaveEnds, CallsHaveResults
<1>5. CASE Append2Log(<<TurnEnd("blocked")>>) /\ pc' = "idle"
  <2>1. PICK e : e = TurnEnd("blocked")
    OBVIOUS
  <2>2. e \in EventType
    BY <1>2, <2>1, PlainEvents DEF Plain
  <2>3. log' = Append(log, e) /\ durable' = Len(log)
    BY <1>2, <1>5, <2>1, <2>2, ConcatOne DEF Append2Log, Plus
  <2>4. Going(log', durable', dispatched, calls, phase.turn) /\ AllAnswered(log', dispatched)
    BY <1>2, <1>3, <2>1, <2>3, TurnEndGoesOn
  <2> QED BY <1>1, <1>5, <2>4, TurnIsOverWell
<1> QED BY <1>4, <1>5 DEF ClaimMessage

LEMMA AbortHasEnds == IInv /\ HaveEnds /\ LoopAborts => HaveEnds'
<1> SUFFICES ASSUME IInv, HaveEnds, LoopAborts PROVE HaveEnds'
  OBVIOUS
<1>1. InTurnAt /\ pc = "loop" /\ pc' = "idle" /\ UNCHANGED <<phase, dispatched>>
  BY DEF LoopAborts, InTurnAt
<1>2. /\ Going(log, Len(log), dispatched, calls, phase.turn) /\ Open(log).turn = phase.turn
      /\ phase \in BoundaryType /\ calls \in Nat /\ log \in Seq(EventType)
  BY <1>1, InTurnGoing
<1>3. AllAnswered(log, dispatched)
  BY <1>1 DEF HaveEnds, CallsHaveResults
<1>4. PICK e : e = TurnEnd("aborted")
  OBVIOUS
<1>5. e \in EventType
  BY <1>2, <1>4, PlainEvents DEF Plain
<1>6. log' = Append(log, e) /\ durable' = Len(log)
  BY <1>2, <1>4, <1>5, ConcatOne DEF LoopAborts, Append2Log, Plus
<1>7. Going(log', durable', dispatched, calls, phase.turn) /\ AllAnswered(log', dispatched)
  BY <1>2, <1>3, <1>4, <1>6, TurnEndGoesOn
<1> QED BY <1>1, <1>7, TurnIsOverWell

LEMMA StartHasEnds == IInv /\ HaveEnds /\ StartStep => HaveEnds'
<1> SUFFICES ASSUME IInv, HaveEnds, StartStep PROVE HaveEnds'
  OBVIOUS
<1>1. /\ InTurnAt /\ pc = "loop" /\ pc' = "stream" /\ UNCHANGED dispatched
      /\ phase' = [phase EXCEPT !.step = phase.step + 1]
  BY DEF StartStep, InTurnAt
<1>2. /\ Going(log, Len(log), dispatched, calls, phase.turn) /\ Open(log).turn = phase.turn
      /\ phase \in BoundaryType /\ calls \in Nat /\ log \in Seq(EventType)
  BY <1>1, InTurnGoing
<1>3. StepsDone(log, phase.turn) /\ AllAnswered(log, dispatched)
  BY <1>1 DEF HaveEnds, StepsHaveEnds, CallsHaveResults
<1>4. PICK e, f, step : /\ step = phase.step + 1 /\ f = Event("step/start")
                        /\ e = [f EXCEPT !.step = step]
  OBVIOUS
<1>5. step \in Nat /\ step > 0 /\ phase'.turn = phase.turn /\ phase'.step = step
  BY <1>1, <1>2, <1>4 DEF BoundaryType
<1>6. Plain(e, phase.turn, dispatched, calls) /\ ~Ended(e) /\ e.calls = <<>> /\ e \in EventType
  <2>1. e = [Event("step/start") EXCEPT !.step = step]
    BY <1>4
  <2>2. Plain(e, phase.turn, dispatched, calls) /\ ~Ended(e) /\ e.calls = <<>>
    BY <1>2, <1>5, <2>1, StepStartIsPlain
  <2> QED BY <2>2 DEF Plain
<1>7. e.kind = "step/start" /\ e.step = step /\ e.turn = phase.turn
  <2>1. f.kind = "step/start" /\ f = [kind |-> f.kind, turn |-> f.turn, step |-> f.step,
            calls |-> f.calls, call |-> f.call, form |-> f.form, reason |-> f.reason]
    BY <1>4 DEF Event
  <2> QED BY <1>4, <1>6, <2>1 DEF Plain
<1>8. log' = Append(log, e) /\ durable' = Len(log)
  <2>1. Append2Log(<<e>>)
    BY <1>4 DEF StartStep
  <2> QED BY <1>2, <1>6, <2>1, ConcatOne DEF Append2Log, Plus
<1>9. EndFits(log, e, dispatched)
  <2>1. ~Started(e) /\ ~StepEnded(e) /\ ~Ended(e)
    BY <1>7 DEF Started, StepEnded, Ended
  <2>2. e.turn = Open(log).turn /\ e.turn > 0
    BY <1>2, <1>7 DEF Going, At
  <2>3. e.step > 0 /\ StepsDone(log, e.turn)
    BY <1>3, <1>5, <1>7
  <2> QED BY <1>6, <2>1, <2>2, <2>3 DEF EndFits
<1>10. /\ Going(log', durable', dispatched, calls, phase.turn)
       /\ Grown(log, e, log', Len(log))
  BY <1>2, <1>6, <1>8, <1>9, GoesOn
<1>11. StepsBut(log', phase.turn, step) /\ AllAnswered(log', dispatched)
  <2>1. StepsBut(log, phase.turn, step)
    BY <1>3 DEF StepsDone, StepsBut
  <2> QED BY <1>3, <1>7, <1>10, <2>1, StepsStay, AnsweredStay
<1> QED BY <1>1, <1>5, <1>10, <1>11 DEF Going, HaveEnds, KeptLog, StepsHaveEnds, CallsHaveResults

\* What the actions of a step that streams start from.
LEMMA Streaming ==
  ASSUME IInv, HaveEnds, pc = "stream"
  PROVE  /\ Going(log, Len(log), dispatched, calls, phase.turn) /\ Open(log).turn = phase.turn
         /\ phase \in BoundaryType /\ calls \in Nat /\ log \in Seq(EventType) /\ InTurnAt
         /\ StepsBut(log, phase.turn, phase.step) /\ AllAnswered(log, dispatched)
<1>1. InTurnAt
  BY DEF InTurnAt
<1> QED BY <1>1, InTurnGoing DEF HaveEnds, StepsHaveEnds, CallsHaveResults

LEMMA AttemptIs ==
  ASSUME phase \in BoundaryType, NEW d, NEW c \in Nat, NEW e, e = Event("assistant/attempt")
  PROVE  /\ Plain(e, phase.turn, d, c) /\ e \in EventType /\ e.calls = <<>>
         /\ ~Ended(e) /\ ~StepStarted(e) /\ ~StepEnded(e)
<1>1. e.kind = "assistant/attempt"
  BY DEF Event
<1> QED BY <1>1, PlainEvents DEF Plain, StepStarted, StepEnded

LEMMA FailHasEnds == IInv /\ HaveEnds /\ StreamFails => HaveEnds'
<1> SUFFICES ASSUME IInv, HaveEnds, StreamFails PROVE HaveEnds'
  OBVIOUS
<1>1. pc = "stream" /\ UNCHANGED <<phase, dispatched>>
  BY DEF StreamFails
<1>2. /\ Going(log, Len(log), dispatched, calls, phase.turn) /\ Open(log).turn = phase.turn
      /\ phase \in BoundaryType /\ calls \in Nat /\ log \in Seq(EventType)
      /\ StepsBut(log, phase.turn, phase.step) /\ AllAnswered(log, dispatched)
  BY <1>1, Streaming
<1>3. PICK e, f, g : e = Event("assistant/attempt") /\ f = Event("step/end") /\ g = TurnEnd("error")
  OBVIOUS
<1>4. /\ Plain(e, phase.turn, dispatched, calls) /\ e \in EventType /\ e.calls = <<>>
      /\ ~Ended(e) /\ ~StepStarted(e) /\ ~StepEnded(e)
  BY <1>2, <1>3, AttemptIs
<1>5. f \in EventType /\ g \in EventType
  BY <1>2, <1>3, PlainEvents DEF Plain
<1>6. CASE Append2Log(<<e>> \o StepEnds) /\ pc' = "loop"
  <2>1. PICK k : k = Append(log, e)
    OBVIOUS
  <2>2. log' = Append(k, f) /\ durable' = Len(log)
    <3>1. StepEnds = <<f>>
      BY <1>3 DEF StepEnds
    <3> QED BY <1>2, <1>4, <1>5, <1>6, <2>1, <3>1, ConcatTwo DEF Append2Log, Plus, After2
  <2>3. /\ Going(k, Len(log), dispatched, calls, phase.turn) /\ Open(k).turn = phase.turn
        /\ StepsBut(k, phase.turn, phase.step) /\ AllAnswered(k, dispatched)
    BY <1>2, <1>4, <2>1, QuietGoesOn
  <2>4. /\ Going(log', durable', dispatched, calls, phase.turn)
        /\ StepsDone(log', phase.turn) /\ AllAnswered(log', dispatched)
    BY <1>2, <1>3, <2>2, <2>3, StepEndGoesOn
  <2> QED BY <1>1, <1>6, <2>4 DEF Going, HaveEnds, KeptLog, StepsHaveEnds, CallsHaveResults
<1>7. CASE Append2Log(<<e, g>> \o TurnEnds("error")) /\ pc' = "idle"
  <2>1. log' = After4(log, e, g, f, g) /\ durable' = Len(log)
    <3>1. TurnEnds("error") = <<f>> \o <<g>>
      BY <1>3 DEF StepEnds, TurnEnds
    <3>2. Plus(log, <<e, g>> \o (<<f>> \o <<g>>)) = After4(log, e, g, f, g)
      BY <1>2, <1>4, <1>5, ConcatFour, Zenon
    <3> QED BY <1>7, <3>1, <3>2 DEF Append2Log, Plus
  <2>2. Going(log', durable', dispatched, calls, phase.turn) /\ AllAnswered(log', dispatched)
    BY <1>2, <1>3, <1>4, <2>1, ClosesWellTwice
  <2> QED BY <1>1, <1>7, <2>2, TurnIsOverWell
<1> QED BY <1>3, <1>6, <1>7 DEF StreamFails

LEMMA AbortedHasEnds == IInv /\ HaveEnds /\ StreamAborted => HaveEnds'
<1> SUFFICES ASSUME IInv, HaveEnds, StreamAborted PROVE HaveEnds'
  OBVIOUS
<1>1. pc = "stream" /\ pc' = "idle" /\ UNCHANGED <<phase, dispatched>>
  BY DEF StreamAborted
<1>2. /\ Going(log, Len(log), dispatched, calls, phase.turn) /\ Open(log).turn = phase.turn
      /\ phase \in BoundaryType /\ calls \in Nat /\ log \in Seq(EventType) /\ InTurnAt
      /\ StepsBut(log, phase.turn, phase.step) /\ AllAnswered(log, dispatched)
  BY <1>1, Streaming
<1>3. PICK f, g, h : f = Event("step/end") /\ g = TurnEnd("completed") /\ h = TurnEnd("aborted")
  OBVIOUS
<1>4. f \in EventType /\ g \in EventType /\ h \in EventType
  BY <1>2, <1>3, PlainEvents DEF Plain
<1>5. TurnEnds("completed") = <<f>> \o <<g>>
  BY <1>3 DEF StepEnds, TurnEnds
<1>6. CASE Append2Log(<<Event("assistant/attempt")>> \o TurnEnds("completed"))
  <2>1. PICK e : e = Event("assistant/attempt")
    OBVIOUS
  <2>2. /\ Plain(e, phase.turn, dispatched, calls) /\ e \in EventType /\ e.calls = <<>>
        /\ ~Ended(e) /\ ~StepStarted(e) /\ ~StepEnded(e)
    BY <1>2, <2>1, AttemptIs
  <2>3. log' = After3(log, e, f, g) /\ durable' = Len(log)
    BY <1>2, <1>4, <1>5, <1>6, <2>1, <2>2, ConcatThree DEF Append2Log, Plus
  <2>4. Going(log', durable', dispatched, calls, phase.turn) /\ AllAnswered(log', dispatched)
    BY <1>2, <1>3, <2>2, <2>3, ClosesWellAfter
  <2> QED BY <1>1, <2>4, TurnIsOverWell
<1>7. ASSUME NEW n \in 0..2, calls + n <= MaxCalls,
             Append2Log(<<AssistantMessage(Asked(n)), TurnEnd("aborted")>> \o TurnEnds("completed"))
      PROVE  HaveEnds'
  <2>1. PICK e, c : e = AssistantMessage(Asked(n)) /\ c = calls + n
    OBVIOUS
  <2>2. /\ c \in Nat /\ Going(log, Len(log), dispatched, c, phase.turn)
        /\ Plain(e, phase.turn, dispatched, c) /\ e \in EventType
        /\ ~Ended(e) /\ ~StepStarted(e) /\ ~StepEnded(e) /\ e.kind = "assistant/message"
    BY <1>2, <1>7, <2>1, InTurnGoingMore
  <2>3. log' = After4(log, e, h, f, g) /\ durable' = Len(log)
    <3>1. Plus(log, <<e, h>> \o (<<f>> \o <<g>>)) = After4(log, e, h, f, g)
      BY <1>2, <1>4, <2>2, ConcatFour, Zenon
    <3> QED BY <1>3, <1>5, <1>7, <2>1, <3>1 DEF Append2Log, Plus
  <2>4. Going(log', durable', dispatched, c, phase.turn) /\ AllAnswered(log', dispatched)
    BY <1>2, <1>3, <2>2, <2>3, ClosesWellTwice
  <2> QED BY <1>1, <2>4, TurnIsOverWell
<1> QED BY <1>6, <1>7 DEF StreamAborted

LEMMA LimitHasEnds == IInv /\ HaveEnds /\ StreamHitsLimit => HaveEnds'
<1> SUFFICES ASSUME IInv, HaveEnds, StreamHitsLimit PROVE HaveEnds'
  OBVIOUS
<1>1. pc = "stream" /\ pc' = "idle" /\ UNCHANGED <<phase, dispatched>>
  BY DEF StreamHitsLimit
<1>2. /\ Going(log, Len(log), dispatched, calls, phase.turn) /\ Open(log).turn = phase.turn
      /\ phase \in BoundaryType /\ calls \in Nat /\ log \in Seq(EventType) /\ InTurnAt
      /\ StepsBut(log, phase.turn, phase.step) /\ AllAnswered(log, dispatched)
  BY <1>1, Streaming
<1>3. PICK f, g : f = Event("step/end") /\ g = TurnEnd("completed")
  OBVIOUS
<1>4. f \in EventType /\ g \in EventType
  BY <1>2, <1>3, PlainEvents DEF Plain
<1>5. TurnEnds("completed") = <<f>> \o <<g>>
  BY <1>3 DEF StepEnds, TurnEnds
<1>6. ASSUME NEW n \in 0..2, calls + n <= MaxCalls,
             Append2Log(<<AssistantMessage(Asked(n))>> \o TurnEnds("completed"))
      PROVE  HaveEnds'
  <2>1. PICK e, c : e = AssistantMessage(Asked(n)) /\ c = calls + n
    OBVIOUS
  <2>2. /\ c \in Nat /\ Going(log, Len(log), dispatched, c, phase.turn)
        /\ Plain(e, phase.turn, dispatched, c) /\ e \in EventType
        /\ ~Ended(e) /\ ~StepStarted(e) /\ ~StepEnded(e) /\ e.kind = "assistant/message"
    BY <1>2, <1>6, <2>1, InTurnGoingMore
  <2>3. log' = After3(log, e, f, g) /\ durable' = Len(log)
    BY <1>2, <1>4, <1>5, <1>6, <2>1, <2>2, ConcatThree DEF Append2Log, Plus
  <2>4. Going(log', durable', dispatched, c, phase.turn) /\ AllAnswered(log', dispatched)
    BY <1>2, <1>3, <2>2, <2>3, ClosesWellAfter
  <2> QED BY <1>1, <2>4, TurnIsOverWell
<1> QED BY <1>6 DEF StreamHitsLimit

LEMMA AnswerHasEnds == IInv /\ HaveEnds /\ StreamAnswers => HaveEnds'
<1> SUFFICES ASSUME IInv, HaveEnds, StreamAnswers PROVE HaveEnds'
  OBVIOUS
<1>1. pc = "stream" /\ pc' = "idle" /\ UNCHANGED <<phase, dispatched>>
  BY DEF StreamAnswers
<1>2. /\ Going(log, Len(log), dispatched, calls, phase.turn) /\ Open(log).turn = phase.turn
      /\ phase \in BoundaryType /\ calls \in Nat /\ log \in Seq(EventType) /\ InTurnAt
      /\ StepsBut(log, phase.turn, phase.step) /\ AllAnswered(log, dispatched)
  BY <1>1, Streaming
<1>3. PICK f, g : f = Event("step/end") /\ g = TurnEnd("completed")
  OBVIOUS
<1>4. f \in EventType /\ g \in EventType
  BY <1>2, <1>3, PlainEvents DEF Plain
<1>5. TurnEnds("completed") = <<f>> \o <<g>>
  BY <1>3 DEF StepEnds, TurnEnds
<1>6. CASE Append2Log(<<AssistantMessage(<<>>)>> \o TurnEnds("completed"))
  <2>1. PICK e, none : none = <<>> /\ e = AssistantMessage(none)
    OBVIOUS
  <2>2. none \in Seq(Ids) /\ \A i \in DOMAIN none : none[i] \in 1..calls \ dispatched
    BY <2>1
  <2>3. Plain(e, phase.turn, dispatched, calls) /\ e.calls = <<>>
    BY <1>2, <2>1, <2>2, MessageIsPlain
  <2>4. e \in EventType /\ ~Ended(e) /\ ~StepStarted(e) /\ ~StepEnded(e)
    <3>1. PICK x, y : x = Event("assistant/message") /\ y = [x EXCEPT !.calls = none]
      OBVIOUS
    <3>2. y.kind = "assistant/message"
      BY <3>1 DEF Event
    <3>3. e = y
      BY <2>1, <3>1 DEF AssistantMessage
    <3> QED BY <2>3, <3>2, <3>3 DEF Plain, Ended, StepStarted, StepEnded
  <2>5. log' = After3(log, e, f, g) /\ durable' = Len(log)
    BY <1>2, <1>4, <1>5, <1>6, <2>1, <2>4, ConcatThree DEF Append2Log, Plus
  <2>6. Going(log', durable', dispatched, calls, phase.turn) /\ AllAnswered(log', dispatched)
    BY <1>2, <1>3, <2>3, <2>4, <2>5, ClosesWellAfter
  <2> QED BY <1>1, <2>6, TurnIsOverWell
<1>7. CASE Append2Log(TurnEnds("completed"))
  <2>1. log' = After2(log, f, g) /\ durable' = Len(log)
    BY <1>2, <1>4, <1>5, <1>7, ConcatTwo DEF Append2Log, Plus
  <2>2. Going(log', durable', dispatched, calls, phase.turn) /\ AllAnswered(log', dispatched)
    BY <1>2, <1>3, <2>1, ClosesWell
  <2> QED BY <1>1, <2>2, TurnIsOverWell
<1> QED BY <1>6, <1>7 DEF StreamAnswers

LEMMA AskHasEnds == IInv /\ HaveEnds /\ StreamAsksTools => HaveEnds'
<1> SUFFICES ASSUME IInv, HaveEnds, StreamAsksTools PROVE HaveEnds'
  OBVIOUS
<1>1. pc = "stream" /\ pc' = "tools" /\ UNCHANGED <<phase, dispatched>>
  BY DEF StreamAsksTools
<1>2. /\ log \in Seq(EventType) /\ InTurnAt /\ Open(log).turn = phase.turn
      /\ StepsBut(log, phase.turn, phase.step) /\ AllAnswered(log, dispatched)
  BY <1>1, Streaming
<1>3. PICK n \in 1..2 : calls + n <= MaxCalls /\ Append2Log(<<AssistantMessage(Asked(n))>>)
  BY DEF StreamAsksTools
<1>4. PICK e, c : e = AssistantMessage(Asked(n)) /\ c = calls + n
  OBVIOUS
<1>5. /\ c \in Nat /\ Going(log, Len(log), dispatched, c, phase.turn)
      /\ Plain(e, phase.turn, dispatched, c) /\ e \in EventType
      /\ ~Ended(e) /\ ~StepStarted(e) /\ ~StepEnded(e) /\ e.kind = "assistant/message"
  BY <1>2, <1>3, <1>4, InTurnGoingMore
<1>6. log' = Append(log, e) /\ durable' = Len(log)
  BY <1>2, <1>3, <1>4, <1>5, ConcatOne DEF Append2Log, Plus
<1>7. /\ Going(log', durable', dispatched, c, phase.turn)
      /\ StepsBut(log', phase.turn, phase.step) /\ AllAnswered(log', dispatched)
  BY <1>2, <1>5, <1>6, QuietGoesOn
<1> QED BY <1>1, <1>7 DEF Going, HaveEnds, KeptLog, StepsHaveEnds, CallsHaveResults

\* What the events of a call are, and the log they are added to.
LEMMA Running ==
  ASSUME IInv, HaveEnds, pc \in {"tools", "recorded", "running"}, todo # <<>>,
         NEW id, id = Head(todo), NEW e, e = ToolCall(id), NEW f, f = ToolResult(id)
  PROVE  /\ Going(log, Len(log), dispatched, calls, phase.turn) /\ Open(log).turn = phase.turn
         /\ calls \in Nat /\ log \in Seq(EventType) /\ id \in Ids
         /\ StepsBut(log, phase.turn, phase.step)
         /\ Plain(e, phase.turn, dispatched, calls) /\ e \in EventType /\ e.calls = <<>>
         /\ e.kind = "tool/call" /\ e.call = id
         /\ ~Ended(e) /\ ~StepStarted(e) /\ ~StepEnded(e)
         /\ Plain(f, phase.turn, dispatched, calls) /\ f \in EventType /\ f.calls = <<>>
         /\ f.kind = "tool/result" /\ f.call = id
         /\ ~Ended(f) /\ ~StepStarted(f) /\ ~StepEnded(f)
<1>1. InTurnAt /\ HasTools
  BY DEF InTurnAt, HasTools
<1>2. todo \in Seq(Ids)
  BY DEF IInv, TypeOK
<1>3. id \in Ids /\ 1 \in DOMAIN todo /\ id = todo[1]
  BY <1>2
<1>4. id \in 1..calls
  BY <1>1, <1>3 DEF IInv, CallsAreNew
<1>5. /\ Going(log, Len(log), dispatched, calls, phase.turn) /\ Open(log).turn = phase.turn
      /\ phase \in BoundaryType /\ calls \in Nat /\ log \in Seq(EventType)
  BY <1>1, InTurnGoing
<1>6. StepsBut(log, phase.turn, phase.step)
  BY DEF HaveEnds, StepsHaveEnds
<1>7. /\ Plain(e, phase.turn, dispatched, calls) /\ e.kind = "tool/call" /\ e.call = id
      /\ Plain(f, phase.turn, dispatched, calls) /\ f.kind = "tool/result" /\ f.call = id
      /\ e.calls = <<>> /\ f.calls = <<>>
  BY <1>3, <1>4, <1>5, ToolEventsArePlain
<1> QED BY <1>3, <1>5, <1>6, <1>7 DEF Plain, Ended, StepStarted, StepEnded

\* tool/call makes the call one of the pending ones.
LEMMA RecordHasEnds == IInv /\ HaveEnds /\ RecordCall => HaveEnds'
<1> SUFFICES ASSUME IInv, HaveEnds, RecordCall PROVE HaveEnds'
  OBVIOUS
<1>1. /\ pc = "tools" /\ pc' = "recorded" /\ todo # <<>> /\ UNCHANGED <<phase, dispatched, todo, calls>>
      /\ Append2Log(<<ToolCall(Head(todo))>>)
  BY DEF RecordCall
<1>2. PICK id, e : id = Head(todo) /\ e = ToolCall(id)
  OBVIOUS
<1>3. /\ Going(log, Len(log), dispatched, calls, phase.turn) /\ Open(log).turn = phase.turn
      /\ calls \in Nat /\ log \in Seq(EventType) /\ StepsBut(log, phase.turn, phase.step)
      /\ Plain(e, phase.turn, dispatched, calls) /\ e \in EventType /\ e.calls = <<>>
      /\ e.kind = "tool/call" /\ e.call = id
      /\ ~Ended(e) /\ ~StepStarted(e) /\ ~StepEnded(e)
  BY <1>1, <1>2, Running
<1>4. AllAnswered(log, dispatched)
  BY <1>1 DEF HaveEnds, CallsHaveResults
<1>5. log' = Append(log, e) /\ durable' = Len(log)
  BY <1>1, <1>2, <1>3, ConcatOne DEF Append2Log, Plus
<1>6. /\ Going(log', durable', dispatched, calls, phase.turn)
      /\ StepsBut(log', phase.turn, phase.step) /\ AllAnswered(log', dispatched)
  BY <1>3, <1>4, <1>5, QuietGoesOn
<1>7. Has(Open(log').pending, id)
  <2>1. PICK o, o2, b, b2 : /\ o = Open(log) /\ o2 = Open(log')
                            /\ b = Boundary(log) /\ b2 = Boundary(log')
    OBVIOUS
  <2>2. OpenOK(o, b, dispatched, calls) /\ b \in Nat /\ OpenOK(o2, b2, dispatched, calls) /\ b2 \in Nat
    <3>1. Sound(log, dispatched, calls) /\ Sound(log', dispatched, calls)
      BY <1>3, <1>6, SafeIsSound DEF Going
    <3> QED BY <2>1, <3>1 DEF Sound, Boundary, BoundaryType
  <2>3. PICK t, s, ps, t2, s2, ps2 : /\ t = o.turn /\ s = o.step /\ ps = o.pending
                                     /\ t2 = o2.turn /\ s2 = o2.step /\ ps2 = o2.pending
    OBVIOUS
  <2>4. o = OpenOf(t, s, ps) /\ o2 = OpenOf(t2, s2, ps2) /\ Parts(t, s, ps, b, dispatched, calls)
    BY <2>2, <2>3, OpenParts
  <2>5. PICK P : P = Askable(b, dispatched, calls) /\ ps \in Seq(P)
    BY <2>4 DEF Parts
  <2>6. ScanEvent(OpenOf(t, s, ps), e) = OpenOf(t2, s2, ps2)
    BY <1>3, <1>5, <2>1, <2>4, OpenAppends
  <2> QED BY <1>3, <2>1, <2>3, <2>5, <2>6, OpenMoves
<1> QED BY <1>1, <1>2, <1>6, <1>7 DEF Going, HaveEnds, KeptLog, StepsHaveEnds, CallsHaveResults

LEMMA DispatchHasEnds == IInv /\ HaveEnds /\ Dispatch => HaveEnds'
<1> SUFFICES ASSUME IInv, HaveEnds, Dispatch PROVE HaveEnds'
  OBVIOUS
<1>1. /\ pc = "recorded" /\ pc' = "running" /\ UNCHANGED <<log, phase, todo>> /\ durable' = Len(log)
  BY DEF Dispatch
<1>2. PICK id, d2 : id = Head(todo) /\ d2 = dispatched \cup {id}
  OBVIOUS
<1>3. dispatched' = d2
  BY <1>2 DEF Dispatch
<1>4. /\ Closed(log, dispatched) /\ log \in Seq(EventType)
      /\ AllAnswered(log, dispatched) /\ Has(Open(log).pending, id)
      /\ StepsBut(log, phase.turn, phase.step)
  <2>1. Closed(log, dispatched) /\ log \in Seq(EventType)
    BY KeptIsClosed DEF HaveEnds, KeptLog, Kept
  <2> QED BY <1>1, <1>2, <2>1 DEF HaveEnds, StepsHaveEnds, CallsHaveResults
<1>5. Closed(log, d2)
  BY <1>2, <1>4 DEF Closed, CallsClosed
<1>6. Kept(log, Len(log), d2)
  BY <1>4, <1>5, KeptNow
<1>7. \A k \in d2 : ResultIn(log, k) \/ k = id
  BY <1>2, <1>4 DEF AllAnswered
<1>8. KeptLog'
  BY <1>1, <1>3, <1>6 DEF KeptLog
<1> QED BY <1>1, <1>2, <1>3, <1>4, <1>7, <1>8 DEF HaveEnds, StepsHaveEnds, CallsHaveResults

\* The result of the running call.
LEMMA ResultAppends ==
  ASSUME IInv, HaveEnds, pc = "running", todo # <<>>, Append2Log(<<ToolResult(Head(todo))>>)
  PROVE  /\ Going(log', durable', dispatched, calls, phase.turn)
         /\ StepsBut(log', phase.turn, phase.step) /\ AllAnswered(log', dispatched)
<1>2. PICK id, e : id = Head(todo) /\ e = ToolResult(id)
  OBVIOUS
<1>3. /\ Going(log, Len(log), dispatched, calls, phase.turn) /\ Open(log).turn = phase.turn
      /\ calls \in Nat /\ log \in Seq(EventType) /\ StepsBut(log, phase.turn, phase.step)
      /\ Plain(e, phase.turn, dispatched, calls) /\ e \in EventType /\ e.calls = <<>>
      /\ e.kind = "tool/result" /\ e.call = id
      /\ ~Ended(e) /\ ~StepStarted(e) /\ ~StepEnded(e)
  BY <1>2, Running
<1>4. \A k \in dispatched : ResultIn(log, k) \/ k = id
  BY <1>2 DEF HaveEnds, CallsHaveResults
<1>5. log' = Append(log, e) /\ durable' = Len(log)
  BY <1>2, <1>3, ConcatOne DEF Append2Log, Plus
<1>6. /\ Going(log', durable', dispatched, calls, phase.turn)
      /\ StepsBut(log', phase.turn, phase.step)
  BY <1>3, <1>5, QuietGoesOn
<1>7. AllAnswered(log', dispatched)
  <2>1. Grown(log, e, log', Len(log))
    BY <1>3, <1>5, AppendGrows
  <2>2. ASSUME NEW k \in dispatched PROVE ResultIn(log', k)
    BY <1>3, <1>4, <2>1, ResultsStay
  <2> QED BY <2>2 DEF AllAnswered
<1> QED BY <1>6, <1>7

LEMMA ReturnHasEnds == IInv /\ HaveEnds /\ ToolReturns => HaveEnds'
<1> SUFFICES ASSUME IInv, HaveEnds, ToolReturns PROVE HaveEnds'
  OBVIOUS
<1>1. /\ pc = "running" /\ pc' = "tools" /\ UNCHANGED <<phase, dispatched>> /\ todo # <<>>
      /\ Append2Log(<<ToolResult(Head(todo))>>)
  BY DEF ToolReturns, IInv, CallsAreNew
<1>2. /\ Going(log', durable', dispatched, calls, phase.turn)
      /\ StepsBut(log', phase.turn, phase.step) /\ AllAnswered(log', dispatched)
  BY <1>1, ResultAppends
<1> QED BY <1>1, <1>2 DEF Going, HaveEnds, KeptLog, StepsHaveEnds, CallsHaveResults

LEMMA ErrHasEnds == IInv /\ HaveEnds /\ ToolErrs => HaveEnds'
<1> SUFFICES ASSUME IInv, HaveEnds, ToolErrs PROVE HaveEnds'
  OBVIOUS
<1>1. /\ pc = "running" /\ pc' = "down" /\ UNCHANGED <<phase, dispatched>> /\ todo # <<>>
      /\ Append2Log(<<ToolResult(Head(todo))>>)
  BY DEF ToolErrs, IInv, CallsAreNew
<1>2. Going(log', durable', dispatched, calls, phase.turn)
  BY <1>1, ResultAppends
<1> QED BY <1>1, <1>2 DEF Going, HaveEnds, KeptLog, StepsHaveEnds, CallsHaveResults

LEMMA DoneHasEnds == IInv /\ HaveEnds /\ ToolsDone => HaveEnds'
<1> SUFFICES ASSUME IInv, HaveEnds, ToolsDone PROVE HaveEnds'
  OBVIOUS
<1>1. InTurnAt /\ pc = "tools" /\ UNCHANGED <<phase, dispatched>>
  BY DEF ToolsDone, InTurnAt
<1>2. /\ Going(log, Len(log), dispatched, calls, phase.turn) /\ Open(log).turn = phase.turn
      /\ phase \in BoundaryType /\ calls \in Nat /\ log \in Seq(EventType)
  BY <1>1, InTurnGoing
<1>3. StepsBut(log, phase.turn, phase.step) /\ AllAnswered(log, dispatched)
  BY <1>1 DEF HaveEnds, StepsHaveEnds, CallsHaveResults
<1>4. PICK f, g : f = Event("step/end") /\ g = TurnEnd("completed")
  OBVIOUS
<1>5. f \in EventType /\ g \in EventType
  BY <1>2, <1>4, PlainEvents DEF Plain
<1>6. CASE concluded
  <2>1. Append2Log(<<f>> \o <<g>>) /\ pc' = "idle"
    BY <1>4, <1>6 DEF ToolsDone, TurnEnds, StepEnds
  <2>2. log' = After2(log, f, g) /\ durable' = Len(log)
    BY <1>2, <1>5, <2>1, ConcatTwo DEF Append2Log, Plus
  <2>3. Going(log', durable', dispatched, calls, phase.turn) /\ AllAnswered(log', dispatched)
    BY <1>2, <1>3, <1>4, <2>2, ClosesWell
  <2> QED BY <1>1, <2>1, <2>3, TurnIsOverWell
<1>7. CASE ~concluded
  <2>1. Append2Log(<<f>>) /\ pc' = "loop"
    BY <1>4, <1>7 DEF ToolsDone, StepEnds
  <2>2. log' = Append(log, f) /\ durable' = Len(log)
    BY <1>2, <1>5, <2>1, ConcatOne DEF Append2Log, Plus
  <2>3. /\ Going(log', durable', dispatched, calls, phase.turn)
        /\ StepsDone(log', phase.turn) /\ AllAnswered(log', dispatched)
    BY <1>2, <1>3, <1>4, <2>2, StepEndGoesOn
  <2> QED BY <1>1, <2>1, <2>3 DEF Going, HaveEnds, KeptLog, StepsHaveEnds, CallsHaveResults
<1> QED BY <1>6, <1>7

LEMMA CancelHasEnds == IInv /\ HaveEnds /\ Cancel => HaveEnds'
BY DEF HaveEnds, Cancel, KeptLog, StepsHaveEnds, CallsHaveResults

LEMMA CrashHasEnds == IInv /\ HaveEnds /\ Crash => HaveEnds'
<1> SUFFICES ASSUME IInv, HaveEnds, Crash PROVE HaveEnds'
  OBVIOUS
<1>1. PICK n \in durable..Len(log) : log' = SubSeq(log, 1, n) /\ durable' = n
  BY DEF Crash
<1>2. pc' = "down" /\ UNCHANGED dispatched
  BY DEF Crash
<1>3. log \in Seq(EventType) /\ durable \in 0..Len(log)
  BY DEF IInv, TypeOK
<1>4. Closed(log', dispatched)
  BY <1>1 DEF HaveEnds, KeptLog, Kept
<1>5. Len(log') = n /\ log' \in Seq(EventType)
  BY <1>1, <1>3
<1>6. Kept(log', durable', dispatched)
  BY <1>1, <1>4, <1>5, KeptNow
<1> QED BY <1>2, <1>6 DEF HaveEnds, KeptLog, StepsHaveEnds, CallsHaveResults

LEMMA PromptHasEnds == IInv /\ HaveEnds /\ Prompt => HaveEnds'
<1> SUFFICES ASSUME IInv, HaveEnds, Prompt PROVE HaveEnds'
  OBVIOUS
<1>1. /\ pc = "idle" /\ pc' = "message" /\ phase' = [turn |-> phase.turn + 1, step |-> 0]
      /\ UNCHANGED <<dispatched, calls>>
  BY DEF Prompt
<1>2. /\ log \in Seq(EventType) /\ Open(log) = NothingOpen /\ calls \in Nat
      /\ phase \in BoundaryType /\ TurnsUpto(log, phase.turn)
      /\ Sound(log, dispatched, calls)
  BY <1>1, AgentAssumption, SafeIsSound
     DEF IInv, TypeOK, SafeLog, TurnIsOpen, CountsAhead, BoundaryType
<1>3. PICK t, g, g1, e : /\ t = phase.turn + 1 /\ g = Event("turn/start")
                         /\ g1 = [g EXCEPT !.turn = t] /\ e = [g1 EXCEPT !.step = 0]
  OBVIOUS
<1>4. t \in Nat /\ t > 0 /\ phase'.turn = t /\ \A i \in DOMAIN log : log[i].turn < t
  BY <1>1, <1>2, <1>3 DEF BoundaryType, TurnsUpto
<1>5. e \in EventType /\ e.kind = "turn/start" /\ e.turn = t /\ e.calls = <<>>
  <2>1. g \in EventType /\ g.kind = "turn/start" /\ g.calls = <<>>
    BY <1>2, <1>3, EventIs DEF Kinds
  <2>2. g1 \in EventType /\ g1.kind = "turn/start" /\ g1.turn = t /\ g1.calls = <<>>
    BY <1>3, <1>4, <2>1 DEF EventType
  <2>3. 0 \in Nat
    OBVIOUS
  <2> QED BY <1>3, <2>2, <2>3 DEF EventType
<1>6. log' = Append(log, e) /\ durable' = Len(log)
  <2>1. [g EXCEPT !.turn = t, !.step = 0] = e
    BY <1>2, <1>3, EventIs DEF Kinds, EventType
  <2>2. Append2Log(<<e>>)
    BY <1>3, <2>1 DEF Prompt
  <2> QED BY <1>2, <1>5, <2>2, ConcatOne DEF Append2Log, Plus
<1>7. EndFits(log, e, dispatched)
  BY <1>2, <1>4, <1>5 DEF EndFits, Started, StepStarted, StepEnded, Ended
<1>8. Sound(log', dispatched, calls) /\ Closed(log, dispatched)
  <2>1. IInv'
    BY PromptKeeps
  <2> QED BY <1>1, <2>1, SafeIsSound, KeptIsClosed DEF IInv, SafeLog, HaveEnds, KeptLog
<1>9. Kept(log', durable', dispatched)
  <2>1. Closed(log', dispatched)
    BY <1>2, <1>5, <1>6, <1>7, <1>8, ClosedAppend
  <2>2. Kept(log, Len(log), dispatched)
    BY <1>2, <1>8, KeptNow
  <2> QED BY <1>5, <1>6, <2>1, <2>2, KeptAppend
<1>10. Grown(log, e, log', Len(log))
  BY <1>2, <1>5, <1>6, AppendGrows
<1>11. StepsDone(log', t)
  <2>1. StepsDone(log, t)
    BY <1>2, <1>4 DEF StepsDone, TurnsUpto, BoundaryType
  <2> QED BY <1>5, <1>10, <2>1, StepsStay DEF StepStarted
<1>12. AllAnswered(log', dispatched)
  BY <1>1, <1>10, AnsweredStay DEF HaveEnds, CallsHaveResults
<1> QED BY <1>1, <1>4, <1>9, <1>11, <1>12 DEF HaveEnds, KeptLog, StepsHaveEnds, CallsHaveResults

-----------------------------------------------------------------------------
(* Resume: the repair ends what the scan has open, and nothing else lacks   *)
(* its end.                                                                 *)

\* Of the turn's calls and the dispatched ones, only those of ids wait for a
\* result.
Waiting(l, d, t, ids) ==
  /\ \A k \in d : ResultIn(l, k) \/ k \in ids
  /\ \A i \in DOMAIN l : l[i].turn = t => \A k \in ToSet(l[i].calls) : ResultIn(l, k) \/ k \in ids

LEMMA WaitingStays ==
  ASSUME NEW l, NEW e, NEW m, NEW n, Grown(l, e, m, n), e.calls = <<>>,
         NEW d, NEW t, NEW ids, Waiting(l, d, t, ids)
  PROVE  Waiting(m, d, t, ids)
<1>1. \A k \in d : ResultIn(m, k) \/ k \in ids
  BY ResultsStay DEF Waiting
<1>2. ASSUME NEW i \in DOMAIN m, m[i].turn = t, NEW k \in ToSet(m[i].calls)
      PROVE  ResultIn(m, k) \/ k \in ids
  <2>1. ToSet(e.calls) = {}
    BY DEF ToSet
  <2>2. i # n + 1
    BY <1>2, <2>1 DEF Grown
  <2>3. i \in DOMAIN l /\ m[i] = l[i]
    BY <2>2 DEF Grown
  <2> QED BY <1>2, <2>3, ResultsStay DEF Waiting
<1> QED BY <1>1, <1>2 DEF Waiting

\* In the open turn, the step that lacks its end is the open one and the calls
\* that lack a result are the pending ones.
LEMMA OpenLacks ==
  ASSUME NEW l, NEW d, NEW c, Sound(l, d, c), Closed(l, d),
         NEW t, NEW s, t = Open(l).turn, s = Open(l).step, t > 0
  PROVE  /\ StepsBut(l, t, s) /\ (s = 0 => StepsDone(l, t))
         /\ Waiting(l, d, t, {Open(l).pending[i].id : i \in DOMAIN Open(l).pending})
<1>1. PICK ps : ps = Open(l).pending
  OBVIOUS
<1>2. StepsClosed(l, t, s) /\ CallsClosed(l, d, t, ps)
  BY <1>1 DEF Closed
<1>3. \A i \in DOMAIN l : Ended(l[i]) => l[i].turn # t
  BY DEF Sound, OpenRuns
<1>4. ASSUME NEW i \in DOMAIN l, StepStarted(l[i]), l[i].turn = t
      PROVE  StepEndIn(l, i) \/ (l[i].step = s /\ s > 0)
  <2>1. ~CutIn(l, i)
    BY <1>3, <1>4 DEF CutIn
  <2> QED BY <1>2, <1>4, <2>1 DEF StepsClosed
<1>5. StepsBut(l, t, s)
  BY <1>4 DEF StepsBut
<1>6. ASSUME s = 0 PROVE StepsDone(l, t)
  BY <1>4, <1>6 DEF StepsDone
<1>7. ASSUME NEW k PROVE Has(ps, k) => k \in {ps[i].id : i \in DOMAIN ps}
  BY DEF Has
<1>8. \A k \in d : ResultIn(l, k) \/ k \in {ps[i].id : i \in DOMAIN ps}
  BY <1>2, <1>7 DEF CallsClosed
<1>9. ASSUME NEW i \in DOMAIN l, l[i].turn = t, NEW k \in ToSet(l[i].calls)
      PROVE  ResultIn(l, k) \/ k \in {ps[n].id : n \in DOMAIN ps}
  <2>1. ~OwnEndIn(l, i)
    BY <1>3, <1>9 DEF OwnEndIn
  <2>2. ResultIn(l, k) \/ Has(ps, k)
    BY <1>2, <1>9, <2>1 DEF CallsClosed
  <2> QED BY <1>7, <2>2
<1>10. Waiting(l, d, t, {ps[i].id : i \in DOMAIN ps})
  BY <1>8, <1>9 DEF Waiting
<1> QED BY <1>1, <1>5, <1>6, <1>10

\* A log in the middle of its repair.
Mending(l, from, d, c, b, t, s, ids) ==
  /\ Safe(l, from, d, c) /\ Kept(l, from, d)
  /\ Boundary(l) = b /\ Open(l).turn = t /\ Open(l).step = s
  /\ Waiting(l, d, t, ids)

LEMMA CloserMends ==
  ASSUME NEW l, NEW from, NEW d, NEW c \in Nat, NEW b, NEW t, NEW s, NEW ids, NEW e, t > 0,
         Mending(l, from, d, c, b, t, s, ids), Closes(e, b, d, c), e.turn = t, e.calls = <<>>
  PROVE  /\ Mending(Append(l, e), from, d, c, b, t, s, ids)
         /\ Grown(l, e, Append(l, e), Len(l))
<1>1. PICK m, n : m = Append(l, e) /\ n = Len(l)
  OBVIOUS
<1>2. /\ Safe(l, from, d, c) /\ Kept(l, from, d)
      /\ Boundary(l) = b /\ Open(l).turn = t /\ Open(l).step = s /\ Waiting(l, d, t, ids)
  BY DEF Mending
<1>3. Safe(m, from, d, c) /\ Open(m).turn = t /\ Boundary(m) = b
  BY <1>1, <1>2, CloserAppends
<1>4. Sound(l, d, c) /\ Sound(m, d, c) /\ Closed(l, d) /\ l \in Seq(EventType) /\ e \in EventType
  BY <1>2, <1>3, SafeIsSound, KeptIsClosed DEF Safe, Closes
<1>5. e.kind = "tool/result" /\ ~Started(e) /\ ~StepStarted(e) /\ ~StepEnded(e) /\ ~Ended(e)
  BY DEF Closes, Started, StepStarted, StepEnded, Ended
<1>6. EndFits(l, e, d)
  BY <1>2, <1>5 DEF EndFits
<1>7. Kept(m, from, d)
  <2>1. Closed(m, d)
    BY <1>1, <1>4, <1>6, ClosedAppend
  <2> QED BY <1>1, <1>2, <1>4, <2>1, KeptAppend
<1>8. Grown(l, e, m, n)
  BY <1>1, <1>4, AppendGrows
<1>9. Open(m).step = s
  <2>1. PICK o, o2, b2 : o = Open(l) /\ o2 = Open(m) /\ b2 = Boundary(m)
    OBVIOUS
  <2>2. OpenOK(o, b, d, c) /\ b \in Nat /\ OpenOK(o2, b2, d, c) /\ b2 \in Nat
    BY <1>2, <1>4, <2>1 DEF Sound, Boundary, BoundaryType
  <2>3. PICK t1, s1, ps, t2, s2, ps2 : /\ t1 = o.turn /\ s1 = o.step /\ ps = o.pending
                                       /\ t2 = o2.turn /\ s2 = o2.step /\ ps2 = o2.pending
    OBVIOUS
  <2>4. o = OpenOf(t1, s1, ps) /\ o2 = OpenOf(t2, s2, ps2) /\ Parts(t1, s1, ps, b, d, c)
    BY <2>2, <2>3, OpenParts
  <2>5. PICK P : P = Askable(b, d, c) /\ ps \in Seq(P)
    BY <2>4 DEF Parts
  <2>6. ScanEvent(OpenOf(t1, s1, ps), e) = OpenOf(t2, s2, ps2)
    BY <1>1, <1>4, <2>1, <2>4, OpenAppends
  <2>7. s2 = s1
    BY <1>4, <1>5, <2>5, <2>6, OpenMoves
  <2> QED BY <1>2, <2>1, <2>3, <2>7
<1>10. Waiting(m, d, t, ids)
  BY <1>2, <1>8, WaitingStays
<1> QED BY <1>1, <1>3, <1>7, <1>8, <1>9, <1>10 DEF Mending

LEMMA ClosersMend ==
  ASSUME NEW l, NEW from, NEW d, NEW c \in Nat, NEW b, NEW t, NEW s, NEW ids, t > 0,
         NEW rs \in Seq(EventType), Mending(l, from, d, c, b, t, s, ids),
         \A i \in DOMAIN rs : Closes(rs[i], b, d, c) /\ rs[i].turn = t /\ rs[i].calls = <<>>
  PROVE  /\ Mending(Plus(l, rs), from, d, c, b, t, s, ids)
         /\ \A i \in DOMAIN rs : ResultIn(Plus(l, rs), rs[i].call)
<1> DEFINE m(k) == Plus(l, SubSeq(rs, 1, k))
           In(x, k) == /\ Mending(x, from, d, c, b, t, s, ids)
                       /\ \A i \in DOMAIN rs : i <= k => ResultIn(x, rs[i].call)
           Good == {k \in Nat : k <= Len(rs) => In(m(k), k)}
<1>1. l \in Seq(EventType) /\ Len(rs) \in Nat /\ DOMAIN rs = 1..Len(rs)
  BY DEF Mending, Safe
<1>2. m(0) = l
  BY <1>1 DEF Plus
<1>3. ASSUME NEW k \in Nat, k + 1 <= Len(rs) PROVE m(k + 1) = Append(m(k), rs[k + 1])
  <2>1. SubSeq(rs, 1, k + 1) = Append(SubSeq(rs, 1, k), rs[k + 1])
    BY <1>3
  <2>2. SubSeq(rs, 1, k) \in Seq(EventType) /\ rs[k + 1] \in EventType
    BY <1>3
  <2>3. \A x \in Seq(EventType), e \in EventType : l \o Append(x, e) = Append(l \o x, e)
    BY <1>1
  <2> QED BY <2>1, <2>2, <2>3 DEF Plus
<1>4. m(Len(rs)) = Plus(l, rs)
  BY WholeIs
<1> HIDE DEF m, In
<1>5. 0 \in Good
  BY <1>1, <1>2 DEF In
<1>6. ASSUME NEW k \in Nat, k \in Good PROVE k + 1 \in Good
  <2>1. SUFFICES ASSUME k + 1 <= Len(rs) PROVE In(m(k + 1), k + 1)
    OBVIOUS
  <2>2. In(m(k), k) /\ k + 1 \in DOMAIN rs
    BY <1>1, <1>6, <2>1
  <2>3. PICK e, x, y : e = rs[k + 1] /\ x = m(k) /\ y = Append(x, e)
    OBVIOUS
  <2>4. /\ Closes(e, b, d, c) /\ e.turn = t /\ e.calls = <<>>
        /\ Mending(x, from, d, c, b, t, s, ids)
        /\ \A i \in DOMAIN rs : i <= k => ResultIn(x, rs[i].call)
    BY <2>2, <2>3 DEF In
  <2>5. Mending(y, from, d, c, b, t, s, ids) /\ Grown(x, e, y, Len(x))
    BY <2>3, <2>4, CloserMends
  <2>6. ASSUME NEW i \in DOMAIN rs, i <= k + 1 PROVE ResultIn(y, rs[i].call)
    <3>1. CASE i <= k
      BY <2>4, <2>5, <3>1, ResultsStay
    <3>2. CASE i = k + 1
      <4>1. rs[i] = e /\ e.kind = "tool/result"
        BY <2>3, <2>4, <3>2 DEF Closes
      <4> QED BY <2>5, <4>1, ResultsStay
    <3> QED BY <1>1, <2>6, <3>1, <3>2
  <2>7. In(y, k + 1)
    BY <2>5, <2>6 DEF In
  <2> QED BY <1>3, <2>1, <2>3, <2>7
<1> HIDE DEF Good
<1>7. Len(rs) \in Good
  BY <1>1, <1>5, <1>6, NaturalsIn
<1>8. In(Plus(l, rs), Len(rs))
  BY <1>1, <1>4, <1>7 DEF Good
<1> QED BY <1>1, <1>8 DEF In

LEMMA RepairKeepsEnds ==
  ASSUME NEW l, NEW d, NEW c \in Nat, Sound(l, d, c), Closed(l, d),
         NEW m, m = l \o InterruptedTurnClosers(l)
  PROVE  Kept(m, Len(l), d)
<1>1. PICK o, b, from : o = Open(l) /\ b = Boundary(l) /\ from = Len(l)
  OBVIOUS
<1>2. /\ l \in Seq(EventType) /\ OpenOK(o, b, d, c) /\ b \in Nat
      /\ Safe(l, from, d, c) /\ Kept(l, from, d)
  BY <1>1, SafeNow, KeptNow DEF Sound, Boundary, BoundaryType
<1>3. PICK t, s, ps : t = o.turn /\ s = o.step /\ ps = o.pending
  OBVIOUS
<1>4. o = OpenOf(t, s, ps) /\ Parts(t, s, ps, b, d, c)
  BY <1>2, <1>3, OpenParts
<1>5. PICK rs, x, y :
        /\ rs = [i \in DOMAIN o.pending |-> ResultOf(o.pending[i])]
        /\ x = IF o.step > 0 THEN <<Repair("step/end", o.turn, o.step, 0, "none", "none")>>
               ELSE <<>>
        /\ y = IF o.turn > 0 THEN <<Repair("turn/end", o.turn, 0, 0, "none", "interrupted")>>
               ELSE <<>>
        /\ InterruptedTurnClosers(l) = Plus(Plus(rs, x), y)
  <2>1. IsRepair(InterruptedTurnClosers(l), o)
    BY <1>1, ClosersAre
  <2> QED BY <2>1 DEF IsRepair
<1>6. CASE t = 0
  <2>1. s = 0 /\ ps = <<>>
    BY <1>4, <1>6 DEF Parts
  <2>2. rs = <<>> /\ x = <<>> /\ y = <<>>
    <3>1. DOMAIN o.pending = {}
      BY <1>3, <2>1
    <3>2. rs = [i \in {} |-> ResultOf(o.pending[i])]
      BY <1>5, <3>1
    <3>3. rs = <<>>
      BY <3>2
    <3> QED BY <1>3, <1>5, <1>6, <2>1, <3>3
  <2>3. m = l
    <3>1. (<<>> \o <<>>) \o <<>> = <<>> /\ l \o <<>> = l
      BY <1>2
    <3>2. m = l \o ((<<>> \o <<>>) \o <<>>)
      BY <1>5, <2>2, Zenon DEF Plus
    <3> QED BY <3>1, <3>2, Zenon
  <2> QED BY <1>1, <1>2, <2>3
<1>7. CASE t # 0
  <2>1. t \in 1..b /\ s \in Nat /\ t > 0
    BY <1>4, <1>7 DEF Parts
  <2>2. PICK T : T = Askable(b, d, c)
    OBVIOUS
  <2>3. PICK k \in Nat : DOMAIN ps = 1..k /\ \A i \in 1..k : ps[i] \in T
    <3>1. ps \in Seq(T)
      BY <1>4, <2>2 DEF Parts
    <3> QED BY <3>1
  <2>4. \A i \in 1..k : Closes(ResultOf(ps[i]), b, d, c)
    BY <1>2, <2>2, <2>3, ResultCloses
  <2>5. rs = [i \in 1..k |-> ResultOf(ps[i])]
    BY <1>3, <1>5, <2>3
  <2>6. /\ rs \in Seq(EventType) /\ DOMAIN rs = 1..k
        /\ \A i \in DOMAIN rs : Closes(rs[i], b, d, c)
    <3>1. \A i \in 1..k : ResultOf(ps[i]) \in EventType
      BY <2>4 DEF Closes
    <3> QED BY <2>4, <2>5, <3>1
  <2>7. ASSUME NEW i \in DOMAIN rs
        PROVE  rs[i].turn = t /\ rs[i].calls = <<>> /\ rs[i].call = ps[i].id
    <3>1. rs[i] = ResultOf(ps[i])
      BY <2>5, <2>6
    <3>2. ps[i].turn = t
      BY <1>1, <1>3, <2>3, <2>6 DEF Closed, CallsClosed
    <3> QED BY <3>1, <3>2 DEF ResultOf, Repair
  <2>8. PICK ids : ids = {ps[i].id : i \in DOMAIN ps}
    OBVIOUS
  <2>9. Mending(l, from, d, c, b, t, s, ids)
    <3>1. Waiting(l, d, t, ids)
      BY <1>1, <1>3, <2>1, <2>8, OpenLacks
    <3> QED BY <1>1, <1>2, <1>3, <3>1 DEF Mending
  <2>10. PICK p : p = Plus(l, rs)
    OBVIOUS
  <2>11. /\ Mending(p, from, d, c, b, t, s, ids)
         /\ \A i \in DOMAIN rs : ResultIn(p, rs[i].call)
    <3>1. \A i \in DOMAIN rs : Closes(rs[i], b, d, c) /\ rs[i].turn = t /\ rs[i].calls = <<>>
      BY <2>6, <2>7
    <3>2. rs \in Seq(EventType) /\ t > 0
      BY <2>1, <2>6
    <3> QED BY <2>9, <2>10, <3>1, <3>2, ClosersMend
  <2>12. Waiting(p, d, t, {})
    <3>1. \A id \in ids : ResultIn(p, id)
      BY <2>3, <2>6, <2>7, <2>8, <2>11
    <3> QED BY <2>11, <3>1 DEF Mending, Waiting
  <2>13. Sound(p, d, c) /\ Closed(p, d) /\ p \in Seq(EventType)
    BY <2>11, SafeIsSound, KeptIsClosed DEF Mending, Safe
  <2>14. StepsBut(p, t, s) /\ (s = 0 => StepsDone(p, t))
    BY <2>1, <2>11, <2>13, OpenLacks DEF Mending
  <2>15. PICK e, f : /\ e = Repair("step/end", t, s, 0, "none", "none")
                     /\ f = Repair("turn/end", t, 0, 0, "none", "interrupted")
    OBVIOUS
  <2>16. /\ e \in EventType /\ e.kind = "step/end" /\ e.turn = t /\ e.step = s
         /\ e.calls = <<>> /\ e.reason = "none" /\ e.form = "none"
         /\ f \in EventType /\ f.kind = "turn/end" /\ f.turn = t /\ f.calls = <<>>
         /\ f.reason = "interrupted" /\ f.form = "none"
    BY <2>1, <2>15 DEF Repair, EventType
  <2>17. PICK q : q = Plus(p, x)
    OBVIOUS
  <2>18. x \in Seq(EventType) /\ y \in Seq(EventType) /\ y = <<f>>
    BY <1>3, <1>5, <2>1, <2>15, <2>16
  <2>19. /\ Safe(q, from, d, c) /\ Kept(q, from, d) /\ Open(q).turn = t
         /\ StepsDone(q, t) /\ Waiting(q, d, t, {})
    <3>1. CASE s = 0
      <4>1. x = <<>>
        BY <1>3, <1>5, <3>1
      <4>2. q = p
        BY <2>13, <2>17, <4>1 DEF Plus
      <4> QED BY <2>11, <2>12, <2>14, <3>1, <4>2 DEF Mending
    <3>2. CASE s # 0
      <4>1. x = <<e>>
        BY <1>3, <1>5, <2>1, <2>15, <3>2
      <4>2. q = Append(p, e)
        BY <2>13, <2>16, <2>17, <4>1, ConcatOne
      <4>3. /\ Safe(p, from, d, c) /\ Kept(p, from, d) /\ Open(p).turn = t /\ Boundary(p) = b
        BY <2>11 DEF Mending
      <4>4. LogFits(p, e, d, c)
        BY <2>1, <2>16, <4>3 DEF LogFits, Started, Ended
      <4>5. Safe(q, from, d, c) /\ Sound(q, d, c)
        BY <4>2, <4>3, <4>4, FitAppends, SafeIsSound
      <4>6. EndFits(p, e, d)
        BY <2>14, <2>16, <4>3 DEF EndFits, Started, StepStarted, StepEnded, Ended
      <4>7. Kept(q, from, d)
        <5>1. Closed(q, d)
          BY <2>13, <2>16, <4>2, <4>5, <4>6, ClosedAppend
        <5> QED BY <2>16, <4>2, <4>3, <5>1, KeptAppend
      <4>8. Grown(p, e, q, Len(p))
        BY <2>13, <2>16, <4>2, AppendGrows
      <4>9. StepsDone(q, t)
        BY <2>14, <2>16, <4>8, StepsStay DEF StepEnded
      <4>10. Waiting(q, d, t, {})
        BY <2>12, <2>16, <4>8, WaitingStays
      <4>11. Open(q).turn = t
        <5>1. PICK o1, o2, b2 : o1 = Open(p) /\ o2 = Open(q) /\ b2 = Boundary(q)
          OBVIOUS
        <5>2. OpenOK(o1, b, d, c) /\ OpenOK(o2, b2, d, c) /\ b2 \in Nat
          BY <2>13, <4>3, <4>5, <5>1 DEF Sound, Boundary, BoundaryType
        <5>3. PICK t1, s1, ps1, t2, s2, ps2 : /\ t1 = o1.turn /\ s1 = o1.step /\ ps1 = o1.pending
                                              /\ t2 = o2.turn /\ s2 = o2.step /\ ps2 = o2.pending
          OBVIOUS
        <5>4. o1 = OpenOf(t1, s1, ps1) /\ o2 = OpenOf(t2, s2, ps2) /\ Parts(t1, s1, ps1, b, d, c)
          BY <1>2, <5>2, <5>3, OpenParts
        <5>5. PICK P : P = Askable(b, d, c) /\ ps1 \in Seq(P)
          BY <5>4 DEF Parts
        <5>6. ScanEvent(OpenOf(t1, s1, ps1), e) = OpenOf(t2, s2, ps2)
          BY <2>13, <2>16, <4>2, <5>1, <5>4, OpenAppends
        <5>7. t2 = t1
          BY <2>16, <5>5, <5>6, OpenMoves DEF Started, Ended
        <5> QED BY <4>3, <5>1, <5>3, <5>7
      <4> QED BY <4>5, <4>7, <4>9, <4>10, <4>11
    <3> QED BY <3>1, <3>2
  <2>20. m = Append(q, f) /\ q \in Seq(EventType)
    <3>1. q \in Seq(EventType)
      BY <2>19 DEF Safe
    <3>2. m = Plus(Plus(Plus(l, rs), x), y)
      <4>1. m = Plus(l, Plus(Plus(rs, x), y))
        BY <1>5, Zenon DEF Plus
      <4>2. Plus(l, Plus(Plus(rs, x), y)) = Plus(Plus(Plus(l, rs), x), y)
        <5>1. l \in Seq(EventType) /\ rs \in Seq(EventType) /\ x \in Seq(EventType) /\ y \in Seq(EventType)
          BY <1>2, <2>6, <2>18
        <5> QED BY <5>1, PlusGroups
      <4> QED BY <4>1, <4>2, Zenon
    <3>3. m = Plus(q, <<f>>)
      BY <2>10, <2>17, <2>18, <3>2
    <3> QED BY <2>16, <3>1, <3>3, ConcatOne
  <2>21. EndFits(q, f, d)
    <3>1. AllAnswered(q, d) /\ TurnAnsweredIn(q, t)
      BY <2>19 DEF Waiting, AllAnswered, TurnAnsweredIn
    <3> QED BY <2>16, <2>19, <3>1 DEF EndFits, Started, StepStarted, StepEnded, Ended
  <2>22. Sound(q, d, c) /\ Sound(m, d, c) /\ Closed(q, d)
    <3>1. Safe(m, from, d, c)
      BY <1>1, RepairCloses
    <3> QED BY <2>19, <3>1, SafeIsSound, KeptIsClosed
  <2>23. Closed(m, d)
    BY <2>16, <2>20, <2>21, <2>22, ClosedAppend
  <2>24. Kept(m, from, d)
    BY <2>16, <2>19, <2>20, <2>23, KeptAppend
  <2> QED BY <1>1, <2>24
<1> QED BY <1>6, <1>7

LEMMA ResumeHasEnds == IInv /\ HaveEnds /\ Resume => HaveEnds'
<1> SUFFICES ASSUME IInv, HaveEnds, Resume PROVE HaveEnds'
  OBVIOUS
<1>1. /\ pc' = "idle" /\ UNCHANGED dispatched
      /\ log' = log \o InterruptedTurnClosers(log) /\ durable' = Len(log)
  BY DEF Resume, Append2Log
<1>2. Sound(log, dispatched, calls) /\ calls \in Nat /\ Closed(log, dispatched)
  BY SafeIsSound, KeptIsClosed, AgentAssumption DEF IInv, SafeLog, TypeOK, HaveEnds, KeptLog
<1>3. Kept(log', durable', dispatched) /\ Open(log') = NothingOpen
  BY <1>1, <1>2, RepairKeepsEnds, RepairCloses
<1>4. AllAnswered(log', dispatched)
  <2>1. CallsClosed(log', dispatched, Open(log').turn, Open(log').pending)
    BY <1>3, KeptIsClosed DEF Closed
  <2>2. Open(log').pending = <<>>
    BY <1>3 DEF NothingOpen
  <2>3. ASSUME NEW k, NEW ps, ps = <<>> PROVE ~Has(ps, k)
    BY <2>3 DEF Has
  <2> QED BY <2>1, <2>2, <2>3 DEF CallsClosed, AllAnswered
<1> QED BY <1>1, <1>3, <1>4 DEF HaveEnds, KeptLog, StepsHaveEnds, CallsHaveResults

LEMMA InitHasEnds == Init => HaveEnds
<1> SUFFICES ASSUME Init PROVE HaveEnds
  OBVIOUS
<1>1. /\ log = <<>> /\ durable = 0 /\ DOMAIN log = {} /\ Len(log) = 0 /\ log \in Seq(EventType)
      /\ dispatched = {} /\ pc = "idle"
  BY DEF Init
<1>2. Open(log).pending = <<>>
  BY <1>1, OpenOfNothing DEF NothingOpen
<1>3. ASSUME NEW ps, ps = <<>> PROVE DOMAIN ps = {}
  BY <1>3
<1>4. Closed(log, dispatched)
  BY <1>1, <1>2, <1>3 DEF Closed, TurnsClosed, StepsClosed, CallsClosed
<1>5. Kept(log, durable, dispatched)
  BY <1>1, <1>4, KeptNow
<1> QED BY <1>1, <1>5 DEF HaveEnds, KeptLog, StepsHaveEnds, CallsHaveResults, AllAnswered

LEMMA StepKeepsEnds == IInv /\ HaveEnds /\ [Next]_vars => HaveEnds'
<1> SUFFICES ASSUME IInv, HaveEnds, [Next]_vars PROVE HaveEnds'
  OBVIOUS
<1>1. CASE UNCHANGED vars
  BY <1>1 DEF vars, HaveEnds, KeptLog, StepsHaveEnds, CallsHaveResults
<1>2. CASE Prompt
  BY <1>2, PromptHasEnds
<1>3. CASE AgentStep
  BY <1>3, ClaimHasEnds, AbortHasEnds, StartHasEnds, FailHasEnds, AbortedHasEnds, LimitHasEnds,
     AnswerHasEnds, AskHasEnds, RecordHasEnds, DispatchHasEnds, ReturnHasEnds, ErrHasEnds,
     DoneHasEnds DEF AgentStep
<1>4. CASE Cancel
  BY <1>4, CancelHasEnds
<1>5. CASE Crash
  BY <1>5, CrashHasEnds
<1>6. CASE Resume
  BY <1>6, ResumeHasEnds
<1> QED BY <1>1, <1>2, <1>3, <1>4, <1>5, <1>6 DEF Next

LEMMA AlwaysHaveEnds == Spec => [](IInv /\ HaveEnds)
BY InitIsIInv, StepKeepsIInv, InitHasEnds, StepKeepsEnds, PTL DEF Spec

-----------------------------------------------------------------------------
LEMMA IInvIsSound ==
  ASSUME IInv
  PROVE  Sound(log, dispatched, calls)
BY SafeIsSound DEF IInv, SafeLog

\* The log's events, the agent's phase and its calls have their types, and
\* what is known to be in the file never exceeds the log.
THEOREM TurnTypeCorrect == Spec => []TypeOK
<1>1. IInv => TypeOK
  BY DEF IInv
<1> QED BY <1>1, AlwaysIInv, PTL

\* The end that the repair gives a turn is the only one the turn has.
THEOREM RepairEndsOnce == Spec => []RepairEndsOpenTurns
<1>1. ASSUME IInv PROVE RepairEndsOpenTurns
  <2>1. EndsOnce(log)
    BY <1>1, IInvIsSound DEF Sound
  <2> QED BY <2>1 DEF RepairEndsOpenTurns, EndsOnce, Interrupted, Ended
<1> QED BY <1>1, AlwaysIInv, PTL

\* Between turns the log of an agent has an end for every turn, for every step
\* but those that the end of their turn cut short, and a result for every call
\* that was dispatched or whose turn the repair ended: judged by the events,
\* whatever the repair's scan takes for open.
THEOREM RepairLeavesNothingOpen == Spec => []EverythingEnds
<1>1. ASSUME IInv, HaveEnds PROVE EverythingEnds
  <2> SUFFICES ASSUME pc = "idle" PROVE TurnsEnd /\ StepsEnd /\ CallsEnd
    BY DEF EverythingEnds
  <2>1. Closed(log, dispatched) /\ AllAnswered(log, dispatched)
    BY <1>1, KeptIsClosed DEF HaveEnds, KeptLog, CallsHaveResults
  <2>2. Open(log) = NothingOpen
    BY <1>1 DEF IInv, TurnIsOpen
  <2>3. Open(log).turn = 0 /\ Open(log).step = 0 /\ Open(log).pending = <<>>
    BY <2>2 DEF NothingOpen
  <2>4. \A i \in DOMAIN log : log[i].turn # 0
    BY <1>1, IInvIsSound DEF Sound, TurnsUpto
  <2>5. TurnsEnd
    <3> SUFFICES ASSUME NEW i \in DOMAIN log, log[i].kind = "turn/start" PROVE TurnEndsLater(i)
      BY DEF TurnsEnd
    <3>1. TurnEndIn(log, i)
      BY <2>1, <2>3, <2>4 DEF Closed, TurnsClosed, Started
    <3> QED BY <3>1 DEF TurnEndIn, TurnEndsLater, Ended
  <2>6. StepsEnd
    <3> SUFFICES ASSUME NEW i \in DOMAIN log, log[i].kind = "step/start"
                 PROVE  StepEndsLater(i) \/ CutShort(i)
      BY DEF StepsEnd
    <3>1. StepEndIn(log, i) \/ CutIn(log, i)
      BY <2>1, <2>3, <2>4 DEF Closed, StepsClosed, StepStarted
    <3> QED BY <3>1 DEF StepEndIn, CutIn, StepEndsLater, CutShort, StepEnded, Ended
  <2>7. CallsEnd
    <3>1. ASSUME NEW k \in dispatched PROVE Answered(k)
      BY <2>1, <3>1 DEF AllAnswered, ResultIn, Answered
    <3>2. ASSUME NEW i \in DOMAIN log, NEW k \in ToSet(log[i].calls)
          PROVE  Answered(k) \/ EndsOnItsOwn(i)
      <4>1. ResultIn(log, k) \/ OwnEndIn(log, i)
        BY <2>1, <2>3, <2>4, <3>2 DEF Closed, CallsClosed
      <4> QED BY <4>1 DEF ResultIn, OwnEndIn, Answered, EndsOnItsOwn, Ended
    <3> QED BY <3>1, <3>2 DEF CallsEnd
  <2> QED BY <2>5, <2>6, <2>7
<1> QED BY <1>1, AlwaysHaveEnds, PTL

\* From one turn/start of the log to the next the turn number grows, by at
\* most one more than there are turn/ends between them (turnBoundaryFrom).
THEOREM TurnsAreNumberedOn == Spec => []TurnNumbersIncrease
<1>1. ASSUME IInv PROVE TurnNumbersIncrease
  <2>1. TurnsGrow(log)
    BY <1>1, IInvIsSound DEF Sound
  <2> SUFFICES ASSUME NEW i \in DOMAIN log, NEW j \in DOMAIN log,
                      i < j, log[i].kind = "turn/start", log[j].kind = "turn/start",
                      \A k \in (i + 1)..(j - 1) : log[k].kind # "turn/start"
               PROVE  log[j].turn - log[i].turn
                        \in 1..(1 + Cardinality({k \in i..j : log[k].kind = "turn/end"}))
    BY DEF TurnNumbersIncrease
  <2>2. LastStart(log, i, j) /\ Started(log[j])
    BY DEF LastStart, Started
  <2>3. EndsIn(log, i, j) = {k \in i..j : log[k].kind = "turn/end"}
    BY DEF EndsIn, Ended
  <2> QED BY <2>1, <2>2, <2>3 DEF TurnsGrow
<1> QED BY <1>1, AlwaysIInv, PTL

\* A call that the repair reports as never started was never dispatched: its
\* tool/call is in the log, whatever the crash took, before its tool runs.
THEOREM NotStartedWasNotDispatched == Spec => []NotStartedIsTrue
<1>1. ASSUME IInv PROVE NotStartedIsTrue
  <2>1. NeverStarted(log, dispatched, calls)
    BY <1>1, IInvIsSound DEF Sound
  <2> QED BY <2>1 DEF NeverStarted, NotStartedIsTrue
<1> QED BY <1>1, AlwaysIInv, PTL

\* When the model is called again within a turn, each call it made earlier in
\* the turn has its result in the log (executeToolCalls).
THEOREM TurnCallsAreAnswered == Spec => []ThisTurnAnswered
<1>1. ASSUME IInv PROVE ThisTurnAnswered
  <2> SUFFICES ASSUME pc = "stream" PROVE Answers(log, phase.turn, {})
    BY DEF ThisTurnAnswered, Answers
  <2> QED BY <1>1 DEF IInv, TurnAnswered, InTurnAt, HasTools
<1> QED BY <1>1, AlwaysIInv, PTL
=============================================================================
