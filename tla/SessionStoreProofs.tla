-------------------------- MODULE SessionStoreProofs --------------------------
(***************************************************************************)
(* Theorems about SessionStore, for any set of processes and any bounds.   *)
(***************************************************************************)
EXTENDS SessionStore, WellFoundedInduction, TLAPS

-----------------------------------------------------------------------------
(* Induction over the positions of a file.                                 *)

LEMMA LeastNatural ==
  ASSUME NEW T, T \subseteq Nat, T # {}
  PROVE  \E m \in T : \A k \in T : m <= k
<1>1. PICK m \in T : \A k \in T : ~(<<k, m>> \in OpToRel(<, Nat))
  BY NatLessThanWellFounded, WFMin
<1>2. ASSUME NEW k \in T PROVE m <= k
  <2>1. ~(k < m)
    BY <1>1, <<k, m>> \in Nat \X Nat DEF OpToRel
  <2> QED BY <2>1
<1> QED BY <1>2

LEMMA PositionsIn ==
  ASSUME NEW G, 1 \in G, \A n \in Nat \ {0} : n \in G => n + 1 \in G
  PROVE  Nat \ {0} \subseteq G
<1> SUFFICES ASSUME (Nat \ {0}) \ G # {} PROVE FALSE
  OBVIOUS
<1>1. (Nat \ {0}) \ G \in SUBSET Nat
  OBVIOUS
<1>2. PICK n \in (Nat \ {0}) \ G : \A m \in (Nat \ {0}) \ G : n <= m
  BY <1>1, LeastNatural
<1>3. n - 1 \in Nat \ {0} /\ n - 1 \notin (Nat \ {0}) \ G /\ n - 1 + 1 = n
  BY <1>2
<1> QED BY <1>2, <1>3

-----------------------------------------------------------------------------
(* What a load returns.                                                    *)

Whole(f) == \A i \in DOMAIN f : f[i].whole
Entry(r) == [id |-> r.id, seq |-> r.seq]

Adds(g, r) == IF r.kind = "event" THEN Append(g, Entry(r)) ELSE g

\* g[n] is what the first n frames of f come to.
Keeps(f, k, g) == g = [n \in 1..k |-> IF n = 1 THEN <<>> ELSE Adds(g[n - 1], f[n])]

LEMMA KeepsExist ==
  ASSUME NEW f, NEW k \in Nat \ {0}
  PROVE  \E g : Keeps(f, k, g)
<1> DEFINE Good == {n \in Nat : \E g : Keeps(f, n, g)}
<1>1. 1 \in Good
  <2> DEFINE g == [n \in 1..1 |-> <<>>]
  <2>1. Keeps(f, 1, g)
    BY DEF Keeps
  <2> QED BY <2>1
<1>2. ASSUME NEW n \in Nat \ {0}, n \in Good PROVE n + 1 \in Good
  <2>1. PICK g : Keeps(f, n, g)
    BY <1>2
  <2> DEFINE h == [i \in 1..(n + 1) |-> IF i = n + 1 THEN Adds(g[n], f[n + 1]) ELSE g[i]]
  <2>2. \A i \in 1..n : g[i] = IF i = 1 THEN <<>> ELSE Adds(g[i - 1], f[i])
    BY <2>1 DEF Keeps
  <2>3. ASSUME NEW i \in 1..(n + 1)
        PROVE  h[i] = IF i = 1 THEN <<>> ELSE Adds(h[i - 1], f[i])
    <3>1. CASE i = n + 1
      <4>1. i # 1 /\ i - 1 = n /\ n \in 1..(n + 1) /\ n # n + 1
        BY <1>2, <3>1
      <4>2. h[i] = Adds(g[n], f[n + 1]) /\ h[n] = g[n]
        BY <3>1, <4>1
      <4> QED BY <3>1, <4>1, <4>2
    <3>2. CASE i # n + 1
      <4>1. i \in 1..n /\ h[i] = g[i]
        BY <3>2
      <4>2. i # 1 => i - 1 \in 1..(n + 1) /\ i - 1 # n + 1 /\ h[i - 1] = g[i - 1]
        BY <4>1
      <4> HIDE DEF h
      <4> QED BY <2>2, <4>1, <4>2
    <3> QED BY <3>1, <3>2
  <2>4. h = [i \in 1..(n + 1) |-> h[i]]
    OBVIOUS
  <2> HIDE DEF h
  <2>5. Keeps(f, n + 1, h)
    BY <2>3, <2>4 DEF Keeps
  <2> QED BY <2>5
<1> HIDE DEF Good
<1>3. k \in Good
  BY <1>1, <1>2, PositionsIn
<1> QED BY <1>3 DEF Good

LEMMA KeepsAgree ==
  ASSUME NEW f, NEW g, NEW k \in Nat \ {0}, Keeps(f, k, g),
         NEW f2, NEW g2, NEW k2 \in Nat \ {0}, Keeps(f2, k2, g2),
         k <= k2, \A i \in 1..k : f[i] = f2[i]
  PROVE  g[k] = g2[k]
<1> DEFINE Good == {n \in Nat : n <= k => g[n] = g2[n]}
<1>0. /\ \A n \in 1..k : g[n] = IF n = 1 THEN <<>> ELSE Adds(g[n - 1], f[n])
      /\ \A n \in 1..k2 : g2[n] = IF n = 1 THEN <<>> ELSE Adds(g2[n - 1], f2[n])
  BY DEF Keeps
<1>1. 1 \in Good
  BY <1>0
<1>2. ASSUME NEW n \in Nat \ {0}, n \in Good PROVE n + 1 \in Good
  <2>1. SUFFICES ASSUME n + 1 <= k PROVE g[n + 1] = g2[n + 1]
    OBVIOUS
  <2>2. n + 1 \in 1..k /\ n + 1 \in 1..k2 /\ n + 1 # 1 /\ n + 1 - 1 = n /\ g[n] = g2[n]
    BY <1>2, <2>1
  <2>3. g[n + 1] = Adds(g[n], f[n + 1]) /\ g2[n + 1] = Adds(g2[n], f2[n + 1])
    BY <1>0, <2>2
  <2> QED BY <2>2, <2>3
<1> HIDE DEF Good
<1>3. k \in Good
  BY <1>1, <1>2, PositionsIn
<1> QED BY <1>3 DEF Good

LEMMA SafeFramesAre ==
  ASSUME NEW f, NEW n \in Nat, DOMAIN f = 1..n, Len(f) = n
  PROVE  /\ SafeFrames(f) \in 0..n
         /\ \A i \in 1..SafeFrames(f) : f[i].whole
         /\ SafeFrames(f) < n => ~f[SafeFrames(f) + 1].whole
<1>1. CASE Whole(f)
  BY <1>1 DEF Whole, SafeFrames
<1>2. CASE ~Whole(f)
  <2> DEFINE T == {i \in 1..n : ~f[i].whole}
             First(i) == i \in DOMAIN f /\ ~f[i].whole /\ \A j \in 1..(i - 1) : f[j].whole
  <2>1. PICK m \in T : \A j \in T : m <= j
    <3>1. T \in SUBSET Nat /\ T # {}
      BY <1>2 DEF Whole
    <3> HIDE DEF T
    <3> QED BY <3>1, LeastNatural
  <2>2. First(m)
    BY <2>1
  <2>3. \A i : First(i) => i = m
    BY <2>1, <2>2
  <2>4. SafeFrames(f) = (CHOOSE i : First(i)) - 1
    BY <2>2, Zenon DEF SafeFrames
  <2>5. m \in 1..n
    BY <2>1
  <2> HIDE DEF First
  <2>6. (CHOOSE i : First(i)) = m
    BY <2>2, <2>3
  <2>7. SafeFrames(f) = m - 1
    BY <2>4, <2>6
  <2> QED BY <2>2, <2>5, <2>7 DEF First
<1> QED BY <1>1, <1>2

\* Where the torn frames begin determines the safe offset.
LEMMA SafeFramesAt ==
  ASSUME NEW f, NEW n \in Nat, DOMAIN f = 1..n, Len(f) = n, NEW k \in 0..n,
         \A i \in 1..k : f[i].whole, k < n => ~f[k + 1].whole
  PROVE  SafeFrames(f) = k
<1>1. /\ SafeFrames(f) \in 0..n
      /\ \A i \in 1..SafeFrames(f) : f[i].whole
      /\ SafeFrames(f) < n => ~f[SafeFrames(f) + 1].whole
  BY SafeFramesAre
<1>2. ~(SafeFrames(f) < k)
  <2>1. SUFFICES ASSUME SafeFrames(f) < k PROVE FALSE
    OBVIOUS
  <2>2. SafeFrames(f) + 1 \in 1..k /\ SafeFrames(f) < n
    BY <1>1, <2>1
  <2> QED BY <1>1, <2>2
<1>3. ~(k < SafeFrames(f))
  <2>1. SUFFICES ASSUME k < SafeFrames(f) PROVE FALSE
    OBVIOUS
  <2>2. k + 1 \in 1..SafeFrames(f) /\ k < n
    BY <1>1, <2>1
  <2> QED BY <1>1, <2>2
<1> QED BY <1>1, <1>2, <1>3

LEMMA LoadedIsLast ==
  ASSUME NEW f, SafeFrames(f) \in Nat \ {0}
  PROVE  \E g : Keeps(f, SafeFrames(f), g) /\ LoadedEvents(f) = g[SafeFrames(f)]
<1> DEFINE Is(g) == g = [n \in 1..SafeFrames(f) |->
                          IF n = 1 THEN <<>>
                          ELSE IF f[n].kind = "event"
                               THEN Append(g[n - 1], [id |-> f[n].id, seq |-> f[n].seq])
                               ELSE g[n - 1]]
           kept == CHOOSE g : Is(g)
<1>1. \A g : Is(g) <=> Keeps(f, SafeFrames(f), g)
  BY DEF Keeps, Adds, Entry
<1>2. LoadedEvents(f) = kept[SafeFrames(f)]
  BY DEF LoadedEvents
<1> HIDE DEF Is
<1>3. Is(kept)
  BY <1>1, KeepsExist
<1> HIDE DEF kept
<1> QED BY <1>1, <1>2, <1>3

LEMMA LoadedAlike ==
  ASSUME NEW f, NEW f2, SafeFrames(f) \in Nat \ {0}, SafeFrames(f2) = SafeFrames(f),
         \A i \in 1..SafeFrames(f) : f[i] = f2[i]
  PROVE  LoadedEvents(f) = LoadedEvents(f2)
<1>1. PICK g : Keeps(f, SafeFrames(f), g) /\ LoadedEvents(f) = g[SafeFrames(f)]
  BY LoadedIsLast
<1>2. PICK g2 : Keeps(f2, SafeFrames(f), g2) /\ LoadedEvents(f2) = g2[SafeFrames(f)]
  BY LoadedIsLast
<1> QED BY <1>1, <1>2, KeepsAgree

LEMMA LoadedGrows ==
  ASSUME NEW f, NEW h, NEW n \in Nat \ {0}, SafeFrames(f) = n, SafeFrames(h) = n + 1,
         \A i \in 1..n : f[i] = h[i]
  PROVE  LoadedEvents(h) = Adds(LoadedEvents(f), h[n + 1])
<1>1. PICK m : m = n + 1
  OBVIOUS
<1>2. m \in Nat \ {0} /\ n <= m
  BY <1>1
<1>3. PICK g : Keeps(f, n, g) /\ LoadedEvents(f) = g[n]
  BY LoadedIsLast
<1>4. PICK g2 : Keeps(h, m, g2) /\ LoadedEvents(h) = g2[m]
  BY <1>1, <1>2, LoadedIsLast
<1>5. g[n] = g2[n]
  BY <1>2, <1>3, <1>4, KeepsAgree, SMT
<1>6. m \in 1..m /\ m # 1 /\ m - 1 = n
  BY <1>1, <1>2
<1>7. g2[m] = Adds(g2[n], h[m])
  BY <1>4, <1>6 DEF Keeps
<1> QED BY <1>1, <1>3, <1>4, <1>5, <1>7

LEMMA PrefixIs ==
  ASSUME NEW f \in Seq(Frames)
  PROVE  /\ SafeFrames(f) \in 0..Len(f) /\ Len(ReadablePrefix(f)) = SafeFrames(f)
         /\ ReadablePrefix(f) \in Seq(Frames)
         /\ \A i \in 1..SafeFrames(f) : f[i].whole /\ ReadablePrefix(f)[i] = f[i]
         /\ Loadable(f) <=> f # <<>> /\ f[1].whole /\ f[1].kind = "header"
         /\ Loadable(f) <=> SafeFrames(f) >= 1 /\ f[1].kind = "header"
<1>1. Len(f) \in Nat /\ DOMAIN f = 1..Len(f)
  OBVIOUS
<1>2. /\ SafeFrames(f) \in 0..Len(f)
      /\ \A i \in 1..SafeFrames(f) : f[i].whole
      /\ SafeFrames(f) < Len(f) => ~f[SafeFrames(f) + 1].whole
  BY <1>1, SafeFramesAre
<1>3. PICK n : n = SafeFrames(f)
  OBVIOUS
<1>4. /\ SubSeq(f, 1, n) \in Seq(Frames) /\ Len(SubSeq(f, 1, n)) = n
      /\ \A i \in 1..n : SubSeq(f, 1, n)[i] = f[i]
  BY <1>1, <1>2, <1>3
<1>5. ReadablePrefix(f) = SubSeq(f, 1, n)
  BY <1>3 DEF ReadablePrefix
<1>6. Loadable(f) <=> n >= 1 /\ f[1].kind = "header"
  BY <1>4, <1>5 DEF Loadable
<1>7. n >= 1 <=> f # <<>> /\ f[1].whole
  <2>1. CASE f = <<>>
    BY <1>1, <1>2, <1>3, <2>1
  <2>2. CASE f # <<>>
    <3>1. Len(f) >= 1
      BY <2>2
    <3> QED BY <1>1, <1>2, <1>3, <2>2, <3>1
  <2> QED BY <2>1, <2>2
<1> QED BY <1>2, <1>3, <1>4, <1>5, <1>6, <1>7

LEMMA PrefixLoads ==
  ASSUME NEW f \in Seq(Frames), Loadable(f)
  PROVE  /\ ReadablePrefix(f) \in Seq(Frames) /\ Whole(ReadablePrefix(f))
         /\ Loadable(ReadablePrefix(f)) /\ LoadedEvents(ReadablePrefix(f)) = LoadedEvents(f)
<1>1. /\ SafeFrames(f) \in 0..Len(f) /\ Len(ReadablePrefix(f)) = SafeFrames(f)
      /\ ReadablePrefix(f) \in Seq(Frames)
      /\ \A i \in 1..SafeFrames(f) : f[i].whole /\ ReadablePrefix(f)[i] = f[i]
      /\ SafeFrames(f) >= 1 /\ f[1].kind = "header"
  BY PrefixIs
<1>2. PICK p, n : p = ReadablePrefix(f) /\ n = SafeFrames(f)
  OBVIOUS
<1>3. n \in Nat \ {0} /\ Len(p) = n /\ p \in Seq(Frames) /\ \A i \in 1..n : p[i] = f[i] /\ p[i].whole
  BY <1>1, <1>2
<1>4. DOMAIN p = 1..n
  BY <1>3
<1>5. Whole(p)
  BY <1>3, <1>4 DEF Whole
<1>6. SafeFrames(p) = n
  BY <1>3, <1>4, SafeFramesAt
<1>7. Loadable(p)
  BY <1>1, <1>3, <1>6, PrefixIs, SMTT(30)
<1>8. LoadedEvents(p) = LoadedEvents(f)
  BY <1>2, <1>3, <1>6, LoadedAlike
<1> QED BY <1>2, <1>3, <1>5, <1>7, <1>8

\* A frame written at the end is read when everything before it is whole.
LEMMA AppendLoads ==
  ASSUME NEW f \in Seq(Frames), NEW r \in Frames, r.kind # "header", NEW h, h = Append(f, r)
  PROVE  /\ h \in Seq(Frames)
         /\ Loadable(h) <=> Loadable(f)
         /\ Loadable(f) /\ Whole(f) /\ r.whole =>
              Whole(h) /\ LoadedEvents(h) = Adds(LoadedEvents(f), r)
         /\ Loadable(f) /\ ~(Whole(f) /\ r.whole) => LoadedEvents(h) = LoadedEvents(f)
<1>1. PICK n \in Nat : n = Len(f) /\ DOMAIN f = 1..n
  OBVIOUS
<1>2. /\ h \in Seq(Frames) /\ Len(h) = n + 1 /\ DOMAIN h = 1..(n + 1) /\ h[n + 1] = r
      /\ \A i \in 1..n : h[i] = f[i]
  BY <1>1
<1>3. Loadable(h) <=> Loadable(f)
  <2>1. CASE n = 0
    <3>1. f = <<>> /\ h[1] = r
      BY <1>1, <1>2, <2>1
    <3>2. ~Loadable(f)
      BY <3>1, PrefixIs
    <3>3. ~Loadable(h)
      BY <1>2, <3>1, PrefixIs
    <3> QED BY <3>2, <3>3
  <2>2. CASE n # 0
    <3>1. f # <<>> /\ h # <<>> /\ h[1] = f[1]
      BY <1>1, <1>2, <2>2
    <3> QED BY <1>2, <3>1, PrefixIs
  <2> QED BY <2>1, <2>2
<1>4. PICK k : k = SafeFrames(f)
  OBVIOUS
<1>5. /\ k \in 0..n /\ \A i \in 1..k : f[i].whole
      /\ k < n => ~f[k + 1].whole
      /\ Loadable(f) => k >= 1
  BY <1>1, <1>4, SafeFramesAre, PrefixIs
<1>6. ASSUME Loadable(f), ~(Whole(f) /\ r.whole) PROVE LoadedEvents(h) = LoadedEvents(f)
  <2>1. /\ k \in 0..(n + 1) /\ \A i \in 1..k : h[i].whole
        /\ k < n + 1 => ~h[k + 1].whole
    <3>1. CASE k < n
      <4>1. k + 1 \in 1..n
        BY <1>5, <3>1
      <4> QED BY <1>2, <1>5, <3>1, <4>1
    <3>2. CASE k = n
      <4>1. Whole(f)
        BY <1>1, <1>5, <3>2 DEF Whole
      <4> QED BY <1>2, <1>5, <1>6, <3>2, <4>1 DEF Frames
    <3> QED BY <1>1, <1>5, <3>1, <3>2
  <2>2. SafeFrames(h) = k
    <3>1. n + 1 \in Nat
      BY <1>1
    <3> QED BY <1>2, <2>1, <3>1, SafeFramesAt
  <2>3. k \in Nat \ {0} /\ \A i \in 1..k : f[i] = h[i]
    BY <1>2, <1>5, <1>6
  <2> QED BY <1>4, <2>2, <2>3, LoadedAlike
<1>7. ASSUME Loadable(f), Whole(f), r.whole
      PROVE  Whole(h) /\ LoadedEvents(h) = Adds(LoadedEvents(f), r)
  <2>1. k = n /\ n >= 1
    <3>1. ~(k < n)
      <4>1. k < n => k + 1 \in DOMAIN f
        BY <1>1, <1>5
      <4> QED BY <1>5, <1>7, <4>1 DEF Whole
    <3> QED BY <1>5, <1>7, <3>1
  <2>2. \A i \in 1..(n + 1) : h[i].whole
    BY <1>1, <1>2, <1>7 DEF Whole
  <2>3. SafeFrames(h) = n + 1
    <3>1. n + 1 \in Nat /\ n + 1 \in 0..(n + 1) /\ ~(n + 1 < n + 1)
      BY <1>1
    <3> QED BY <1>2, <2>2, <3>1, SafeFramesAt
  <2>4. n \in Nat \ {0} /\ SafeFrames(f) = n
    BY <1>4, <2>1
  <2>5. \A i \in 1..n : f[i] = h[i]
    BY <1>2
  <2>6. LoadedEvents(h) = Adds(LoadedEvents(f), h[n + 1])
    BY <2>3, <2>4, <2>5, LoadedGrows
  <2> QED BY <1>2, <2>2, <2>6 DEF Whole
<1> QED BY <1>2, <1>3, <1>6, <1>7

LEMMA HeaderLoads ==
  /\ <<Header>> \in Seq(Frames) /\ Whole(<<Header>>) /\ Loadable(<<Header>>)
  /\ LoadedEvents(<<Header>>) = <<>>
<1>1. PICK f : f = <<Header>>
  OBVIOUS
<1>2. f \in Seq(Frames) /\ Len(f) = 1 /\ DOMAIN f = 1..1 /\ f[1] = Header
  BY <1>1 DEF Header, Frames
<1>3. Header.whole /\ Header.kind = "header"
  BY DEF Header
<1>4. Whole(f)
  BY <1>2, <1>3 DEF Whole
<1>5. SafeFrames(f) = 1
  <2>1. 1 \in Nat /\ 1 \in 0..1 /\ ~(1 < 1) /\ \A i \in 1..1 : f[i].whole
    BY <1>2, <1>3
  <2> QED BY <1>2, <2>1, SafeFramesAt
<1>6. Loadable(f)
  BY <1>2, <1>3, <1>5, PrefixIs
<1>7. PICK g : Keeps(f, 1, g) /\ LoadedEvents(f) = g[1]
  BY <1>5, LoadedIsLast
<1>8. g[1] = <<>>
  BY <1>7 DEF Keeps
<1> QED BY <1>1, <1>2, <1>4, <1>6, <1>7, <1>8

LEMMA NothingToLoad ==
  /\ ~Loadable(<<>>)
  /\ <<Torn(Header)>> \in Seq(Frames) /\ ~Loadable(<<Torn(Header)>>)
<1>1. <<>> \in Seq(Frames)
  OBVIOUS
<1>2. <<Torn(Header)>> \in Seq(Frames) /\ ~(<<Torn(Header)>>[1]).whole
  <2>1. PICK r : r = Torn(Header)
    OBVIOUS
  <2>2. r \in Frames /\ ~r.whole
    BY <2>1 DEF Torn, Header, Frames
  <2>3. <<r>> \in Seq(Frames) /\ <<r>>[1] = r
    BY <2>2
  <2> QED BY <2>1, <2>2, <2>3
<1> QED BY <1>1, <1>2, PrefixIs

-----------------------------------------------------------------------------
(* The log a process has in memory.                                        *)

Entries == [id : Nat, seq : Nat]
Ids(m) == [i \in DOMAIN m |-> m[i].id]

\* The ids of m were minted in the order in which m has them.
OrderedTo(m, n) ==
  /\ m \in Seq(Entries)
  /\ \A i, j \in DOMAIN m : i < j => m[i].id < m[j].id
  /\ \A i \in DOMAIN m : m[i].id <= n

LEMMA OrderedLonger ==
  ASSUME NEW m, NEW n \in Nat, NEW k \in Nat, n <= k, OrderedTo(m, n)
  PROVE  OrderedTo(m, k)
<1>1. m \in Seq(Entries)
  BY DEF OrderedTo
<1>2. \A i \in DOMAIN m : m[i] \in Entries
  BY <1>1
<1>3. \A i \in DOMAIN m : m[i].id \in Nat
  BY <1>2 DEF Entries
<1> QED BY <1>3 DEF OrderedTo

LEMMA OrderedAppend ==
  ASSUME NEW m, NEW n \in Nat, NEW s \in Nat, OrderedTo(m, n), NEW e, e = [id |-> n + 1, seq |-> s]
  PROVE  OrderedTo(Append(m, e), n + 1) /\ Ids(Append(m, e)) = Append(Ids(m), n + 1)
<1>1. m \in Seq(Entries) /\ e \in Entries /\ e.id = n + 1
  BY DEF OrderedTo, Entries
<1>l. PICK l : l = Len(m)
  OBVIOUS
<1>h. PICK h : h = Append(m, e)
  OBVIOUS
<1>2. /\ l \in Nat /\ DOMAIN m = 1..l /\ h = Append(m, e)
      /\ h \in Seq(Entries) /\ DOMAIN h = 1..(l + 1) /\ Len(h) = l + 1
      /\ h[l + 1] = e /\ \A i \in 1..l : h[i] = m[i]
  BY <1>1, <1>l, <1>h
<1>3. \A i \in 1..l : m[i].id \in Nat /\ m[i].id <= n /\ h[i].id = m[i].id
  <2>1. \A i \in 1..l : m[i] \in Entries
    BY <1>1, <1>2
  <2>2. \A i \in 1..l : m[i].id \in Nat
    BY <2>1 DEF Entries
  <2> QED BY <1>2, <2>2 DEF OrderedTo
<1>4. \A i \in 1..(l + 1) : i # l + 1 => i \in 1..l
  BY <1>2
<1>5. ASSUME NEW i \in 1..(l + 1), NEW j \in 1..(l + 1), i < j PROVE h[i].id < h[j].id
  <2>1. i \in 1..l
    BY <1>5, <1>4
  <2>2. CASE j = l + 1
    BY <1>1, <1>2, <1>3, <2>1, <2>2
  <2>3. CASE j # l + 1
    <3>1. j \in 1..l
      BY <1>4, <2>3
    <3> QED BY <1>2, <1>3, <1>5, <2>1, <3>1 DEF OrderedTo
  <2> QED BY <2>2, <2>3
<1>6. ASSUME NEW i \in 1..(l + 1) PROVE h[i].id <= n + 1
  BY <1>1, <1>2, <1>3, <1>4
<1>7. OrderedTo(h, n + 1)
  BY <1>2, <1>5, <1>6 DEF OrderedTo
<1>8. Ids(h) = Append(Ids(m), n + 1)
  <2>1. Ids(m) \in Seq(Nat) /\ Len(Ids(m)) = l /\ \A i \in 1..l : Ids(m)[i] = m[i].id
    BY <1>2, <1>3 DEF Ids
  <2>2. PICK d : d = Ids(m)
    OBVIOUS
  <2>3. /\ Append(d, n + 1) \in Seq(Nat) /\ Len(Append(d, n + 1)) = l + 1
        /\ Append(d, n + 1)[l + 1] = n + 1 /\ \A i \in 1..l : Append(d, n + 1)[i] = m[i].id
    BY <2>1, <2>2
  <2>4. PICK a : a = Append(d, n + 1)
    OBVIOUS
  <2>5. /\ a \in Seq(Nat) /\ Len(a) = l + 1 /\ a[l + 1] = n + 1
        /\ \A i \in 1..l : a[i] = m[i].id
    BY <2>3, <2>4
  <2>6. \A i \in 1..(l + 1) : a[i] = h[i].id
    BY <1>1, <1>2, <1>3, <1>4, <2>5
  <2>7. a = [i \in 1..(l + 1) |-> a[i]]
    BY <2>5
  <2>8. a = [i \in 1..(l + 1) |-> h[i].id]
    BY <2>6, <2>7
  <2> QED BY <1>2, <2>2, <2>4, <2>8 DEF Ids
<1> QED BY <1>2, <1>7, <1>8

-----------------------------------------------------------------------------
(* The invariant.                                                          *)

\* Until a lease is collected, whoever is in the session holds its lock.
HoldsLease ==
  "lease" \notin faults => \A p \in Procs : proc[p].pc # "closed" => lock = p

FileOrdered == Loadable(file) => OrderedTo(LoadedEvents(file), minted)
MemOrdered == \A p \in Procs : OrderedTo(proc[p].mem, minted)

\* What the writer has in memory is in the file, and no frame of it is torn,
\* so that the next frame will be read as well.
Readable ==
  faults \subseteq {"newer", "recreated"} =>
    \A p \in Procs : proc[p].pc = "open" =>
      Whole(file) /\ Loadable(file) /\ LoadedEvents(file) = proc[p].mem

\* Between two processes the file alone has what was acknowledged.
FileHasAcked ==
  faults \subseteq {"newer"} =>
    acked = IF Loadable(file) THEN Ids(LoadedEvents(file)) ELSE <<>>

IInv ==
  TypeOK /\ HoldsLease /\ FileOrdered /\ MemOrdered /\ Readable /\ FileHasAcked

LEMMA InitHolds == Init => IInv
<1> SUFFICES ASSUME Init PROVE IInv
  OBVIOUS
<1>1. OrderedTo(<<>>, minted)
  BY DEF OrderedTo
<1>2. TypeOK
  BY StoreAssumption DEF Init, TypeOK, Closed
<1>3. HoldsLease /\ MemOrdered /\ Readable
  BY <1>1 DEF Init, HoldsLease, MemOrdered, Readable, Closed
<1>4. FileOrdered /\ FileHasAcked
  BY NothingToLoad DEF Init, FileOrdered, FileHasAcked
<1> QED BY <1>2, <1>3, <1>4 DEF IInv

\* What the invariant says of one process.
LEMMA OfProcess ==
  ASSUME IInv, NEW p \in Procs
  PROVE  /\ proc[p].pc \in {"closed", "locked", "open"} /\ proc[p].mem \in Seq(Entries)
         /\ proc[p] = [pc |-> proc[p].pc, mem |-> proc[p].mem]
         /\ minted \in Nat /\ Len(proc[p].mem) \in Nat
         /\ OrderedTo(proc[p].mem, minted)
         /\ "lease" \notin faults /\ proc[p].pc # "closed" => lock = p
<1>1. proc[p] \in [pc : {"closed", "locked", "open"}, mem : Seq(Entries)]
  BY DEF IInv, TypeOK, Entries
<1>2. proc[p].mem \in Seq(Entries)
  BY <1>1
<1>3. Len(proc[p].mem) \in Nat
  BY <1>2
<1> QED BY <1>1, <1>2, <1>3, StoreAssumption DEF IInv, TypeOK, MemOrdered, HoldsLease

-----------------------------------------------------------------------------
(* Steps that leave the file alone.                                        *)

LEMMA FileStays ==
  ASSUME IInv, file' = file, minted' = minted, acked' = acked, faults \subseteq faults',
         \A q \in Procs : proc'[q].mem \in {proc[q].mem, <<>>},
         \A q \in Procs : proc'[q].pc = "open" => proc'[q] = proc[q]
  PROVE  FileOrdered' /\ MemOrdered' /\ Readable' /\ FileHasAcked'
<1>1. FileOrdered' /\ FileHasAcked'
  BY DEF IInv, FileOrdered, FileHasAcked
<1>2. OrderedTo(<<>>, minted)
  BY DEF OrderedTo
<1>3. MemOrdered'
  BY <1>2 DEF IInv, MemOrdered
<1>4. Readable'
  BY DEF IInv, Readable
<1> QED BY <1>1, <1>3, <1>4

\* The only way in is through a lock nobody holds.
LEMMA AcquireLeaseKeeps == ASSUME IInv, NEW p \in Procs, AcquireLease(p) PROVE IInv'
<1>1. /\ proc[p].pc = "closed" /\ lock = Nobody /\ lock' = p
      /\ proc' = [proc EXCEPT ![p].pc = "locked"]
      /\ UNCHANGED <<file, acked, faults, minted, crashes>>
  BY DEF AcquireLease
<1>2. proc \in [Procs -> [pc : {"closed", "locked", "open"}, mem : Seq(Entries)]]
  BY DEF IInv, TypeOK, Entries
<1>3. /\ proc'[p].pc = "locked" /\ proc'[p].mem = proc[p].mem
      /\ \A q \in Procs : q # p => proc'[q] = proc[q]
  BY <1>1, <1>2
<1>4. TypeOK'
  BY <1>1, <1>2 DEF IInv, TypeOK, Entries
<1>5. HoldsLease'
  BY <1>1, <1>3, StoreAssumption DEF IInv, HoldsLease
<1>6. FileOrdered' /\ MemOrdered' /\ Readable' /\ FileHasAcked'
  BY <1>1, <1>3, FileStays
<1> QED BY <1>4, <1>5, <1>6 DEF IInv

LEMMA Alone ==
  ASSUME IInv, NEW p \in Procs, proc[p].pc # "closed", "lease" \notin faults
  PROVE  lock = p /\ \A q \in Procs : q # p => proc[q].pc = "closed"
BY DEF IInv, HoldsLease

\* Whoever leaves was the last one in the session.
LEMMA LeavingKeeps == ASSUME IInv, NEW p \in Procs, OpenFails(p) \/ Close(p) PROVE IInv'
<1>1. /\ proc[p].pc # "closed" /\ lock' \in {lock, Nobody}
      /\ proc' = [proc EXCEPT ![p] = Closed]
      /\ UNCHANGED <<file, acked, faults, minted, crashes>>
  BY DEF OpenFails, Close
<1>2. proc \in [Procs -> [pc : {"closed", "locked", "open"}, mem : Seq(Entries)]]
  BY DEF IInv, TypeOK, Entries
<1>3. /\ proc'[p] = Closed /\ Closed.pc = "closed" /\ Closed.mem = <<>>
      /\ \A q \in Procs : q # p => proc'[q] = proc[q]
  BY <1>1, <1>2 DEF Closed
<1>4. TypeOK'
  BY <1>1, <1>2 DEF IInv, TypeOK, Entries, Closed
<1>5. HoldsLease'
  BY <1>1, <1>3, Alone DEF HoldsLease
<1>6. FileOrdered' /\ MemOrdered' /\ Readable' /\ FileHasAcked'
  BY <1>1, <1>3, FileStays
<1> QED BY <1>4, <1>5, <1>6 DEF IInv

\* The collector leaves the process where it is, and the promise is off.
LEMMA LeaseCollectedKeeps == ASSUME IInv, NEW p \in Procs, LeaseCollected(p) PROVE IInv'
<1>1. /\ lock' = Nobody /\ faults' = faults \cup {"lease"}
      /\ UNCHANGED <<file, proc, acked, minted, crashes>>
  BY DEF LeaseCollected
<1>2. TypeOK'
  BY <1>1 DEF IInv, TypeOK, Faults
<1>3. HoldsLease'
  BY <1>1 DEF HoldsLease
<1>4. FileOrdered' /\ MemOrdered' /\ Readable' /\ FileHasAcked'
  BY <1>1, FileStays
<1> QED BY <1>2, <1>3, <1>4 DEF IInv

-----------------------------------------------------------------------------
(* Steps that write the file.                                              *)

\* A session that is created anew begins with an empty log; only if there was
\* something in the file does that take anything away.
LEMMA OpenFreshKeeps == ASSUME IInv, NEW p \in Procs, OpenFresh(p) PROVE IInv'
<1>1. /\ proc[p].pc = "locked" /\ file' = <<Header>>
      /\ proc' = [proc EXCEPT ![p] = [pc |-> "open", mem |-> <<>>]]
      /\ faults' = IF file = <<>> THEN faults ELSE faults \cup {"recreated"}
      /\ UNCHANGED <<lock, acked, minted, crashes>>
  BY DEF OpenFresh
<1>2. proc \in [Procs -> [pc : {"closed", "locked", "open"}, mem : Seq(Entries)]]
  BY DEF IInv, TypeOK, Entries
<1>3. /\ proc'[p].pc = "open" /\ proc'[p].mem = <<>>
      /\ \A q \in Procs : q # p => proc'[q] = proc[q]
  BY <1>1, <1>2
<1>4. TypeOK'
  BY <1>1, <1>2, HeaderLoads DEF IInv, TypeOK, Entries, Faults
<1>5. HoldsLease'
  BY <1>1, <1>3 DEF IInv, HoldsLease
<1>6. OrderedTo(<<>>, minted')
  BY DEF OrderedTo
<1>7. FileOrdered' /\ MemOrdered'
  BY <1>1, <1>3, <1>6, HeaderLoads DEF IInv, FileOrdered, MemOrdered
<1>8. Readable'
  <2>1. SUFFICES ASSUME faults' \subseteq {"newer", "recreated"} PROVE Readable'
    BY DEF Readable
  <2>2. "lease" \notin faults
    BY <1>1, <2>1
  <2>3. \A q \in Procs : q # p => proc'[q].pc = "closed"
    BY <1>1, <1>3, <2>2, Alone
  <2> QED BY <1>1, <1>3, <2>3, HeaderLoads DEF Readable
<1>9. FileHasAcked'
  <2>1. SUFFICES ASSUME faults' \subseteq {"newer"} PROVE acked' = <<>>
    <3>1. Ids(<<>>) = <<>>
      BY DEF Ids
    <3>2. Ids(LoadedEvents(file')) = <<>> /\ Loadable(file')
      BY <1>1, <3>1, HeaderLoads
    <3> QED BY <3>2 DEF FileHasAcked
  <2>2. file = <<>> /\ faults \subseteq {"newer"}
    BY <1>1, <2>1
  <2> QED BY <1>1, <2>2, NothingToLoad DEF IInv, FileHasAcked
<1> QED BY <1>4, <1>5, <1>7, <1>8, <1>9 DEF IInv

\* A load cuts what it could not read and keeps what it could.
LEMMA OpenLoadedKeeps == ASSUME IInv, NEW p \in Procs, OpenLoaded(p) PROVE IInv'
<1>1. /\ proc[p].pc = "locked" /\ Loadable(file) /\ file' = ReadablePrefix(file)
      /\ proc' = [proc EXCEPT ![p] = [pc |-> "open", mem |-> LoadedEvents(file)]]
      /\ UNCHANGED <<lock, acked, faults, minted, crashes>>
  BY DEF OpenLoaded
<1>2. /\ proc \in [Procs -> [pc : {"closed", "locked", "open"}, mem : Seq(Entries)]]
      /\ file \in Seq(Frames)
  BY DEF IInv, TypeOK, Entries
<1>3. /\ file' \in Seq(Frames) /\ Whole(file') /\ Loadable(file')
      /\ LoadedEvents(file') = LoadedEvents(file)
  BY <1>1, <1>2, PrefixLoads
<1>4. OrderedTo(LoadedEvents(file), minted) /\ LoadedEvents(file) \in Seq(Entries)
  BY <1>1 DEF IInv, FileOrdered, OrderedTo
<1>5. /\ proc'[p].pc = "open" /\ proc'[p].mem = LoadedEvents(file)
      /\ \A q \in Procs : q # p => proc'[q] = proc[q]
  BY <1>1, <1>2
<1>6. TypeOK'
  BY <1>1, <1>2, <1>3, <1>4 DEF IInv, TypeOK, Entries
<1>7. HoldsLease'
  BY <1>1, <1>5 DEF IInv, HoldsLease
<1>8. FileOrdered' /\ MemOrdered'
  BY <1>1, <1>3, <1>4, <1>5 DEF IInv, FileOrdered, MemOrdered
<1>9. Readable'
  <2>1. SUFFICES ASSUME faults' \subseteq {"newer", "recreated"} PROVE Readable'
    BY DEF Readable
  <2>2. "lease" \notin faults
    BY <1>1, <2>1
  <2>3. \A q \in Procs : q # p => proc'[q].pc = "closed"
    BY <1>1, <1>5, <2>2, Alone
  <2> QED BY <1>3, <1>5, <2>3 DEF Readable
<1>10. FileHasAcked'
  BY <1>1, <1>3 DEF IInv, FileHasAcked
<1> QED BY <1>6, <1>7, <1>8, <1>9, <1>10 DEF IInv

LEMMA NewFrame ==
  ASSUME NEW e, NEW n \in Nat, NEW s \in Nat, NEW k \in BOOLEAN,
         e = [id |-> n, seq |-> s, known |-> k]
  PROVE  /\ EventFrame(e) \in Frames /\ EventFrame(e).kind # "header" /\ EventFrame(e).whole
         /\ Torn(EventFrame(e)) \in Frames /\ Torn(EventFrame(e)).kind # "header"
         /\ ~Torn(EventFrame(e)).whole
         /\ Entry(EventFrame(e)) = [id |-> n, seq |-> s]
         /\ EventFrame(e).kind = "event" <=> k
<1>1. PICK r : r = EventFrame(e)
  OBVIOUS
<1>k. PICK kind \in {"event", "unknown"} : kind = IF k THEN "event" ELSE "unknown"
  OBVIOUS
<1>2. r = [kind |-> kind, id |-> n, seq |-> s, whole |-> TRUE]
  BY <1>1, <1>k DEF EventFrame
<1>3. r \in Frames /\ r.kind # "header" /\ r.whole /\ (r.kind = "event" <=> k)
  BY <1>2, <1>k DEF Frames
<1>4. PICK F : F = FALSE
  OBVIOUS
<1>5. Torn(r) \in Frames /\ Torn(r).kind # "header" /\ ~Torn(r).whole
  <2>1. Torn(r) = [r EXCEPT !.whole = F]
    BY <1>4 DEF Torn
  <2>2. /\ [r EXCEPT !.whole = F].kind = r.kind /\ [r EXCEPT !.whole = F].whole = F
        /\ [r EXCEPT !.whole = F] \in Frames
    BY <1>3, <1>4 DEF Frames
  <2> QED BY <1>3, <1>4, <2>1, <2>2
<1>6. Entry(r) = [id |-> n, seq |-> s]
  BY <1>2 DEF Entry
<1> QED BY <1>1, <1>3, <1>5, <1>6

\* Once an append failed its writer's log is ahead of the file, and no promise
\* is left; until then the event is at the end of both.
LEMMA AppendEventKeeps == ASSUME IInv, NEW p \in Procs, AppendEvent(p) PROVE IInv'
<1> DEFINE n == minted + 1
           s == Len(proc[p].mem)
           e == NewEvent(p)
           m == Append(proc[p].mem, [id |-> n, seq |-> s])
<1>1. /\ proc[p].pc = "open" /\ minted < MaxEvents /\ minted' = n
      /\ proc' = [proc EXCEPT ![p].mem = m]
      /\ acked' = Append(acked, n)
      /\ UNCHANGED <<lock, crashes>>
      /\ \/ file' = Append(file, EventFrame(e)) /\ faults' = faults
         \/ /\ file' \in {file, Append(file, Torn(EventFrame(e)))}
            /\ faults' = faults \cup {"write"}
  BY DEF AppendEvent, NewEvent
<1>2. /\ proc \in [Procs -> [pc : {"closed", "locked", "open"}, mem : Seq(Entries)]]
      /\ file \in Seq(Frames) /\ acked \in Seq(Nat) /\ minted \in Nat
  BY StoreAssumption DEF IInv, TypeOK, Entries
<1>3. s \in Nat /\ n \in Nat /\ minted <= n /\ OrderedTo(proc[p].mem, minted)
  BY <1>2, OfProcess
<1>4. e = [id |-> n, seq |-> s, known |-> TRUE]
  BY DEF NewEvent
<1> HIDE DEF n, s, e
<1>5. /\ EventFrame(e) \in Frames /\ EventFrame(e).kind # "header" /\ EventFrame(e).whole
      /\ Torn(EventFrame(e)) \in Frames /\ Torn(EventFrame(e)).kind # "header"
      /\ ~Torn(EventFrame(e)).whole
      /\ Entry(EventFrame(e)) = [id |-> n, seq |-> s] /\ EventFrame(e).kind = "event"
  BY <1>3, <1>4, NewFrame
<1>6. OrderedTo(m, n)
  BY <1>2, <1>3, OrderedAppend DEF n
<1>7. m \in Seq(Entries)
  BY <1>6 DEF OrderedTo
<1> HIDE DEF m
<1>8. /\ proc'[p].pc = "open" /\ proc'[p].mem = m
      /\ \A q \in Procs : q # p => proc'[q] = proc[q]
      /\ proc' \in [Procs -> [pc : {"closed", "locked", "open"}, mem : Seq(Entries)]]
  BY <1>1, <1>2, <1>7
<1>9. faults \subseteq faults'
  BY <1>1
<1>10. TypeOK'
  <2>1. file' \in Seq(Frames)
    BY <1>1, <1>2, <1>5, AppendLoads
  <2>2. minted' \in 0..MaxEvents /\ acked' \in Seq(Nat) /\ faults' \subseteq Faults
    BY <1>1, <1>2, <1>3, StoreAssumption DEF IInv, TypeOK, n, Faults
  <2> QED BY <1>1, <1>8, <2>1, <2>2 DEF IInv, TypeOK, Entries
<1>11. HoldsLease'
  BY <1>1, <1>8, <1>9 DEF IInv, HoldsLease
<1>12. MemOrdered'
  <2>1. ASSUME NEW q \in Procs, q # p PROVE OrderedTo(proc'[q].mem, n)
    BY <1>2, <1>3, <1>8, <2>1, OrderedLonger DEF IInv, MemOrdered
  <2> QED BY <1>1, <1>6, <1>8, <2>1 DEF MemOrdered
<1>13. FileOrdered'
  <2>1. SUFFICES ASSUME Loadable(file') PROVE OrderedTo(LoadedEvents(file'), n)
    BY <1>1 DEF FileOrdered
  <2>2. Loadable(file)
    BY <1>1, <1>2, <1>5, <2>1, AppendLoads
  <2>3. OrderedTo(LoadedEvents(file), minted)
    BY <2>2 DEF IInv, FileOrdered
  <2>4. OrderedTo(LoadedEvents(file), n)
    BY <1>2, <1>3, <2>3, OrderedLonger
  <2>5. OrderedTo(Append(LoadedEvents(file), [id |-> n, seq |-> s]), n)
    BY <1>2, <1>3, <2>3, OrderedAppend DEF n
  <2>6. LoadedEvents(file') = LoadedEvents(file)
        \/ LoadedEvents(file') = Adds(LoadedEvents(file), EventFrame(e))
    BY <1>1, <1>2, <1>5, <2>2, AppendLoads
  <2> QED BY <1>5, <2>4, <2>5, <2>6 DEF Adds
<1>14. ASSUME faults' \subseteq {"newer", "recreated"}
       PROVE  /\ Loadable(file) /\ LoadedEvents(file) = proc[p].mem
              /\ Whole(file') /\ Loadable(file') /\ LoadedEvents(file') = m
  <2>1. file' = Append(file, EventFrame(e)) /\ faults' = faults
    BY <1>1, <1>14
  <2>2. Whole(file) /\ Loadable(file) /\ LoadedEvents(file) = proc[p].mem
    BY <1>1, <1>14, <2>1 DEF IInv, Readable
  <2>3. Whole(file') /\ Loadable(file') /\ LoadedEvents(file') = Adds(proc[p].mem, EventFrame(e))
    BY <1>2, <1>5, <2>1, <2>2, AppendLoads
  <2> QED BY <1>5, <2>2, <2>3 DEF Adds, m
<1>15. Readable'
  <2>1. SUFFICES ASSUME faults' \subseteq {"newer", "recreated"} PROVE Readable'
    BY DEF Readable
  <2>2. \A q \in Procs : q # p => proc'[q].pc = "closed"
    BY <1>1, <1>8, <1>9, <2>1, Alone
  <2> QED BY <1>8, <1>14, <2>1, <2>2 DEF Readable
<1>16. FileHasAcked'
  <2>1. SUFFICES ASSUME faults' \subseteq {"newer"} PROVE FileHasAcked'
    BY DEF FileHasAcked
  <2>2. /\ Loadable(file) /\ LoadedEvents(file) = proc[p].mem
        /\ Loadable(file') /\ LoadedEvents(file') = m
    BY <1>14, <2>1
  <2>3. acked = Ids(proc[p].mem)
    BY <1>9, <2>1, <2>2 DEF IInv, FileHasAcked
  <2>4. Ids(m) = Append(Ids(proc[p].mem), n)
    BY <1>2, <1>3, OrderedAppend DEF m, n
  <2> QED BY <1>1, <2>2, <2>3, <2>4 DEF FileHasAcked
<1> QED BY <1>10, <1>11, <1>12, <1>13, <1>15, <1>16 DEF IInv

\* A crash tears at most the last frame; the event in it was never
\* acknowledged, and nothing is written after it before it is cut.
LEMMA CrashKeeps == ASSUME IInv, NEW p \in Procs, Crash(p) PROVE IInv'
<1> DEFINE n == minted + 1
           s == Len(proc[p].mem)
           e == NewEvent(p)
<1>1. /\ proc[p].pc # "closed" /\ crashes < MaxCrashes /\ crashes' = crashes + 1
      /\ \/ file' = file /\ minted' = minted
         \/ file = <<>> /\ file' = <<Torn(Header)>> /\ minted' = minted
         \/ /\ proc[p].pc = "open" /\ minted < MaxEvents
            /\ file' = Append(file, Torn(EventFrame(e))) /\ minted' = n
      /\ lock' \in {Nobody, lock}
      /\ proc' = [proc EXCEPT ![p] = Closed]
      /\ UNCHANGED <<acked, faults>>
  BY DEF Crash
<1>2. /\ proc \in [Procs -> [pc : {"closed", "locked", "open"}, mem : Seq(Entries)]]
      /\ file \in Seq(Frames) /\ minted \in Nat /\ crashes \in 0..MaxCrashes
  BY StoreAssumption DEF IInv, TypeOK, Entries
<1>3. s \in Nat /\ n \in Nat /\ minted <= n
  BY <1>2, OfProcess
<1>4. e = [id |-> n, seq |-> s, known |-> TRUE]
  BY DEF NewEvent
<1> HIDE DEF s, e
<1>5. /\ Torn(EventFrame(e)) \in Frames /\ Torn(EventFrame(e)).kind # "header"
      /\ ~Torn(EventFrame(e)).whole
  BY <1>3, <1>4, NewFrame
<1>6. /\ proc'[p] = Closed /\ Closed.pc = "closed" /\ Closed.mem = <<>>
      /\ \A q \in Procs : q # p => proc'[q] = proc[q]
      /\ proc' \in [Procs -> [pc : {"closed", "locked", "open"}, mem : Seq(Entries)]]
  BY <1>1, <1>2 DEF Closed
<1>7. /\ file' \in Seq(Frames)
      /\ Loadable(file') <=> Loadable(file)
      /\ Loadable(file) => LoadedEvents(file') = LoadedEvents(file)
  <2>1. CASE file' = file
    BY <1>2, <2>1
  <2>2. CASE file = <<>> /\ file' = <<Torn(Header)>>
    BY <2>2, NothingToLoad
  <2>3. CASE file' = Append(file, Torn(EventFrame(e)))
    BY <1>2, <1>5, <2>3, AppendLoads
  <2> QED BY <1>1, <2>1, <2>2, <2>3
<1>8. minted' \in Nat /\ minted <= minted' /\ minted' \in 0..MaxEvents
  BY <1>1, <1>2, StoreAssumption DEF IInv, TypeOK
<1>9. TypeOK'
  <2>1. crashes' \in 0..MaxCrashes
    BY <1>1, <1>2, StoreAssumption
  <2> QED BY <1>1, <1>6, <1>7, <1>8, <2>1 DEF IInv, TypeOK, Entries
<1>10. HoldsLease'
  BY <1>1, <1>6, Alone DEF HoldsLease
<1>11. MemOrdered'
  <2>1. OrderedTo(<<>>, minted')
    BY DEF OrderedTo
  <2>2. ASSUME NEW q \in Procs, q # p PROVE OrderedTo(proc'[q].mem, minted')
    BY <1>2, <1>6, <1>8, <2>2, OrderedLonger DEF IInv, MemOrdered
  <2> QED BY <1>6, <2>1, <2>2 DEF MemOrdered
<1>12. FileOrdered'
  BY <1>2, <1>7, <1>8, OrderedLonger DEF IInv, FileOrdered
<1>13. Readable'
  <2>1. SUFFICES ASSUME faults' \subseteq {"newer", "recreated"} PROVE Readable'
    BY DEF Readable
  <2>2. \A q \in Procs : proc'[q].pc = "closed"
    BY <1>1, <1>6, <2>1, Alone
  <2> QED BY <2>2 DEF Readable
<1>14. FileHasAcked'
  BY <1>1, <1>7 DEF IInv, FileHasAcked
<1> QED BY <1>9, <1>10, <1>11, <1>12, <1>13, <1>14 DEF IInv

\* A newer build writes behind what can be read; what it acknowledged of a
\* known type is there for the next load.
LEMMA NewerAppendsKeeps == ASSUME IInv, NewerAppends PROVE IInv'
<1> DEFINE n == minted + 1
           f == ReadablePrefix(file)
           s == Len(f) - 1
<1>1. /\ lock = Nobody /\ Loadable(file) /\ minted < MaxEvents /\ minted' = n
      /\ faults' = faults \cup {"newer"}
      /\ UNCHANGED <<lock, proc, crashes>>
  BY DEF NewerAppends
<1>2. PICK known \in BOOLEAN :
        /\ file' = Append(f, EventFrame([id |-> n, seq |-> s, known |-> known]))
        /\ acked' = IF known THEN Append(acked, n) ELSE acked
  BY DEF NewerAppends
<1>3. PICK e : e = [id |-> n, seq |-> s, known |-> known]
  OBVIOUS
<1>4. /\ proc \in [Procs -> [pc : {"closed", "locked", "open"}, mem : Seq(Entries)]]
      /\ file \in Seq(Frames) /\ acked \in Seq(Nat) /\ minted \in Nat
  BY StoreAssumption DEF IInv, TypeOK, Entries
<1>5. /\ f \in Seq(Frames) /\ Whole(f) /\ Loadable(f) /\ LoadedEvents(f) = LoadedEvents(file)
  BY <1>1, <1>4, PrefixLoads
<1>6. n \in Nat /\ s \in Nat /\ minted <= n
  BY <1>1, <1>4, <1>5, PrefixIs
<1> HIDE DEF f, s
<1>7. /\ EventFrame(e) \in Frames /\ EventFrame(e).kind # "header" /\ EventFrame(e).whole
      /\ Entry(EventFrame(e)) = [id |-> n, seq |-> s] /\ (EventFrame(e).kind = "event" <=> known)
  BY <1>2, <1>3, <1>6, NewFrame
<1>8. /\ file' \in Seq(Frames) /\ Loadable(file')
      /\ LoadedEvents(file') = Adds(LoadedEvents(file), EventFrame(e))
  <2>1. PICK r : r = EventFrame(e)
    OBVIOUS
  <2>2. PICK h : h = file'
    OBVIOUS
  <2>3. r \in Frames /\ r.kind # "header" /\ r.whole /\ h = Append(f, r)
    BY <1>2, <1>3, <1>7, <2>1, <2>2
  <2>4. h \in Seq(Frames) /\ Loadable(h) /\ LoadedEvents(h) = Adds(LoadedEvents(f), r)
    BY <1>5, <2>3, AppendLoads
  <2> QED BY <1>5, <2>1, <2>2, <2>4
<1>9. LoadedEvents(file') = IF known THEN Append(LoadedEvents(file), [id |-> n, seq |-> s])
                            ELSE LoadedEvents(file)
  BY <1>7, <1>8 DEF Adds
<1>10. OrderedTo(LoadedEvents(file), minted)
  BY <1>1 DEF IInv, FileOrdered
<1>11. /\ OrderedTo(Append(LoadedEvents(file), [id |-> n, seq |-> s]), n)
       /\ Ids(Append(LoadedEvents(file), [id |-> n, seq |-> s])) = Append(Ids(LoadedEvents(file)), n)
       /\ OrderedTo(LoadedEvents(file), n)
  BY <1>4, <1>6, <1>10, OrderedAppend, OrderedLonger
<1>12. TypeOK'
  <2>1. minted' \in 0..MaxEvents /\ acked' \in Seq(Nat) /\ faults' \subseteq Faults
    BY <1>1, <1>2, <1>4, <1>6, StoreAssumption DEF IInv, TypeOK, Faults
  <2> QED BY <1>1, <1>8, <2>1 DEF IInv, TypeOK
<1>13. HoldsLease'
  BY <1>1 DEF IInv, HoldsLease
<1>14. FileOrdered'
  BY <1>1, <1>9, <1>11 DEF FileOrdered
<1>15. MemOrdered'
  BY <1>1, <1>4, <1>6, OrderedLonger DEF IInv, MemOrdered
<1>16. Readable'
  <2>1. SUFFICES ASSUME faults' \subseteq {"newer", "recreated"} PROVE Readable'
    BY DEF Readable
  <2>2. \A q \in Procs : proc'[q].pc = "closed"
    BY <1>1, <2>1, StoreAssumption DEF IInv, HoldsLease
  <2> QED BY <2>2 DEF Readable
<1>17. FileHasAcked'
  <2>1. SUFFICES ASSUME faults' \subseteq {"newer"} PROVE FileHasAcked'
    BY DEF FileHasAcked
  <2>2. acked = Ids(LoadedEvents(file))
    BY <1>1, <2>1 DEF IInv, FileHasAcked
  <2> QED BY <1>2, <1>8, <1>9, <1>11, <2>2 DEF FileHasAcked
<1> QED BY <1>12, <1>13, <1>14, <1>15, <1>16, <1>17 DEF IInv

LEMMA StepKeeps == IInv /\ [Next]_vars => IInv'
<1> SUFFICES ASSUME IInv, [Next]_vars PROVE IInv'
  OBVIOUS
<1>1. CASE UNCHANGED vars
  BY <1>1 DEF vars, IInv, TypeOK, HoldsLease, FileOrdered, MemOrdered, Readable, FileHasAcked
<1>2. ASSUME NEW p \in Procs,
             \/ AcquireLease(p) \/ OpenFresh(p) \/ OpenLoaded(p) \/ OpenFails(p)
             \/ AppendEvent(p) \/ Crash(p) \/ Close(p) \/ LeaseCollected(p)
      PROVE  IInv'
  BY <1>2, AcquireLeaseKeeps, OpenFreshKeeps, OpenLoadedKeeps, LeavingKeeps,
     AppendEventKeeps, CrashKeeps, LeaseCollectedKeeps
<1> QED BY <1>1, <1>2, NewerAppendsKeeps DEF Next

-----------------------------------------------------------------------------
(* Theorems.                                                               *)

\* The variables keep their types.
THEOREM StoreTypeCorrect == Spec => []TypeOK
<1>1. IInv => TypeOK
  BY DEF IInv
<1> QED BY InitHolds, StepKeeps, <1>1, PTL DEF Spec

\* Two processes are never in the same session at once, however they come,
\* fail, crash and return, unless the collector took a lease (store.go:475-476).
THEOREM SoleWriters == Spec => []OneWriter
<1>1. IInv => OneWriter
  BY DEF IInv, HoldsLease, OneWriter, SoleWriter
<1> QED BY InitHolds, StepKeeps, <1>1, PTL DEF Spec

\* Whoever opens the session has every event whose Append had returned, in
\* order, through any crashes and torn frames and whatever a newer build
\* wrote (store.go:420, session.go:198-199).
THEOREM AckedSurvives == Spec => []NothingAckedIsLost
<1>1. ASSUME IInv PROVE NothingAckedIsLost
  <2>1. SUFFICES ASSUME faults \subseteq {"newer"}, NEW p \in Procs, proc[p].pc = "open"
                 PROVE  [i \in DOMAIN proc[p].mem |-> proc[p].mem[i].id] = acked
    BY DEF NothingAckedIsLost, AckedIsLoaded
  <2>2. Loadable(file) /\ LoadedEvents(file) = proc[p].mem
    BY <1>1, <2>1 DEF IInv, Readable
  <2>3. acked = Ids(proc[p].mem)
    BY <1>1, <2>1, <2>2 DEF IInv, FileHasAcked
  <2> QED BY <2>3 DEF Ids
<1> QED BY InitHolds, StepKeeps, <1>1, PTL DEF Spec

\* While a process writes, a reader of the file would load what the process
\* has in memory (store.go:319-384, 430-446).
THEOREM WriterIsReadable == Spec => []FileIsReadable
<1>1. IInv => FileIsReadable
  BY DEF IInv, Readable, FileIsReadable, ReadableAsKept
<1> QED BY InitHolds, StepKeeps, <1>1, PTL DEF Spec

\* Whatever fails, and also when two processes write the same file, a log in
\* memory has its events once and in the order they were appended
\* (store.go:319-384).
THEOREM OrderSurvives == Spec => []LoadedInOrder
<1>1. IInv => LoadedInOrder
  BY DEF IInv, MemOrdered, OrderedTo, LoadedInOrder
<1> QED BY InitHolds, StepKeeps, <1>1, PTL DEF Spec
=============================================================================
