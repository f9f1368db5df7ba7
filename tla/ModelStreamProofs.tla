-------------------------- MODULE ModelStreamProofs --------------------------
(***************************************************************************)
(* Theorems about ModelStream, for every set of wire chunks, any number of *)
(* them in an answer and any capacity of the channel.                      *)
(***************************************************************************)
EXTENDS ModelStream, FiniteSetTheorems, SequenceTheorems, WellFoundedInduction, TLAPS

-----------------------------------------------------------------------------
(* Induction.                                                              *)

LEMMA LeastNatural ==
  ASSUME NEW T, T \subseteq Nat, T # {}
  PROVE  \E m \in T : \A k \in T : m <= k
<1>1. \E m \in T : \A k \in T : ~(<<k, m>> \in OpToRel(<, Nat))
  BY NatLessThanWellFounded, WFMin
<1>2. PICK m \in T : \A k \in T : ~(<<k, m>> \in OpToRel(<, Nat))
  BY <1>1
<1>3. ASSUME NEW k \in T PROVE m <= k
  <2>1. ~(k < m)
    BY <1>2, <<k, m>> \in Nat \X Nat DEF OpToRel
  <2> QED BY <2>1
<1> QED BY <1>2, <1>3

\* Induction, for a set of numbers.
LEMMA NaturalsIn ==
  ASSUME NEW T, 0 \in T, \A n \in Nat : n \in T => n + 1 \in T
  PROVE  \A n \in Nat : n \in T
<1>1. SUFFICES ASSUME Nat \ T # {} PROVE FALSE
  OBVIOUS
<1>2. PICK m \in Nat \ T : \A k \in Nat \ T : m <= k
  BY <1>1, LeastNatural
<1>3. m # 0 /\ m - 1 \in Nat /\ m - 1 \notin Nat \ T
  BY <1>2
<1> QED BY <1>2, <1>3

-----------------------------------------------------------------------------
(* Types.                                                                  *)

Kinds == {"reasoning", "text", "tool-call"}
Reasons == {"stop", "tool-calls", "max-tokens", "error", "aborted"}
Names == STRING \cup {""}
BlockType == [kind : Kinds, id : Names, buf : Seq(Nat)]

Starts == [type : {"block-start"}, index : Nat, kind : Kinds]
Deltas == [type : {"delta"}, index : Nat, kind : Kinds, piece : Nat, id : Names, wire : Int]
Ends == [type : {"block-end"}, index : Nat, block : BlockType]
Usages == [type : {"usage"}]
Finishes == [type : {"finish"}, finish : Reasons]
Content == Starts \cup Deltas \cup Ends \cup Usages
Chunks == Content \cup Finishes

Translations ==
  [blocks : Seq(BlockType), wires : Seq(Int), usage : BOOLEAN,
   finish : (Reasons \ {"aborted"}) \cup {"none"}]
TransOK(tr) == tr \in Translations /\ Len(tr.wires) = Len(tr.blocks)

\* What push has made so far: a translator, and chunks none of which is a finish.
Pushed(s) == s \in [tr : Translations, out : Seq(Content)] /\ TransOK(s.tr)

LEMMA ChunkTypes ==
  /\ \A i \in Nat, k \in Kinds : Start(i, k) \in Content
  /\ \A i, n \in Nat, k \in Kinds, id \in Names, x \in Int : Delta(i, k, n, id, x) \in Deltas
  /\ \A i \in Nat, b \in BlockType : End(i, b) \in Content
  /\ Usage \in Content
  /\ \A r \in Reasons : Finish(r) \in Finishes
BY DEF Start, Delta, End, Usage, Finish, Content, Starts, Deltas, Ends, Usages, Finishes

LEMMA ContentIsNoFinish == \A c \in Content : c.type # "finish"
BY DEF Content, Starts, Deltas, Ends, Usages

-----------------------------------------------------------------------------
(* The translator.                                                         *)

LEMMA OneMore ==
  ASSUME NEW S, NEW m \in Seq(S), NEW b \in S, NEW i \in 1..(Len(m) + 1),
         NEW o, o = IF i > Len(m) THEN Append(m, b) ELSE m
  PROVE  o \in Seq(S) /\ i \in 1..Len(o) /\ Len(o) = IF i > Len(m) THEN Len(m) + 1 ELSE Len(m)
<1>1. CASE i > Len(m)
  <2>1. o = Append(m, b)
    BY <1>1
  <2> QED BY <1>1, <2>1
<1>2. CASE ~(i > Len(m))
  <2>1. o = m
    BY <1>2
  <2> QED BY <1>2, <2>1
<1> QED BY <1>1, <1>2

LEMMA BlockGrows ==
  ASSUME NEW m \in Seq(BlockType), NEW i \in 1..Len(m), NEW id \in Names, NEW n \in Nat
  PROVE  /\ [m EXCEPT ![i].id = id, ![i].buf = Append(@, n)] \in Seq(BlockType)
         /\ Len([m EXCEPT ![i].id = id, ![i].buf = Append(@, n)]) = Len(m)
<1>1. PICK b : b = m[i]
  OBVIOUS
<1>2. b \in BlockType
  BY <1>1
<1>3. PICK d : d = [kind |-> b.kind, id |-> id, buf |-> Append(b.buf, n)]
  OBVIOUS
<1>4. d \in BlockType
  BY <1>2, <1>3 DEF BlockType
<1>5. PICK e : e = [b EXCEPT !.id = id]
  OBVIOUS
<1>6. e = [kind |-> b.kind, id |-> id, buf |-> b.buf]
  BY <1>2, <1>5 DEF BlockType
<1>7. [e EXCEPT !.buf = Append(@, n)] = d
  <2>1. PICK x, y, z : x = b.kind /\ y = b.buf /\ z = Append(b.buf, n)
    OBVIOUS
  <2>2. e = [kind |-> x, id |-> id, buf |-> y] /\ e.buf = y /\ z = Append(y, n)
    BY <1>6, <2>1
  <2>3. [e EXCEPT !.buf = z] = [kind |-> x, id |-> id, buf |-> z]
    <3>1. e = [kind |-> x, id |-> id, buf |-> y]
      BY <2>2
    <3> QED BY ONLY <3>1
  <2>4. [e EXCEPT !.buf = Append(@, n)] = [e EXCEPT !.buf = z]
    <3>1. Append(e.buf, n) = z
      BY <2>2
    <3>2. [e EXCEPT !.buf = Append(e.buf, n)] = [e EXCEPT !.buf = z]
      BY <3>1, Zenon
    <3> QED BY <3>2
  <2> QED BY <1>3, <2>1, <2>3, <2>4
<1>8. PICK k : k = [m EXCEPT ![i].id = id]
  OBVIOUS
<1>9. k = [m EXCEPT ![i] = e]
  BY <1>1, <1>5, <1>8
<1>10. [k EXCEPT ![i].buf = Append(@, n)] = [k EXCEPT ![i] = d]
  <2>1. k[i] = e
    BY <1>9
  <2> QED BY <1>7, <2>1
<1>11. [k EXCEPT ![i] = d] = [m EXCEPT ![i] = d]
  BY <1>9
<1>12. [m EXCEPT ![i].id = id, ![i].buf = Append(@, n)] = [m EXCEPT ![i] = d]
  <2>1. [m EXCEPT ![i].id = id, ![i].buf = Append(@, n)] = [k EXCEPT ![i].buf = Append(@, n)]
    BY <1>8
  <2> QED BY <1>10, <1>11, <2>1, Zenon
<1> QED BY <1>4, <1>12, SMTT(40)

LEMMA WriteKeeps ==
  ASSUME NEW s, Pushed(s), NEW i \in 1..(Len(s.tr.blocks) + 1), NEW kind \in Kinds,
         NEW wireIndex \in Int, NEW n \in Nat, NEW id \in Names
  PROVE  Pushed(Write(s, i, kind, wireIndex, n, id))
<1>1. PICK m, w, p : m = s.tr.blocks /\ w = s.tr.wires /\ p = s.out
  OBVIOUS
<1>2. /\ s.tr \in Translations /\ p \in Seq(Content)
      /\ m \in Seq(BlockType) /\ w \in Seq(Int) /\ Len(w) = Len(m) /\ i \in 1..(Len(m) + 1)
  BY <1>1 DEF Pushed, TransOK, Translations
<1>3. Block(kind, "", <<>>) \in BlockType
  <2>1. "" \in Names
    BY DEF Names
  <2>2. <<>> \in Seq(Nat)
    OBVIOUS
  <2> QED BY <2>1, <2>2 DEF Block, BlockType
<1>4. PICK old : old = IF i > Len(m) THEN Append(m, Block(kind, "", <<>>)) ELSE m
  OBVIOUS
<1>5. PICK wires : wires = IF i > Len(m) THEN Append(w, wireIndex) ELSE w
  OBVIOUS
<1>6. /\ old \in Seq(BlockType) /\ i \in 1..Len(old)
      /\ Len(old) = IF i > Len(m) THEN Len(m) + 1 ELSE Len(m)
  <2>1. PICK b : b = Block(kind, "", <<>>)
    OBVIOUS
  <2>2. b \in BlockType /\ old = IF i > Len(m) THEN Append(m, b) ELSE m
    BY <1>3, <1>4, <2>1
  <2> QED BY <1>2, <2>2, OneMore
<1>7. /\ wires \in Seq(Int)
      /\ Len(wires) = IF i > Len(m) THEN Len(m) + 1 ELSE Len(m)
  <2>1. i \in 1..(Len(w) + 1) /\ wires = IF i > Len(w) THEN Append(w, wireIndex) ELSE w
    BY <1>2, <1>5
  <2>2. wires \in Seq(Int) /\ Len(wires) = IF i > Len(w) THEN Len(w) + 1 ELSE Len(w)
    BY <1>2, <2>1, OneMore
  <2> QED BY <1>2, <2>2
<1>8. PICK named : named = acceptIdentity(old[i].id, id)
  OBVIOUS
<1>9. named \in Names
  <2>1. PICK b : b = old[i]
    OBVIOUS
  <2>2. b \in BlockType
    BY <1>6, <2>1
  <2>3. b.id \in Names
    BY <2>2 DEF BlockType
  <2> QED BY <1>8, <2>1, <2>3 DEF acceptIdentity
<1>10. PICK after : after = [old EXCEPT ![i].id = named, ![i].buf = Append(@, n)]
  OBVIOUS
<1>11. after \in Seq(BlockType) /\ Len(after) = Len(old)
  BY <1>6, <1>9, <1>10, BlockGrows, SMTT(40)
<1>z. PICK wi : wi = toolCallIndex(kind, wireIndex)
  OBVIOUS
<1>0. wi \in Int
  BY <1>z DEF toolCallIndex
<1>12. PICK more : more = p \o (IF i > Len(m) THEN <<Start(i, kind)>> ELSE <<>>)
                            \o <<Delta(i, kind, n, named, wi)>>
  OBVIOUS
<1>13. more \in Seq(Content)
  <2>1. Start(i, kind) \in Content /\ Delta(i, kind, n, named, wi) \in Content
    BY <1>0, <1>2, <1>9, ChunkTypes DEF Content
  <2>2. CASE i > Len(m)
    <3>1. more = p \o <<Start(i, kind)>> \o <<Delta(i, kind, n, named, wi)>>
      BY <1>12, <2>2
    <3> QED BY <1>2, <2>1, <3>1
  <2>3. CASE ~(i > Len(m))
    <3>1. more = p \o <<>> \o <<Delta(i, kind, n, named, wi)>>
      BY <1>12, <2>3
    <3> QED BY <1>2, <2>1, <3>1
  <2> QED BY <2>2, <2>3
<1>14. Write(s, i, kind, wireIndex, n, id)
        = [tr |-> [s.tr EXCEPT !.blocks = after, !.wires = wires], out |-> more]
  BY <1>1, <1>4, <1>5, <1>8, <1>10, <1>12, <1>z DEF Write
<1>15. PICK t : t = [s.tr EXCEPT !.blocks = after, !.wires = wires]
  OBVIOUS
<1>16. t \in Translations /\ t.blocks = after /\ t.wires = wires
  BY <1>2, <1>7, <1>11, <1>15 DEF Translations
<1>17. TransOK(t)
  BY <1>6, <1>7, <1>11, <1>16 DEF TransOK
<1> QED BY <1>13, <1>14, <1>15, <1>16, <1>17 DEF Pushed

LEMMA ExtendKeeps ==
  ASSUME NEW s, Pushed(s), NEW kind \in Kinds, NEW n \in Nat
  PROVE  Pushed(extend(s, kind, n))
<1>1. s.tr.blocks \in Seq(BlockType)
  BY DEF Pushed, Translations
<1>2. PICK i \in 1..(Len(s.tr.blocks) + 1) : extend(s, kind, n) = Write(s, i, kind, -1, n, "")
  <2>1. PICK l : l = Len(s.tr.blocks)
    OBVIOUS
  <2>2. l \in Nat
    BY <1>1, <2>1
  <2>3. extend(s, kind, n) = Write(s, IF l > 0 /\ s.tr.blocks[l].kind = kind THEN l ELSE l + 1, kind, -1, n, "")
    BY <2>1 DEF extend
  <2>4. (IF l > 0 /\ s.tr.blocks[l].kind = kind THEN l ELSE l + 1) \in 1..(l + 1)
    BY <2>2
  <2> QED BY <2>1, <2>3, <2>4
<1>3. "" \in Names /\ -1 \in Int
  BY DEF Names
<1> QED BY <1>2, <1>3, WriteKeeps

LEMMA WriteCallKeeps ==
  ASSUME NEW s, Pushed(s), NEW call \in [index : Nat, id : Names], NEW n \in Nat
  PROVE  Pushed(WriteCall(s, call, n))
<1>1. s.tr.blocks \in Seq(BlockType) /\ s.tr.wires \in Seq(Int) /\ Len(s.tr.wires) = Len(s.tr.blocks)
  BY DEF Pushed, TransOK, Translations
<1> DEFINE known == {k \in DOMAIN s.tr.wires : s.tr.wires[k] = call.index}
           i == IF known # {} THEN CHOOSE k \in known : TRUE ELSE Len(s.tr.blocks) + 1
<1>2. i \in 1..(Len(s.tr.blocks) + 1)
  <2>1. CASE known # {}
    <3>1. (CHOOSE k \in known : TRUE) \in known
      BY <2>1
    <3> QED BY <1>1, <2>1, <3>1
  <2>2. CASE known = {}
    BY <1>1, <2>2
  <2> QED BY <2>1, <2>2
<1>3. WriteCall(s, call, n) = Write(s, i, "tool-call", call.index, n, call.id)
  BY DEF WriteCall
<1> HIDE DEF i
<1>4. call.index \in Int /\ call.id \in Names /\ "tool-call" \in Kinds
  BY DEF Kinds
<1> QED BY <1>2, <1>3, <1>4, WriteKeeps

\* WriteCalls is a recursion along the calls of a wire chunk.
Writes(s, calls, n, k, f) ==
  f = [j \in 0..k |-> IF j = 0 THEN s ELSE WriteCall(f[j - 1], calls[j], n)]

LEMMA WritesExist ==
  ASSUME NEW s, NEW calls, NEW n, NEW k \in Nat
  PROVE  \E f : Writes(s, calls, n, k, f)
<1> DEFINE Good == {l \in Nat : \E f : Writes(s, calls, n, l, f)}
<1>1. 0 \in Good
  <2> DEFINE f == [j \in 0..0 |-> s]
  <2>1. Writes(s, calls, n, 0, f)
    BY DEF Writes
  <2> QED BY <2>1
<1>2. ASSUME NEW l \in Nat, l \in Good PROVE l + 1 \in Good
  <2>1. PICK f : Writes(s, calls, n, l, f)
    BY <1>2
  <2> DEFINE g == [j \in 0..(l + 1) |-> IF j = l + 1 THEN WriteCall(f[l], calls[l + 1], n) ELSE f[j]]
  <2>2. \A j \in 0..l : g[j] = f[j]
    OBVIOUS
  <2>3. \A j \in 0..l : f[j] = IF j = 0 THEN s ELSE WriteCall(f[j - 1], calls[j], n)
    BY <2>1 DEF Writes
  <2>4. ASSUME NEW j \in 0..(l + 1)
        PROVE  g[j] = IF j = 0 THEN s ELSE WriteCall(g[j - 1], calls[j], n)
    <3>1. CASE j = l + 1
      BY <3>1, <2>2
    <3>2. CASE j # l + 1
      <4>1. j \in 0..l /\ (j # 0 => j - 1 \in 0..l)
        BY <3>2
      <4> QED BY <4>1, <2>2, <2>3
    <3> QED BY <3>1, <3>2
  <2>5. Writes(s, calls, n, l + 1, g)
    BY <2>4 DEF Writes
  <2> QED BY <2>5
<1> HIDE DEF Good
<1>3. k \in Good
  BY <1>1, <1>2, NaturalsIn
<1> QED BY <1>3 DEF Good

LEMMA WriteCallsKeeps ==
  ASSUME NEW s, Pushed(s), NEW calls \in Seq([index : Nat, id : Names]), NEW n \in Nat
  PROVE  Pushed(WriteCalls(s, calls, n))
<1>1. PICK l : l = Len(calls)
  OBVIOUS
<1>2. l \in Nat /\ Len(calls) \in Nat /\ \A j \in 1..l : calls[j] \in [index : Nat, id : Names]
  <2>1. PICK S : S = [index : Nat, id : Names]
    OBVIOUS
  <2>2. calls \in Seq(S)
    BY <2>1
  <2>3. l \in Nat /\ Len(calls) \in Nat /\ \A j \in 1..l : calls[j] \in S
    BY <1>1, <2>2
  <2> QED BY <2>1, <2>3, Zenon
<1> DEFINE after == CHOOSE f : f = [j \in 0..Len(calls) |->
                      IF j = 0 THEN s ELSE WriteCall(f[j - 1], calls[j], n)]
<1>3. after = [j \in 0..l |-> IF j = 0 THEN s ELSE WriteCall(after[j - 1], calls[j], n)]
  <2>1. \E f : f = [j \in 0..Len(calls) |-> IF j = 0 THEN s ELSE WriteCall(f[j - 1], calls[j], n)]
    <3>1. \E f : Writes(s, calls, n, Len(calls), f)
      BY <1>2, WritesExist
    <3> QED BY <3>1 DEF Writes
  <2>2. after = [j \in 0..Len(calls) |-> IF j = 0 THEN s ELSE WriteCall(after[j - 1], calls[j], n)]
    BY <2>1
  <2> HIDE DEF after
  <2> QED BY <1>1, <2>2
<1>4. WriteCalls(s, calls, n) = after[l]
  BY <1>1 DEF WriteCalls
<1> HIDE DEF after
<1> DEFINE Good == {j \in Nat : j <= l => Pushed(after[j])}
<1>5. 0 \in Good
  BY <1>2, <1>3
<1>6. ASSUME NEW j \in Nat, j \in Good PROVE j + 1 \in Good
  <2>1. SUFFICES ASSUME j + 1 <= l PROVE Pushed(after[j + 1])
    OBVIOUS
  <2>2. j + 1 \in 0..l /\ j + 1 \in 1..l /\ (j + 1) - 1 = j /\ j + 1 # 0 /\ Pushed(after[j])
    BY <1>2, <1>6, <2>1
  <2>3. after[j + 1] = WriteCall(after[j], calls[j + 1], n)
    BY <1>3, <2>2
  <2> QED BY <1>2, <2>2, <2>3, WriteCallKeeps
<1> HIDE DEF Good
<1>7. l \in Good
  BY <1>2, <1>5, <1>6, NaturalsIn
<1> QED BY <1>2, <1>4, <1>7 DEF Good

WireType ==
  [reasoning : BOOLEAN, text : BOOLEAN, finish : STRING, usage : BOOLEAN,
   calls : Seq([index : Nat, id : Names])]

LEMMA WireTyped == WireChunks \subseteq WireType
<1>1. [index : Nat, id : STRING] \subseteq [index : Nat, id : Names]
  BY DEF Names
<1>2. Seq([index : Nat, id : STRING]) \subseteq Seq([index : Nat, id : Names])
  <2>1. PICK A, B : A = [index : Nat, id : STRING] /\ B = [index : Nat, id : Names]
    OBVIOUS
  <2>2. A \subseteq B
    BY <1>1, <2>1
  <2>3. Seq(A) \subseteq Seq(B)
    BY <2>2
  <2> QED BY <2>1, <2>3, Zenon
<1> QED BY <1>2, StreamAssumption DEF WireType

LEMMA PushKeeps ==
  ASSUME NEW tr, TransOK(tr), NEW w \in WireType, NEW n \in Nat
  PROVE  Pushed(push(tr, w, n))
<1>1. PICK s0 : s0 = [tr |-> tr, out |-> <<>>]
  OBVIOUS
<1>2. Pushed(s0)
  <2>1. <<>> \in Seq(Content)
    OBVIOUS
  <2> QED BY <1>1, <2>1 DEF Pushed, TransOK
<1>3. PICK s1 : s1 = IF w.reasoning THEN extend(s0, "reasoning", n) ELSE s0
  OBVIOUS
<1>4. Pushed(s1)
  BY <1>2, <1>3, ExtendKeeps DEF Kinds
<1>5. PICK s2 : s2 = IF w.text THEN extend(s1, "text", n) ELSE s1
  OBVIOUS
<1>6. Pushed(s2)
  BY <1>4, <1>5, ExtendKeeps DEF Kinds
<1>7. PICK s3 : s3 = WriteCalls(s2, w.calls, n)
  OBVIOUS
<1>8. Pushed(s3)
  BY <1>6, <1>7, WriteCallsKeeps DEF WireType
<1>9. PICK r, u : /\ r = IF w.finish = "none" THEN s3.tr.finish ELSE mapFinishReason(w.finish)
                  /\ u = (s3.tr.usage \/ w.usage)
  OBVIOUS
<1>10. PICK t : t = s3.tr
  OBVIOUS
<1>11. t \in Translations /\ Len(t.wires) = Len(t.blocks)
       /\ s3 = [tr |-> t, out |-> s3.out] /\ s3.out \in Seq(Content)
  BY <1>8, <1>10 DEF Pushed, TransOK
<1>12. r \in (Reasons \ {"aborted"}) \cup {"none"} /\ u \in BOOLEAN
  <2>1. t.finish \in (Reasons \ {"aborted"}) \cup {"none"} /\ t.usage \in BOOLEAN /\ w.usage \in BOOLEAN
    BY <1>11 DEF Translations, WireType
  <2> QED BY <1>9, <1>10, <2>1 DEF mapFinishReason, Reasons
<1>13. push(tr, w, n)
         = [s3 EXCEPT !.tr.finish = IF w.finish = "none" THEN @ ELSE mapFinishReason(w.finish),
                      !.tr.usage = @ \/ w.usage]
  BY <1>1, <1>3, <1>5, <1>7 DEF push
<1>14. PICK v : v = [s3 EXCEPT !.tr = [blocks |-> t.blocks, wires |-> t.wires, usage |-> u, finish |-> r]]
  OBVIOUS
<1>15. push(tr, w, n) = v
  BY <1>9, <1>10, <1>11, <1>13, <1>14, ZenonT(40) DEF Translations
<1>16. [blocks |-> t.blocks, wires |-> t.wires, usage |-> u, finish |-> r] \in Translations
  BY <1>11, <1>12 DEF Translations
<1> QED BY <1>11, <1>14, <1>15, <1>16 DEF Pushed, TransOK

\* What finalize makes: a finish, behind chunks that are none.
LEMMA FinalizeEnds ==
  ASSUME NEW tr, TransOK(tr)
  PROVE  \E s \in Seq(Content), r \in Reasons : finalize(tr) = Append(s, Finish(r))
<1>1. PICK b, m : b = tr.blocks /\ m = [i \in DOMAIN b |-> End(i, b[i])]
  OBVIOUS
<1>2. b \in Seq(BlockType)
  BY <1>1 DEF TransOK, Translations
<1>3. \A i \in 1..Len(b) : End(i, b[i]) \in Content
  BY <1>2, ChunkTypes
<1>4. m \in Seq(Content)
  <2>1. m = [i \in 1..Len(b) |-> End(i, b[i])] /\ Len(b) \in Nat
    BY <1>1, <1>2
  <2> QED BY <1>3, <2>1
<1>5. PICK u : u = IF tr.usage THEN <<Usage>> ELSE <<>>
  OBVIOUS
<1>6. u \in Seq(Content)
  BY <1>5, ChunkTypes
<1>7. PICK f : f = IF tr.finish = "none" THEN "stop" ELSE tr.finish
  OBVIOUS
<1>8. PICK r : r = IF tr.blocks = <<>> /\ f = "stop" THEN "error" ELSE f
  OBVIOUS
<1>9. r \in Reasons
  <2>1. tr.finish \in Reasons \cup {"none"}
    BY DEF TransOK, Translations
  <2> QED BY <1>7, <1>8, <2>1 DEF Reasons
<1>10. finalize(tr) = m \o u \o <<Finish(r)>>
  BY <1>1, <1>5, <1>7, <1>8 DEF finalize
<1>11. PICK c : c = Finish(r)
  OBVIOUS
<1>12. m \o u \in Seq(Content) /\ m \o u \o <<c>> = Append(m \o u, c)
  BY <1>4, <1>6
<1> QED BY <1>9, <1>10, <1>11, <1>12

-----------------------------------------------------------------------------
(* Where the finish is.                                                    *)

NoFinish(s) == \A i \in DOMAIN s : s[i].type # "finish"
OneFinish(s) ==
  s # <<>> /\ s[Len(s)].type = "finish" /\ \A i \in DOMAIN s : s[i].type = "finish" => i = Len(s)

LEMMA FinishAppends ==
  ASSUME NEW s \in Seq(Chunks), NoFinish(s), NEW c \in Chunks
  PROVE  /\ c.type # "finish" => NoFinish(Append(s, c))
         /\ c.type = "finish" => OneFinish(Append(s, c))
<1>1. PICK l, h : l = Len(s) /\ h = Append(s, c)
  OBVIOUS
<1>2. /\ l \in Nat /\ DOMAIN s = 1..l /\ DOMAIN h = 1..(l + 1) /\ Len(h) = l + 1 /\ h # <<>>
      /\ h[l + 1] = c /\ \A i \in 1..l : h[i] = s[i]
  BY <1>1
<1>3. \A i \in 1..(l + 1) : i # l + 1 => i \in 1..l
  BY <1>2
<1> QED BY <1>1, <1>2, <1>3 DEF NoFinish, OneFinish

LEMMA FinishLeaves ==
  ASSUME NEW s \in Seq(Chunks), s # <<>>
  PROVE  /\ Head(s) \in Chunks /\ Tail(s) \in Seq(Chunks) /\ Len(Tail(s)) = Len(s) - 1
         /\ (Len(s) > 1 <=> Tail(s) # <<>>)
         /\ NoFinish(s) => Head(s).type # "finish" /\ NoFinish(Tail(s))
         /\ OneFinish(s) =>
              IF Tail(s) = <<>> THEN Head(s).type = "finish"
              ELSE Head(s).type # "finish" /\ OneFinish(Tail(s))
<1>1. PICK l, t, c : l = Len(s) /\ t = Tail(s) /\ c = Head(s)
  OBVIOUS
<1>2. /\ l \in Nat \ {0} /\ DOMAIN s = 1..l /\ c = s[1] /\ c \in Chunks
      /\ t \in Seq(Chunks) /\ Len(t) = l - 1 /\ DOMAIN t = 1..(l - 1)
      /\ \A i \in 1..(l - 1) : t[i] = s[i + 1]
  BY <1>1
<1>3. l > 1 <=> t # <<>>
  BY <1>2
<1>4. \A i \in 1..(l - 1) : i + 1 \in 1..l
  BY <1>2
<1>5. ASSUME NoFinish(s) PROVE c.type # "finish" /\ NoFinish(t)
  <2>1. \A i \in 1..l : s[i].type # "finish"
    BY <1>2, <1>5 DEF NoFinish
  <2>2. \A i \in 1..(l - 1) : t[i].type # "finish"
    BY <1>2, <1>4, <2>1
  <2>3. 1 \in 1..l
    BY <1>2
  <2> QED BY <1>2, <2>1, <2>2, <2>3 DEF NoFinish
<1>6. ASSUME OneFinish(s), t = <<>> PROVE c.type = "finish"
  BY <1>1, <1>2, <1>3, <1>6 DEF OneFinish
<1>7. ASSUME OneFinish(s), t # <<>> PROVE c.type # "finish" /\ OneFinish(t)
  <2>1. l > 1 /\ 1 \in 1..l /\ 1 # l
    BY <1>2, <1>3, <1>7
  <2>2. c.type # "finish"
    BY <1>1, <1>2, <1>7, <2>1 DEF OneFinish
  <2>3. t[l - 1] = s[l]
    BY <1>2, <2>1
  <2>4. t[Len(t)].type = "finish"
    BY <1>1, <1>2, <1>7, <2>3 DEF OneFinish
  <2>5. ASSUME NEW i \in DOMAIN t, t[i].type = "finish" PROVE i = Len(t)
    <3>1. i \in 1..(l - 1) /\ i + 1 \in 1..l /\ s[i + 1].type = "finish"
      BY <1>2, <1>4, <2>5
    <3> QED BY <1>1, <1>2, <1>7, <3>1 DEF OneFinish
  <2> QED BY <1>7, <2>2, <2>4, <2>5 DEF OneFinish
<1> QED BY <1>1, <1>2, <1>3, <1>5, <1>6, <1>7

-----------------------------------------------------------------------------
(* The invariant.                                                          *)

Events == [kind : {"none", "data", "done", "eof", "junk", "idle"}]
Outcomes == {"none", "error", "aborted", "interrupted", "max-tokens", "tools", "completed"}

ProviderTyped ==
  /\ wire \in Seq(WireChunks) /\ scan \in {"off", "read", "line", "offer", "ended"}
  /\ event \in Events /\ cancelled \in BOOLEAN /\ outcome \in Outcomes
  /\ event.kind = "data" => wire # <<>>
ChunksTyped ==
  /\ pump \in {"request", "wait", "send", "last", "closed"}
  /\ TransOK(st)
  /\ todo \in Seq(Chunks) /\ out \in Seq(Chunks) /\ Len(out) <= OutCap
  /\ got \in Seq(Chunks)

\* What the pump sends has no finish until it closes, and then one at its end.
FinishIsLast ==
  /\ pump \in {"request", "wait"} => todo = <<>>
  /\ pump = "send" => todo # <<>> /\ NoFinish(todo)
  /\ pump = "last" => todo # <<>> /\ OneFinish(todo)
  /\ pump # "closed" => NoFinish(out) /\ NoFinish(got)
  /\ pump = "closed" =>
       /\ todo = <<>>
       /\ \/ NoFinish(got) /\ NoFinish(out) /\ cancelled
          \/ NoFinish(got) /\ OneFinish(out)
          \/ OneFinish(got) /\ out = <<>>
  /\ outcome # "none" => pump = "request" \/ (pump = "closed" /\ out = <<>>)

Streamed == ProviderTyped /\ ChunksTyped /\ FinishIsLast

pumpVars == <<pump, todo, st, out>>
stepVars == <<got, asm, items, outcome, kept>>

LEMMA StreamedAtFirst == Init => Streamed
<1> SUFFICES ASSUME Init PROVE Streamed
  OBVIOUS
<1>1. /\ wire \in Seq(WireChunks) /\ <<>> \in Seq(Chunks) /\ Len(<<>>) <= OutCap
      /\ DOMAIN <<>> = {}
  BY StreamAssumption DEF Init
<1>2. ProviderTyped
  BY <1>1 DEF Init, ProviderTyped, Events, NoEvent, Outcomes
<1>3. TransOK(st)
  <2>1. <<>> \in Seq(BlockType) /\ <<>> \in Seq(Int) /\ Len(<<>>) = Len(<<>>)
    OBVIOUS
  <2> QED BY <2>1 DEF Init, NoTranslation, TransOK, Translations
<1>4. ChunksTyped
  BY <1>1, <1>3 DEF Init, ChunksTyped
<1>5. FinishIsLast
  BY <1>1 DEF Init, FinishIsLast, NoFinish
<1> QED BY <1>2, <1>4, <1>5 DEF Streamed

LEMMA ScanKeeps ==
  ASSUME Streamed, ScanReads \/ ScanBreaks \/ ScanIdles
  PROVE  Streamed'
<1>1. /\ UNCHANGED <<pumpVars, stepVars, cancelled>>
      /\ wire' \in Seq(WireChunks) /\ scan' = "offer" /\ event' \in Events
      /\ event'.kind = "data" => wire' # <<>>
  <2>1. CASE ScanBreaks \/ ScanIdles
    BY <2>1 DEF ScanBreaks, ScanIdles, Offer, Streamed, ProviderTyped, Events,
                pumpVars, stepVars
  <2>2. ASSUME ScanReads, NEW w \in WireChunks, wire' = Append(wire, w), Offer([kind |-> "data"])
        PROVE  /\ wire' \in Seq(WireChunks) /\ wire' # <<>>
               /\ event' \in Events /\ scan' = "offer"
    BY <2>2 DEF Offer, Streamed, ProviderTyped, Events
  <2>3. ASSUME ScanReads,
               NEW kind \in {"done", "eof", "junk"}, Offer([kind |-> kind]), UNCHANGED wire
        PROVE  /\ wire' \in Seq(WireChunks) /\ event'.kind # "data"
               /\ event' \in Events /\ scan' = "offer"
    BY <2>3 DEF Offer, Streamed, ProviderTyped, Events
  <2>4. CASE ScanReads
    BY <2>2, <2>3, <2>4 DEF ScanReads, pumpVars, stepVars
  <2> QED BY <2>1, <2>4
<1>2. ProviderTyped'
  BY <1>1 DEF Streamed, ProviderTyped, stepVars
<1>3. ChunksTyped' /\ FinishIsLast'
  BY <1>1 DEF Streamed, ChunksTyped, FinishIsLast, pumpVars, stepVars, TransOK, NoFinish, OneFinish
<1> QED BY <1>2, <1>3 DEF Streamed

LEMMA LineKeeps ==
  ASSUME Streamed, ScanHears \/ ScanRenews
  PROVE  Streamed'
<1>1. /\ UNCHANGED <<wire, event, pumpVars, stepVars, cancelled>> /\ scan' \in {"read", "line"}
  BY DEF ScanHears, ScanRenews, pumpVars, stepVars
<1>2. ProviderTyped'
  BY <1>1 DEF Streamed, ProviderTyped, stepVars
<1>3. ChunksTyped' /\ FinishIsLast'
  BY <1>1 DEF Streamed, ChunksTyped, FinishIsLast, pumpVars, stepVars, TransOK, NoFinish, OneFinish
<1> QED BY <1>2, <1>3 DEF Streamed

LEMMA RequestKeeps ==
  ASSUME Streamed, Request \/ Cancel
  PROVE  Streamed'
<1>1. ProviderTyped'
  BY DEF Streamed, ProviderTyped, Request, Cancel, Outcomes
<1>2. ChunksTyped'
  BY DEF Streamed, ChunksTyped, Request, Cancel, TransOK
<1>3. FinishIsLast'
  <2>1. CASE Request
    BY <2>1 DEF Streamed, FinishIsLast, Request, NoFinish, OneFinish
  <2>2. CASE Cancel
    BY <2>2 DEF Streamed, FinishIsLast, Cancel, NoFinish, OneFinish
  <2> QED BY <2>1, <2>2
<1> QED BY <1>1, <1>2, <1>3 DEF Streamed

LEMMA PumpTakesKeeps ==
  ASSUME Streamed, PumpTakes
  PROVE  Streamed'
<1>0. /\ pump = "wait" /\ event' = NoEvent /\ scan' \in {"ended", "read"}
      /\ UNCHANGED <<wire, out, cancelled, stepVars>>
      /\ TransOK(st) /\ todo = <<>> /\ NoFinish(out) /\ NoFinish(got) /\ outcome = "none"
  BY DEF PumpTakes, Streamed, ChunksTyped, FinishIsLast, stepVars
<1>1. ProviderTyped'
  BY <1>0 DEF Streamed, ProviderTyped, Events, NoEvent, stepVars
<1>2. TransOK(st') /\ todo' \in Seq(Chunks) /\ pump' \in {"wait", "send", "last"}
      /\ (pump' = "wait" => todo' = <<>>)
      /\ (pump' = "send" => todo' # <<>> /\ NoFinish(todo'))
      /\ (pump' = "last" => todo' # <<>> /\ OneFinish(todo'))
  <2>1. \A s \in Seq(Content) : s \in Seq(Chunks) /\ NoFinish(s)
    <3>1. Content \subseteq Chunks
      BY DEF Chunks
    <3>2. ASSUME NEW s \in Seq(Content) PROVE s \in Seq(Chunks) /\ NoFinish(s)
      <4>1. s \in Seq(Chunks)
        BY <3>1
      <4>2. \A i \in DOMAIN s : s[i] \in Content
        OBVIOUS
      <4> QED BY <4>1, <4>2, ContentIsNoFinish DEF NoFinish
    <3> QED BY <3>2
  <2>2. ASSUME NEW s \in Seq(Content), NEW r \in Reasons
        PROVE  LET t == Append(s, Finish(r))
               IN  t \in Seq(Chunks) /\ t # <<>> /\ OneFinish(t)
    <3>1. PICK c : c = Finish(r)
      OBVIOUS
    <3>2. c \in Chunks /\ c.type = "finish"
      BY <3>1, ChunkTypes DEF Chunks, Finish
    <3>3. s \in Seq(Chunks) /\ NoFinish(s)
      BY <2>1
    <3>4. Append(s, c) \in Seq(Chunks) /\ Append(s, c) # <<>>
      BY <3>2, <3>3
    <3> QED BY <3>1, <3>2, <3>3, <3>4, FinishAppends
  <2>3. CASE event.kind = "data"
    <3>1. Last(wire) \in WireChunks /\ Len(wire) \in Nat
      <4>1. wire \in Seq(WireChunks) /\ wire # <<>>
        BY <2>3 DEF Streamed, ProviderTyped
      <4> QED BY <4>1 DEF Last
    <3>2. Last(wire) \in WireType
      BY <3>1, WireTyped
    <3>3. PICK s : s = push(st, Last(wire), Len(wire))
      OBVIOUS
    <3>4. Pushed(s)
      BY <1>0, <3>1, <3>2, <3>3, PushKeeps
    <3>5. st' = s.tr /\ todo' = s.out /\ pump' = IF s.out = <<>> THEN "wait" ELSE "send"
      BY <2>3, <3>3 DEF PumpTakes
    <3> QED BY <2>1, <3>4, <3>5 DEF Pushed
  <2>4. CASE event.kind = "done"
    <3>1. todo' = finalize(st) /\ pump' = "last" /\ st' = st
      BY <2>4 DEF PumpTakes
    <3> QED BY <1>0, <2>2, <3>1, FinalizeEnds
  <2>5. CASE event.kind \notin {"data", "done"}
    <3>1. todo' = <<Finish("error")>> /\ pump' = "last" /\ st' = st
      BY <2>5 DEF PumpTakes
    <3>2. <<>> \in Seq(Content) /\ "error" \in Reasons
      BY DEF Reasons
    <3>3. todo' = Append(<<>>, Finish("error"))
      BY <3>1
    <3> QED BY <1>0, <2>2, <3>1, <3>2, <3>3
  <2> QED BY <2>3, <2>4, <2>5
<1>3. ChunksTyped'
  BY <1>0, <1>2 DEF Streamed, ChunksTyped, stepVars, TransOK
<1>4. FinishIsLast'
  BY <1>0, <1>2 DEF FinishIsLast, stepVars, NoFinish, OneFinish
<1> QED BY <1>1, <1>3, <1>4 DEF Streamed

LEMMA PumpSendsKeeps ==
  ASSUME Streamed, PumpSends
  PROVE  Streamed'
<1>1. PICK c : c = Head(todo)
  OBVIOUS
<1>2. /\ todo \in Seq(Chunks) /\ todo # <<>> /\ out \in Seq(Chunks) /\ Len(out) < OutCap
      /\ out' = Append(out, c) /\ todo' = Tail(todo)
      /\ pump' = IF Len(todo) > 1 THEN pump ELSE IF pump = "last" THEN "closed" ELSE "wait"
      /\ UNCHANGED <<wire, scan, event, st, cancelled, stepVars>>
  BY <1>1 DEF PumpSends, Streamed, ChunksTyped, stepVars
<1>3. c \in Chunks /\ todo' \in Seq(Chunks) /\ (Len(todo) > 1 <=> todo' # <<>>)
  BY <1>1, <1>2, FinishLeaves
<1>4. pump \in {"send", "last"} /\ NoFinish(out) /\ NoFinish(got) /\ outcome = "none"
  BY <1>2 DEF Streamed, ChunksTyped, FinishIsLast
<1>5. ProviderTyped'
  BY <1>2 DEF Streamed, ProviderTyped, stepVars
<1>6. ChunksTyped'
  <2>1. out' \in Seq(Chunks) /\ Len(out') <= OutCap
    BY <1>2, <1>3, StreamAssumption
  <2> QED BY <1>2, <1>3, <1>4, <2>1 DEF Streamed, ChunksTyped, stepVars, TransOK
<1>7. FinishIsLast'
  <2>1. got' = got /\ outcome' = outcome
    BY <1>2 DEF stepVars
  <2>2. CASE pump = "send"
    <3>1. NoFinish(todo)
      BY <2>2 DEF Streamed, FinishIsLast
    <3>2. NoFinish(todo') /\ NoFinish(out')
      BY <1>1, <1>2, <1>3, <1>4, <3>1, FinishLeaves, FinishAppends
    <3>3. pump' = IF todo' # <<>> THEN "send" ELSE "wait"
      BY <1>2, <1>3, <2>2
    <3> QED BY <1>3, <1>4, <2>1, <3>2, <3>3 DEF FinishIsLast, NoFinish
  <2>3. CASE pump = "last" /\ todo' # <<>>
    <3>1. OneFinish(todo)
      BY <2>3 DEF Streamed, FinishIsLast
    <3>2. OneFinish(todo') /\ NoFinish(out')
      BY <1>1, <1>2, <1>3, <1>4, <2>3, <3>1, FinishLeaves, FinishAppends
    <3>3. pump' = "last"
      BY <1>2, <1>3, <2>3
    <3> QED BY <1>3, <1>4, <2>1, <2>3, <3>2, <3>3 DEF FinishIsLast, NoFinish
  <2>4. CASE pump = "last" /\ todo' = <<>>
    <3>1. OneFinish(todo)
      BY <2>4 DEF Streamed, FinishIsLast
    <3>2. OneFinish(out')
      BY <1>1, <1>2, <1>3, <1>4, <2>4, <3>1, FinishLeaves, FinishAppends
    <3>3. pump' = "closed"
      BY <1>2, <1>3, <2>4
    <3> QED BY <1>4, <2>1, <2>4, <3>2, <3>3 DEF FinishIsLast, NoFinish
  <2> QED BY <1>4, <2>2, <2>3, <2>4
<1> QED BY <1>5, <1>6, <1>7 DEF Streamed

LEMMA PumpStopsKeeps ==
  ASSUME Streamed, PumpSeesCancel \/ PumpGivesUp
  PROVE  Streamed'
<1>1. ProviderTyped'
  BY DEF PumpSeesCancel, PumpGivesUp, Streamed, ProviderTyped
<1>2. CASE PumpSeesCancel
  <2>1. todo' = <<Finish("aborted")>> /\ pump' = "last" /\ UNCHANGED <<st, out, got, outcome>>
        /\ pump = "wait"
    BY <1>2 DEF PumpSeesCancel
  <2>2. Finish("aborted") \in Chunks /\ Finish("aborted").type = "finish"
    BY ChunkTypes DEF Reasons, Chunks, Finish
  <2>3. PICK c : c = Finish("aborted")
    OBVIOUS
  <2>4. todo' \in Seq(Chunks) /\ OneFinish(todo') /\ todo' # <<>>
    BY <2>1, <2>2, <2>3 DEF OneFinish
  <2>5. ChunksTyped'
    BY <2>1, <2>4 DEF Streamed, ChunksTyped, TransOK
  <2>6. FinishIsLast'
    BY <2>1, <2>4 DEF Streamed, FinishIsLast, NoFinish
  <2> QED BY <1>1, <2>5, <2>6 DEF Streamed
<1>3. CASE PumpGivesUp
  <2>1. /\ todo # <<>> /\ cancelled /\ todo' = <<>> /\ pump' = "closed"
        /\ UNCHANGED <<st, out, got, outcome, cancelled>>
    BY <1>3 DEF PumpGivesUp
  <2>2. pump \in {"send", "last"} /\ NoFinish(got) /\ NoFinish(out) /\ outcome = "none"
    BY <2>1 DEF Streamed, ChunksTyped, FinishIsLast
  <2>3. ChunksTyped'
    BY <2>1 DEF Streamed, ChunksTyped, TransOK
  <2>4. FinishIsLast'
    BY <2>1, <2>2 DEF FinishIsLast, NoFinish
  <2> QED BY <1>1, <2>3, <2>4 DEF Streamed
<1> QED BY <1>2, <1>3

LEMMA StepKeeps ==
  ASSUME Streamed, StepStep
  PROVE  Streamed'
<1>1. CASE StepReceives
  <2>1. PICK c : c = Head(out)
    OBVIOUS
  <2>2. /\ out \in Seq(Chunks) /\ out # <<>> /\ got \in Seq(Chunks) /\ got' = Append(got, c)
        /\ out' = Tail(out) /\ Len(out) <= OutCap /\ outcome = "none"
        /\ UNCHANGED <<wire, scan, event, pump, todo, st, cancelled, outcome>>
    BY <1>1, <2>1 DEF StepReceives, Streamed, ChunksTyped
  <2>3. c \in Chunks /\ out' \in Seq(Chunks) /\ Len(out') = Len(out) - 1 /\ Len(out) \in Nat
    BY <2>1, <2>2, FinishLeaves
  <2>4. ProviderTyped'
    BY <2>2 DEF Streamed, ProviderTyped
  <2>5. ChunksTyped'
    <3>1. got' \in Seq(Chunks) /\ Len(out') <= OutCap
      BY <2>2, <2>3, StreamAssumption
    <3> QED BY <2>2, <2>3, <3>1 DEF Streamed, ChunksTyped, TransOK
  <2>6. NoFinish(got)
    BY <2>2 DEF Streamed, FinishIsLast
  <2>7. CASE NoFinish(out)
    <3>1. NoFinish(out') /\ NoFinish(got')
      BY <2>1, <2>2, <2>3, <2>6, <2>7, FinishLeaves, FinishAppends
    <3>2. pump = "closed" => cancelled
      <4>1. ASSUME OneFinish(out) PROVE FALSE
        <5>1. Len(out) \in DOMAIN out
          BY <2>2
        <5> QED BY <2>7, <4>1, <5>1 DEF NoFinish, OneFinish
      <4> QED BY <2>2, <4>1 DEF Streamed, FinishIsLast
    <3>3. FinishIsLast'
      BY <2>2, <3>1, <3>2 DEF Streamed, FinishIsLast, NoFinish, OneFinish
    <3> QED BY <2>4, <2>5, <3>3 DEF Streamed
  <2>8. CASE ~NoFinish(out)
    <3>1. pump = "closed" /\ todo = <<>> /\ OneFinish(out)
      BY <2>2, <2>8 DEF Streamed, FinishIsLast
    <3>2. IF out' = <<>> THEN OneFinish(got') ELSE OneFinish(out') /\ NoFinish(got')
      BY <2>1, <2>2, <2>3, <2>6, <3>1, FinishLeaves, FinishAppends
    <3>3. FinishIsLast'
      <4>1. pump' = "closed" /\ todo' = <<>> /\ outcome' = "none"
        BY <2>2, <3>1
      <4> QED BY <3>2, <4>1 DEF FinishIsLast
    <3> QED BY <2>4, <2>5, <3>3 DEF Streamed
  <2> QED BY <2>7, <2>8
<1>2. CASE StepConcludes
  <2>1. /\ pump = "closed" /\ out = <<>> /\ outcome = "none"
        /\ UNCHANGED <<wire, scan, event, pump, todo, st, out, cancelled, got>>
        /\ outcome' \in Outcomes
    BY <1>2 DEF StepConcludes, Outcomes
  <2>2. ProviderTyped'
    BY <2>1 DEF Streamed, ProviderTyped
  <2>3. ChunksTyped'
    BY <2>1 DEF Streamed, ChunksTyped, TransOK
  <2>4. FinishIsLast'
    BY <2>1 DEF Streamed, FinishIsLast, NoFinish, OneFinish
  <2> QED BY <2>2, <2>3, <2>4 DEF Streamed
<1> QED BY <1>1, <1>2 DEF StepStep

LEMMA NextKeepsStream ==
  ASSUME Streamed, [Next]_vars
  PROVE  Streamed'
<1>1. CASE UNCHANGED vars
  <2>1. ProviderTyped' /\ ChunksTyped'
    BY <1>1 DEF vars, Streamed, ProviderTyped, ChunksTyped, TransOK
  <2>2. FinishIsLast'
    BY <1>1 DEF vars, Streamed, FinishIsLast, NoFinish, OneFinish
  <2> QED BY <2>1, <2>2 DEF Streamed
<1>2. CASE Next
  BY <1>2, ScanKeeps, LineKeeps, RequestKeeps, PumpTakesKeeps, PumpSendsKeeps, PumpStopsKeeps, StepKeeps
     DEF Next, ScanAlone, PumpStep
<1> QED BY <1>1, <1>2

\* Nothing a step receives follows a finish, and a stream that closes without
\* one was cancelled (translator.finalize, pump).
THEOREM FinishIsTheEnd == Spec => []FinishComesLast
<1>1. ASSUME Streamed PROVE FinishComesLast
  <2>1. \/ NoFinish(got) /\ (pump = "closed" /\ out = <<>> => cancelled)
        \/ OneFinish(got)
    <3>1. ~OneFinish(<<>>)
      BY DEF OneFinish
    <3> QED BY <1>1, <3>1 DEF Streamed, FinishIsLast
  <2>2. OneFinish(got) => HasFinish(got)
    <3>1. ASSUME OneFinish(got) PROVE Len(got) \in DOMAIN got
      BY <1>1, <3>1 DEF Streamed, ChunksTyped, OneFinish
    <3> QED BY <3>1 DEF OneFinish, HasFinish
  <2>3. \A i \in DOMAIN got : got[i].type = "finish" => i = Len(got)
    BY <2>1 DEF NoFinish, OneFinish
  <2>4. outcome # "none" /\ pump = "closed" => out = <<>>
    BY <1>1 DEF Streamed, FinishIsLast
  <2> QED BY <2>1, <2>2, <2>3, <2>4 DEF FinishComesLast
<1> QED BY <1>1, StreamedAtFirst, NextKeepsStream, PTL DEF Spec

-----------------------------------------------------------------------------
(* FlattenSeq and Assembled are recursions along a sequence.               *)

Flattens(q, k, f) == f = [i \in 1..k |-> IF i = 1 THEN q[i] ELSE f[i - 1] \o q[i]]
Assembles(s, k, f) == f = [n \in 0..k |-> IF n = 0 THEN NoAssembly ELSE Assemble(f[n - 1], s[n])]

LEMMA FlattensExist ==
  ASSUME NEW q, NEW k \in Nat
  PROVE  \E f : Flattens(q, k, f)
<1> DEFINE Good == {l \in Nat : \E f : Flattens(q, l, f)}
<1>1. 0 \in Good
  <2> DEFINE f == [i \in 1..0 |-> IF i = 1 THEN q[i] ELSE <<>>]
  <2>1. Flattens(q, 0, f)
    BY DEF Flattens
  <2> QED BY <2>1
<1>2. ASSUME NEW l \in Nat, l \in Good PROVE l + 1 \in Good
  <2>1. PICK f : Flattens(q, l, f)
    BY <1>2
  <2> DEFINE g == [i \in 1..(l + 1) |-> IF i = l + 1 THEN (IF i = 1 THEN q[1] ELSE f[l] \o q[l + 1])
                                        ELSE f[i]]
  <2>2. \A i \in 1..l : g[i] = f[i]
    OBVIOUS
  <2>3. \A i \in 1..l : f[i] = IF i = 1 THEN q[i] ELSE f[i - 1] \o q[i]
    BY <2>1 DEF Flattens
  <2>4. ASSUME NEW i \in 1..(l + 1)
        PROVE  g[i] = IF i = 1 THEN q[i] ELSE g[i - 1] \o q[i]
    <3>1. CASE i = l + 1
      <4>1. i # 1 => i - 1 = l /\ l \in 1..l
        BY <3>1
      <4> QED BY <3>1, <4>1, <2>2
    <3>2. CASE i # l + 1
      <4>1. i \in 1..l /\ (i # 1 => i - 1 \in 1..l)
        BY <3>2
      <4> QED BY <4>1, <2>2, <2>3
    <3> QED BY <3>1, <3>2
  <2>5. Flattens(q, l + 1, g)
    BY <2>4 DEF Flattens
  <2> QED BY <2>5
<1> HIDE DEF Good
<1>3. k \in Good
  BY <1>1, <1>2, NaturalsIn
<1> QED BY <1>3 DEF Good

LEMMA AssemblesExist ==
  ASSUME NEW s, NEW k \in Nat
  PROVE  \E f : Assembles(s, k, f)
<1> DEFINE Good == {l \in Nat : \E f : Assembles(s, l, f)}
<1>1. 0 \in Good
  <2> DEFINE f == [n \in 0..0 |-> NoAssembly]
  <2>1. Assembles(s, 0, f)
    BY DEF Assembles
  <2> QED BY <2>1
<1>2. ASSUME NEW l \in Nat, l \in Good PROVE l + 1 \in Good
  <2>1. PICK f : Assembles(s, l, f)
    BY <1>2
  <2> DEFINE g == [n \in 0..(l + 1) |-> IF n = l + 1 THEN Assemble(f[l], s[l + 1]) ELSE f[n]]
  <2>2. \A n \in 0..l : g[n] = f[n]
    OBVIOUS
  <2>3. \A n \in 0..l : f[n] = IF n = 0 THEN NoAssembly ELSE Assemble(f[n - 1], s[n])
    BY <2>1 DEF Assembles
  <2>4. ASSUME NEW n \in 0..(l + 1)
        PROVE  g[n] = IF n = 0 THEN NoAssembly ELSE Assemble(g[n - 1], s[n])
    <3>1. CASE n = l + 1
      BY <3>1, <2>2
    <3>2. CASE n # l + 1
      <4>1. n \in 0..l /\ (n # 0 => n - 1 \in 0..l)
        BY <3>2
      <4> QED BY <4>1, <2>2, <2>3
    <3> QED BY <3>1, <3>2
  <2>5. Assembles(s, l + 1, g)
    BY <2>4 DEF Assembles
  <2> QED BY <2>5
<1> HIDE DEF Good
<1>3. k \in Good
  BY <1>1, <1>2, NaturalsIn
<1> QED BY <1>3 DEF Good

LEMMA FlattensAgree ==
  ASSUME NEW q, NEW p, NEW k \in Nat, NEW l \in Nat, k <= l, \A i \in 1..k : p[i] = q[i],
         NEW f, Flattens(q, k, f), NEW g, Flattens(p, l, g)
  PROVE  \A i \in 1..k : f[i] = g[i]
<1> DEFINE Same == {i \in Nat : i \in 1..k => f[i] = g[i]}
<1>1. \A i \in 1..k : /\ f[i] = IF i = 1 THEN q[i] ELSE f[i - 1] \o q[i]
                      /\ g[i] = IF i = 1 THEN p[i] ELSE g[i - 1] \o p[i]
  <2>1. \A i \in 1..k : f[i] = IF i = 1 THEN q[i] ELSE f[i - 1] \o q[i]
    BY DEF Flattens
  <2>2. \A i \in 1..l : g[i] = IF i = 1 THEN p[i] ELSE g[i - 1] \o p[i]
    BY DEF Flattens
  <2>3. \A i \in 1..k : i \in 1..l
    OBVIOUS
  <2> QED BY <2>1, <2>2, <2>3, Zenon
<1>2. 0 \in Same
  OBVIOUS
<1>3. ASSUME NEW n \in Nat, n \in Same PROVE n + 1 \in Same
  <2>1. SUFFICES ASSUME n + 1 \in 1..k PROVE f[n + 1] = g[n + 1]
    OBVIOUS
  <2>2. n + 1 # 1 => n \in 1..k /\ (n + 1) - 1 = n /\ f[n] = g[n]
    BY <1>3, <2>1
  <2> QED BY <1>1, <2>1, <2>2
<1> HIDE DEF Same
<1>4. \A n \in Nat : n \in Same
  BY <1>2, <1>3, NaturalsIn
<1> QED BY <1>4 DEF Same

LEMMA AssemblesAgree ==
  ASSUME NEW s, NEW t, NEW k \in Nat, NEW l \in Nat, k <= l, \A i \in 1..k : t[i] = s[i],
         NEW f, Assembles(s, k, f), NEW g, Assembles(t, l, g)
  PROVE  \A n \in 0..k : f[n] = g[n]
<1> DEFINE Same == {n \in Nat : n <= k => f[n] = g[n]}
<1>1. \A m \in 0..k : /\ f[m] = IF m = 0 THEN NoAssembly ELSE Assemble(f[m - 1], s[m])
                      /\ g[m] = IF m = 0 THEN NoAssembly ELSE Assemble(g[m - 1], t[m])
  BY DEF Assembles
<1>2. 0 \in Same
  BY <1>1
<1>3. ASSUME NEW n \in Nat, n \in Same PROVE n + 1 \in Same
  <2>1. SUFFICES ASSUME n + 1 <= k PROVE f[n + 1] = g[n + 1]
    OBVIOUS
  <2>2. n + 1 \in 0..k /\ n + 1 \in 1..k /\ (n + 1) - 1 = n /\ f[n] = g[n]
    BY <1>3, <2>1
  <2> QED BY <1>1, <2>2
<1> HIDE DEF Same
<1>4. \A n \in Nat : n \in Same
  BY <1>2, <1>3, NaturalsIn
<1> QED BY <1>4 DEF Same

LEMMA FlattenIs ==
  ASSUME NEW S, NEW q \in Seq(S)
  PROVE  /\ Len(q) = 0 => FlattenSeq(q) = <<>>
         /\ Len(q) # 0 => \E f : Flattens(q, Len(q), f) /\ FlattenSeq(q) = f[Len(q)]
<1>1. Len(q) \in Nat /\ (Len(q) = 0 => q = <<>>)
  OBVIOUS
<1>2. Len(q) = 0 => FlattenSeq(q) = <<>>
  BY <1>1 DEF FlattenSeq
<1> DEFINE f == CHOOSE f : f = [i \in 1..Len(q) |-> IF i = 1 THEN q[i] ELSE f[i - 1] \o q[i]]
<1>3. f = [i \in 1..Len(q) |-> IF i = 1 THEN q[i] ELSE f[i - 1] \o q[i]]
  <2>1. \E g : g = [i \in 1..Len(q) |-> IF i = 1 THEN q[i] ELSE g[i - 1] \o q[i]]
    BY <1>1, FlattensExist DEF Flattens
  <2> QED BY <2>1
<1>4. Len(q) # 0 => FlattenSeq(q) = f[Len(q)]
  BY DEF FlattenSeq
<1> HIDE DEF f
<1> QED BY <1>2, <1>3, <1>4 DEF Flattens

LEMMA AssembledIs ==
  ASSUME NEW S, NEW s \in Seq(S)
  PROVE  \E f : Assembles(s, Len(s), f) /\ Assembled(s) = f[Len(s)]
<1>1. Len(s) \in Nat
  OBVIOUS
<1> DEFINE f == CHOOSE f : f = [n \in 0..Len(s) |->
                  IF n = 0 THEN NoAssembly ELSE Assemble(f[n - 1], s[n])]
<1>2. f = [n \in 0..Len(s) |-> IF n = 0 THEN NoAssembly ELSE Assemble(f[n - 1], s[n])]
  <2>1. \E g : g = [n \in 0..Len(s) |-> IF n = 0 THEN NoAssembly ELSE Assemble(g[n - 1], s[n])]
    BY <1>1, AssemblesExist DEF Assembles
  <2> QED BY <2>1
<1>3. Assembled(s) = f[Len(s)]
  BY DEF Assembled
<1> HIDE DEF f
<1> QED BY <1>2, <1>3 DEF Assembles

\* One sequence more is flattened behind the others.
LEMMA FlattenAppends ==
  ASSUME NEW F, NEW q \in Seq(Seq(F)), NEW s \in Seq(F), FlattenSeq(q) \in Seq(F)
  PROVE  FlattenSeq(Append(q, s)) = FlattenSeq(q) \o s
<1>1. PICK k, p, S : k = Len(q) /\ p = Append(q, s) /\ S = Seq(F)
  OBVIOUS
<1>2. /\ k \in Nat /\ q \in Seq(S) /\ p \in Seq(S) /\ Len(p) = k + 1
      /\ (\A i \in 1..k : p[i] = q[i]) /\ p[k + 1] = s
  BY <1>1
<1>3. PICK l : l = k + 1
  OBVIOUS
<1>4. l \in Nat /\ Len(p) = l /\ l # 0 /\ l - 1 = k /\ l \in 1..l /\ k <= l
  BY <1>2, <1>3
<1>5. PICK g : Flattens(p, l, g) /\ FlattenSeq(p) = g[l]
  BY <1>2, <1>4, FlattenIs
<1>6. g[l] = IF l = 1 THEN p[l] ELSE g[l - 1] \o p[l]
  BY <1>4, <1>5 DEF Flattens
<1>7. CASE k = 0
  <2>1. FlattenSeq(q) = <<>> /\ l = 1
    BY <1>1, <1>2, <1>3, <1>7, FlattenIs
  <2>2. <<>> \o s = s
    OBVIOUS
  <2> QED BY <1>1, <1>2, <1>3, <1>5, <1>6, <2>1, <2>2
<1>8. CASE k # 0
  <2>1. PICK f : Flattens(q, k, f) /\ FlattenSeq(q) = f[k]
    BY <1>1, <1>2, <1>8, FlattenIs
  <2>2. f[k] = g[k]
    <3>1. \A i \in 1..k : p[i] = q[i]
      BY <1>2
    <3>2. k \in Nat /\ l \in Nat /\ k <= l /\ k \in 1..k
      BY <1>2, <1>4, <1>8
    <3>3. Flattens(q, k, f) /\ Flattens(p, l, g)
      BY <1>5, <2>1
    <3>4. \A i \in 1..k : f[i] = g[i]
      <4>1. PICK a, b : a = q /\ b = p
        OBVIOUS
      <4>2. Flattens(a, k, f) /\ Flattens(b, l, g) /\ \A i \in 1..k : b[i] = a[i]
        BY <3>1, <3>3, <4>1, Zenon
      <4> QED BY ONLY <3>2, <4>2, FlattensAgree, SMTT(40)
    <3> QED BY <3>2, <3>4
  <2> QED BY <1>1, <1>2, <1>3, <1>4, <1>5, <1>6, <1>8, <2>1, <2>2
<1> QED BY <1>7, <1>8

\* One chunk more is one step more of the assembler.
LEMMA AssembledAppends ==
  ASSUME NEW s \in Seq(Chunks), NEW c \in Chunks
  PROVE  Assembled(Append(s, c)) = Assemble(Assembled(s), c)
<1>1. PICK k, t : k = Len(s) /\ t = Append(s, c)
  OBVIOUS
<1>2. /\ k \in Nat /\ t \in Seq(Chunks) /\ Len(t) = k + 1
      /\ (\A i \in 1..k : t[i] = s[i]) /\ t[k + 1] = c
  BY <1>1
<1>3. PICK l : l = k + 1
  OBVIOUS
<1>4. l \in Nat /\ Len(t) = l /\ l # 0 /\ l - 1 = k /\ l \in 0..l /\ k <= l /\ k \in 0..k
  BY <1>2, <1>3
<1>5. PICK g : Assembles(t, l, g) /\ Assembled(t) = g[l]
  BY <1>2, <1>4, AssembledIs
<1>6. PICK f : Assembles(s, k, f) /\ Assembled(s) = f[k]
  BY <1>1, AssembledIs
<1>7. f[k] = g[k]
  BY <1>2, <1>4, <1>5, <1>6, AssemblesAgree
<1>8. g[l] = Assemble(g[k], t[l])
  BY <1>4, <1>5 DEF Assembles
<1> QED BY <1>1, <1>2, <1>3, <1>5, <1>6, <1>7, <1>8

LEMMA AssembledNothing == Assembled(<<>>) = NoAssembly
<1>1. <<>> \in Seq(Chunks) /\ Len(<<>>) = 0
  OBVIOUS
<1>2. PICK f : Assembles(<<>>, 0, f) /\ Assembled(<<>>) = f[0]
  BY <1>1, AssembledIs
<1> QED BY <1>2 DEF Assembles

-----------------------------------------------------------------------------
(* The assembler takes a run of deltas like its pieces one by one.         *)

Opens == [index : Nat, block : BlockType]
Assemblies == [content : Seq(BlockType), open : Seq(Opens), finish : Reasons \cup {"none"}]

\* The deltas of a run, all of them with its id.
Run(x, kind, ps, id) == [k \in DOMAIN ps |-> Delta(x, kind, ps[k], id, 0)]

\* What a run adds to an open block, and to all of them.
Told(o, x, ps, id) ==
  IF o.index # x THEN o
  ELSE [index |-> o.index,
        block |-> [kind |-> o.block.kind, id |-> acceptIdentity(o.block.id, id),
                   buf |-> o.block.buf \o ps]]
AllTold(open, x, ps, id) == [i \in DOMAIN open |-> Told(open[i], x, ps, id)]
RunTold(a, x, ps, id) ==
  [content |-> a.content, open |-> AllTold(a.open, x, ps, id), finish |-> a.finish]

LEMMA ToldTyped ==
  ASSUME NEW o \in Opens, NEW x, NEW ps \in Seq(Nat), NEW id \in Names
  PROVE  Told(o, x, ps, id) \in Opens
<1>1. PICK b, d, u : b = o.block /\ d = b.buf \o ps /\ u = acceptIdentity(b.id, id)
  OBVIOUS
<1>2. b \in BlockType
  BY <1>1 DEF Opens
<1>3. b.buf \in Seq(Nat)
  BY <1>2 DEF BlockType
<1>4. d \in Seq(Nat)
  BY <1>1, <1>3
<1>5. u \in Names
  BY <1>1, <1>2 DEF acceptIdentity, BlockType
<1>6. PICK e : e = [kind |-> b.kind, id |-> u, buf |-> d]
  OBVIOUS
<1>7. e \in BlockType
  BY <1>2, <1>4, <1>5, <1>6 DEF BlockType
<1>8. o.index \in Nat
  BY DEF Opens
<1>9. [index |-> o.index, block |-> e] \in Opens
  BY <1>7, <1>8 DEF Opens
<1>10. Told(o, x, ps, id) = IF o.index # x THEN o ELSE [index |-> o.index, block |-> e]
  BY <1>1, <1>6 DEF Told
<1> QED BY <1>9, <1>10

LEMMA RunTyped ==
  ASSUME NEW a \in Assemblies, NEW x, NEW ps \in Seq(Nat), NEW id \in Names
  PROVE  RunTold(a, x, ps, id) \in Assemblies
<1>1. PICK o, t : o = a.open /\ t = AllTold(o, x, ps, id)
  OBVIOUS
<1>2. o \in Seq(Opens)
  BY <1>1 DEF Assemblies
<1>3. \A i \in 1..Len(o) : o[i] \in Opens
  BY <1>2
<1>4. \A i \in 1..Len(o) : Told(o[i], x, ps, id) \in Opens
  BY <1>3, ToldTyped
<1>5. t = [i \in 1..Len(o) |-> Told(o[i], x, ps, id)] /\ Len(o) \in Nat
  BY <1>1, <1>2 DEF AllTold
<1>6. t \in Seq(Opens)
  BY <1>4, <1>5
<1>7. RunTold(a, x, ps, id) = [content |-> a.content, open |-> t, finish |-> a.finish]
  BY <1>1 DEF RunTold
<1> QED BY <1>6, <1>7 DEF Assemblies

\* A run and one more piece of it.
LEMMA RunsCompose ==
  ASSUME NEW a \in Assemblies, NEW x, NEW ps \in Seq(Nat), NEW n \in Nat,
         NEW id \in Names, NEW more \in Names
  PROVE  RunTold(RunTold(a, x, ps, id), x, <<n>>, more)
           = RunTold(a, x, Append(ps, n), acceptIdentity(id, more))
<1>1. ASSUME NEW o \in Opens
      PROVE  Told(Told(o, x, ps, id), x, <<n>>, more)
               = Told(o, x, Append(ps, n), acceptIdentity(id, more))
  <2>1. CASE o.index # x
    BY <2>1 DEF Told
  <2>2. CASE o.index = x
    <3>1. PICK b, k : b = o.block.buf /\ k = o.block.id
      OBVIOUS
    <3>2. b \in Seq(Nat)
      BY <3>1 DEF Opens, BlockType
    <3>3. (b \o ps) \o <<n>> = b \o Append(ps, n)
      <4>1. <<n>> \in Seq(Nat) /\ Append(ps, n) = ps \o <<n>>
        BY AppendIsConcat
      <4> QED BY <3>2, <4>1, ConcatAssociative
    <3>4. acceptIdentity(acceptIdentity(k, id), more) = acceptIdentity(k, acceptIdentity(id, more))
      BY DEF acceptIdentity
    <3>5. PICK p, q, u, v : /\ p = b \o ps /\ q = p \o <<n>>
                            /\ u = acceptIdentity(k, id) /\ v = acceptIdentity(u, more)
      OBVIOUS
    <3>6. Told(o, x, ps, id)
            = [index |-> o.index, block |-> [kind |-> o.block.kind, id |-> u, buf |-> p]]
      BY <2>2, <3>1, <3>5 DEF Told
    <3>7. Told(Told(o, x, ps, id), x, <<n>>, more)
            = [index |-> o.index, block |-> [kind |-> o.block.kind, id |-> v, buf |-> q]]
      <4>1. PICK w : w = Told(o, x, ps, id)
        OBVIOUS
      <4>2. w.index = x /\ w.block.kind = o.block.kind /\ w.block.id = u /\ w.block.buf = p
        BY <2>2, <3>6, <4>1
      <4>3. Told(w, x, <<n>>, more)
              = [index |-> w.index, block |-> [kind |-> w.block.kind,
                                               id |-> acceptIdentity(w.block.id, more),
                                               buf |-> w.block.buf \o <<n>>]]
        BY <4>2 DEF Told
      <4>4. Told(w, x, <<n>>, more)
              = [index |-> o.index, block |-> [kind |-> o.block.kind, id |-> v, buf |-> q]]
        BY <2>2, <3>5, <4>2, <4>3
      <4> QED BY <4>1, <4>4
    <3>8. Told(o, x, Append(ps, n), acceptIdentity(id, more))
            = [index |-> o.index, block |-> [kind |-> o.block.kind, id |-> v, buf |-> q]]
      BY <2>2, <3>1, <3>3, <3>4, <3>5 DEF Told
    <3> QED BY <3>7, <3>8
  <2> QED BY <2>1, <2>2
<1>2. PICK o, t, z : /\ o = a.open /\ t = AllTold(o, x, ps, id)
                     /\ z = AllTold(t, x, <<n>>, more)
  OBVIOUS
<1>3. o \in Seq(Opens)
  BY <1>2 DEF Assemblies
<1>4. \A i \in 1..Len(o) : o[i] \in Opens
  BY <1>3
<1>5. /\ t = [i \in 1..Len(o) |-> Told(o[i], x, ps, id)]
      /\ AllTold(o, x, Append(ps, n), acceptIdentity(id, more))
           = [i \in 1..Len(o) |-> Told(o[i], x, Append(ps, n), acceptIdentity(id, more))]
  BY <1>2, <1>3 DEF AllTold
<1>6. z = [i \in 1..Len(o) |-> Told(Told(o[i], x, ps, id), x, <<n>>, more)]
  <2>1. DOMAIN t = 1..Len(o) /\ \A i \in 1..Len(o) : t[i] = Told(o[i], x, ps, id)
    BY <1>5
  <2> QED BY <1>2, <2>1 DEF AllTold
<1>7. z = AllTold(o, x, Append(ps, n), acceptIdentity(id, more))
  BY <1>1, <1>4, <1>5, <1>6
<1> QED BY <1>2, <1>7 DEF RunTold

\* A single delta is a run of one piece.
LEMMA DeltaIsRun ==
  ASSUME NEW a \in Assemblies, NEW x \in Nat, NEW kind \in Kinds, NEW n \in Nat, NEW id \in Names,
         NEW w
  PROVE  Assemble(a, Delta(x, kind, n, id, w)) = RunTold(a, x, <<n>>, id)
<1>1. PICK o : o = a.open
  OBVIOUS
<1>2. o \in Seq(Opens) /\ a = [content |-> a.content, open |-> o, finish |-> a.finish]
  BY <1>1 DEF Assemblies
<1>3. PICK c : c = Delta(x, kind, n, id, w)
  OBVIOUS
<1>4. c.type = "delta" /\ c.index = x /\ c.piece = n /\ c.id = id
  BY <1>3 DEF Delta
<1>5. PICK t : t = [i \in DOMAIN a.open |->
                     IF a.open[i].index = c.index THEN Extended(a.open[i], c) ELSE a.open[i]]
  OBVIOUS
<1>6. t = [i \in DOMAIN o |-> IF o[i].index = x THEN Extended(o[i], c) ELSE o[i]]
  BY <1>1, <1>4, <1>5, Zenon
<1>7. Assemble(a, c) = [a EXCEPT !.open = t]
  BY <1>4, <1>5, Zenon DEF Assemble
<1>8. ASSUME NEW e \in Opens, e.index = x
      PROVE  Extended(e, c) = Told(e, x, <<n>>, id)
  <2>1. PICK b, y, z : b = e.block /\ y = Append(b.buf, n) /\ z = acceptIdentity(b.id, id)
    OBVIOUS
  <2>2. b \in BlockType
    BY <2>1 DEF Opens
  <2>3. b.buf \o <<n>> = y
    BY <2>1, <2>2 DEF BlockType
  <2>4. Told(e, x, <<n>>, id) = [index |-> x, block |-> [kind |-> b.kind, id |-> z, buf |-> y]]
    BY <1>8, <2>1, <2>3 DEF Told
  <2>5. e = [index |-> x, block |-> b]
    BY <1>8, <2>1 DEF Opens
  <2>6. Extended(e, c) = [e EXCEPT !.block = Block(b.kind, z, y)]
    BY <1>4, <2>1 DEF Extended
  <2>7. Extended(e, c) = [index |-> x, block |-> Block(b.kind, z, y)]
    BY <2>5, <2>6
  <2> QED BY <2>4, <2>7 DEF Block
<1>9. t = AllTold(o, x, <<n>>, id)
  <2>1. \A i \in DOMAIN o : o[i] \in Opens
    BY <1>2
  <2>2. \A i \in DOMAIN o : o[i].index # x => Told(o[i], x, <<n>>, id) = o[i]
    BY DEF Told
  <2> QED BY <1>6, <1>8, <2>1, <2>2 DEF AllTold
<1> QED BY <1>1, <1>2, <1>3, <1>7, <1>9 DEF RunTold

-----------------------------------------------------------------------------
(* The assembler keeps its type.                                           *)

Thins(open, x, k, g) ==
  g = [n \in 0..k |-> IF n = 0 THEN <<>>
                      ELSE IF open[n].index = x THEN g[n - 1] ELSE Append(g[n - 1], open[n])]

LEMMA ThinsExist ==
  ASSUME NEW open, NEW x, NEW k \in Nat
  PROVE  \E g : Thins(open, x, k, g)
<1> DEFINE Good == {l \in Nat : \E g : Thins(open, x, l, g)}
<1>1. 0 \in Good
  <2> DEFINE g == [n \in 0..0 |-> <<>>]
  <2>1. Thins(open, x, 0, g)
    BY DEF Thins
  <2> QED BY <2>1
<1>2. ASSUME NEW l \in Nat, l \in Good PROVE l + 1 \in Good
  <2>1. PICK f : Thins(open, x, l, f)
    BY <1>2
  <2> DEFINE e == IF open[l + 1].index = x THEN f[l] ELSE Append(f[l], open[l + 1])
             g == [n \in 0..(l + 1) |-> IF n = l + 1 THEN e ELSE f[n]]
  <2>2. g[l + 1] = e /\ \A n \in 0..l : g[n] = f[n]
    OBVIOUS
  <2>3. \A n \in 0..l : f[n] = IF n = 0 THEN <<>>
                               ELSE IF open[n].index = x THEN f[n - 1]
                               ELSE Append(f[n - 1], open[n])
    BY <2>1 DEF Thins
  <2>4. ASSUME NEW n \in 0..(l + 1)
        PROVE  g[n] = IF n = 0 THEN <<>>
                      ELSE IF open[n].index = x THEN g[n - 1] ELSE Append(g[n - 1], open[n])
    <3> HIDE DEF g
    <3>1. CASE n = l + 1
      <4>1. n # 0 /\ n - 1 = l /\ l \in 0..l
        BY <3>1
      <4> QED BY <3>1, <4>1, <2>2
    <3>2. CASE n # l + 1
      <4>1. n \in 0..l /\ (n # 0 => n - 1 \in 0..l)
        BY <3>2
      <4> QED BY <4>1, <2>2, <2>3
    <3> QED BY <3>1, <3>2
  <2>5. g = [n \in 0..(l + 1) |-> g[n]]
    OBVIOUS
  <2> HIDE DEF g
  <2>6. Thins(open, x, l + 1, g)
    BY <2>4, <2>5 DEF Thins
  <2> QED BY <2>6
<1> HIDE DEF Good
<1>3. k \in Good
  BY <1>1, <1>2, NaturalsIn
<1> QED BY <1>3 DEF Good

LEMMA WithoutThins ==
  ASSUME NEW T, NEW open \in Seq(T), NEW x
  PROVE  Without(open, x) \in Seq({o \in T : o.index # x})
<1> DEFINE U == {o \in T : o.index # x}
<1>1. PICK l : l = Len(open)
  OBVIOUS
<1>2. l \in Nat /\ Len(open) \in Nat /\ \A n \in 1..l : open[n] \in T
  BY <1>1
<1> DEFINE rest == CHOOSE g : g = [n \in 0..Len(open) |->
                     IF n = 0 THEN <<>>
                     ELSE IF open[n].index = x THEN g[n - 1] ELSE Append(g[n - 1], open[n])]
<1>3. Thins(open, x, l, rest)
  <2>1. \E g : g = [n \in 0..Len(open) |->
                     IF n = 0 THEN <<>>
                     ELSE IF open[n].index = x THEN g[n - 1] ELSE Append(g[n - 1], open[n])]
    <3>1. \E g : Thins(open, x, Len(open), g)
      BY <1>2, ThinsExist
    <3> QED BY <3>1 DEF Thins
  <2>2. rest = [n \in 0..Len(open) |->
                     IF n = 0 THEN <<>>
                     ELSE IF open[n].index = x THEN rest[n - 1] ELSE Append(rest[n - 1], open[n])]
    BY <2>1
  <2> HIDE DEF rest
  <2> QED BY <1>1, <2>2 DEF Thins
<1>4. Without(open, x) = rest[l]
  BY <1>1 DEF Without
<1> HIDE DEF rest
<1>5. \A n \in 0..l : rest[n] = IF n = 0 THEN <<>>
                                ELSE IF open[n].index = x THEN rest[n - 1]
                                ELSE Append(rest[n - 1], open[n])
  BY <1>3 DEF Thins
<1> DEFINE Good == {n \in Nat : n <= l => rest[n] \in Seq(U)}
<1>6. 0 \in Good
  <2>1. 0 \in 0..l
    BY <1>2
  <2>2. rest[0] = <<>>
    BY ONLY <1>5, <2>1
  <2>3. <<>> \in Seq(U)
    OBVIOUS
  <2> QED BY <2>2, <2>3
<1>7. ASSUME NEW n \in Nat, n \in Good PROVE n + 1 \in Good
  <2>1. SUFFICES ASSUME n + 1 <= l PROVE rest[n + 1] \in Seq(U)
    OBVIOUS
  <2>2. /\ n + 1 \in 0..l /\ n + 1 \in 1..l /\ (n + 1) - 1 = n /\ n + 1 # 0
        /\ rest[n] \in Seq(U) /\ open[n + 1] \in T
    BY <1>2, <1>7, <2>1
  <2>3. rest[n + 1] = IF open[n + 1].index = x THEN rest[n] ELSE Append(rest[n], open[n + 1])
    BY <1>5, <2>2
  <2>4. PICK r, o : r = rest[n] /\ o = open[n + 1]
    OBVIOUS
  <2>5. o.index # x => o \in U
    BY <2>2, <2>4
  <2> HIDE DEF U
  <2>6. o.index # x => Append(r, o) \in Seq(U)
    BY <2>2, <2>4, <2>5
  <2> QED BY <2>2, <2>3, <2>4, <2>6
<1> HIDE DEF Good
<1>8. l \in Good
  BY <1>2, <1>6, <1>7, NaturalsIn
<1> QED BY <1>2, <1>4, <1>8 DEF Good

LEMMA AssembleKeeps ==
  ASSUME NEW a \in Assemblies, NEW c \in Chunks
  PROVE  Assemble(a, c) \in Assemblies
<1>1. /\ a.content \in Seq(BlockType) /\ a.open \in Seq(Opens)
      /\ a = [content |-> a.content, open |-> a.open, finish |-> a.finish]
      /\ a.finish \in Reasons \cup {"none"}
  BY DEF Assemblies
<1>2. CASE c \in Starts
  <2>1. c.type = "block-start" /\ c.index \in Nat /\ c.kind \in Kinds
    BY <1>2 DEF Starts
  <2>2. PICK b, o : b = Block(c.kind, "", <<>>) /\ o = [index |-> c.index, block |-> b]
    OBVIOUS
  <2>3. "" \in Names /\ <<>> \in Seq(Nat)
    BY DEF Names
  <2>4. b \in BlockType
    BY <2>1, <2>2, <2>3 DEF Block, BlockType
  <2>5. o \in Opens
    BY <2>1, <2>2, <2>4 DEF Opens
  <2>6. Assemble(a, c) = [a EXCEPT !.open = Append(a.open, o)]
    BY <2>1, <2>2 DEF Assemble
  <2>7. Append(a.open, o) \in Seq(Opens)
    BY <1>1, <2>5
  <2> QED BY <1>1, <2>6, <2>7 DEF Assemblies
<1>3. CASE c \in Deltas
  <2>1. /\ c.index \in Nat /\ c.kind \in Kinds /\ c.piece \in Nat /\ c.id \in Names
        /\ c = Delta(c.index, c.kind, c.piece, c.id, c.wire)
    BY <1>3 DEF Deltas, Delta
  <2>2. Assemble(a, c) = RunTold(a, c.index, <<c.piece>>, c.id)
    BY <2>1, DeltaIsRun
  <2>3. <<c.piece>> \in Seq(Nat)
    BY <2>1
  <2> QED BY <2>1, <2>2, <2>3, RunTyped
<1>4. CASE c \in Ends
  <2>1. c.type = "block-end" /\ c.block \in BlockType
    BY <1>4 DEF Ends
  <2>2. PICK m, o : m = Append(a.content, c.block) /\ o = Without(a.open, c.index)
    OBVIOUS
  <2>3. m \in Seq(BlockType) /\ o \in Seq(Opens)
    <3>1. PICK U : U = {p \in Opens : p.index # c.index}
      OBVIOUS
    <3>2. o \in Seq(U) /\ U \subseteq Opens
      BY <1>1, <2>2, <3>1, WithoutThins
    <3> QED BY <1>1, <2>1, <2>2, <3>2
  <2>4. Assemble(a, c) = [a EXCEPT !.content = m, !.open = o]
    BY <2>1, <2>2 DEF Assemble
  <2> QED BY <1>1, <2>3, <2>4 DEF Assemblies
<1>5. CASE c \in Usages
  <2>1. c.type = "usage"
    BY <1>5 DEF Usages
  <2>2. Assemble(a, c) = a
    BY <2>1 DEF Assemble
  <2> QED BY <2>2
<1>6. CASE c \in Finishes
  <2>1. c.type = "finish" /\ c.finish \in Reasons
    BY <1>6 DEF Finishes
  <2>2. Assemble(a, c) = [a EXCEPT !.finish = c.finish]
    BY <2>1 DEF Assemble
  <2> QED BY <1>1, <2>1, <2>2 DEF Assemblies
<1> QED BY <1>2, <1>3, <1>4, <1>5, <1>6 DEF Chunks, Content

LEMMA AssembledTyped ==
  ASSUME NEW s \in Seq(Chunks)
  PROVE  Assembled(s) \in Assemblies
<1>1. PICK l : l = Len(s)
  OBVIOUS
<1>2. l \in Nat /\ \A n \in 1..l : s[n] \in Chunks
  BY <1>1
<1>3. PICK f : Assembles(s, l, f) /\ Assembled(s) = f[l]
  BY <1>1, AssembledIs
<1>4. \A n \in 0..l : f[n] = IF n = 0 THEN NoAssembly ELSE Assemble(f[n - 1], s[n])
  BY <1>3 DEF Assembles
<1> DEFINE Good == {n \in Nat : n <= l => f[n] \in Assemblies}
<1>5. 0 \in Good
  <2>1. NoAssembly \in Assemblies
    <3>1. <<>> \in Seq(BlockType) /\ <<>> \in Seq(Opens)
      OBVIOUS
    <3> QED BY <3>1 DEF NoAssembly, Assemblies
  <2> QED BY <1>2, <1>4, <2>1
<1>6. ASSUME NEW n \in Nat, n \in Good PROVE n + 1 \in Good
  <2>1. SUFFICES ASSUME n + 1 <= l PROVE f[n + 1] \in Assemblies
    OBVIOUS
  <2>2. /\ n + 1 \in 0..l /\ n + 1 \in 1..l /\ (n + 1) - 1 = n /\ n + 1 # 0
        /\ f[n] \in Assemblies /\ s[n + 1] \in Chunks
    BY <1>2, <1>6, <2>1
  <2>3. f[n + 1] = Assemble(f[n], s[n + 1])
    BY <1>4, <2>2
  <2> QED BY <2>2, <2>3, AssembleKeeps
<1> HIDE DEF Good
<1>7. l \in Good
  BY <1>2, <1>5, <1>6, NaturalsIn
<1> QED BY <1>2, <1>3, <1>7 DEF Good

-----------------------------------------------------------------------------
(* Runs, and the record made of them.                                      *)

LEMMA LastOfMany ==
  ASSUME NEW qs \in Seq(Nat), Len(qs) # 0
  PROVE  \E rs \in Seq(Nat), n \in Nat : qs = Append(rs, n)
<1>1. qs # <<>>
  OBVIOUS
<1>2. PICK S : S = Nat
  OBVIOUS
<1>3. \E rs \in Seq(S), n \in S : qs = Append(rs, n)
  <2>1. qs \in Seq(S)
    BY <1>2
  <2> QED BY <1>1, <2>1, SequenceEmptyOrAppend
<1> QED BY <1>2, <1>3, Zenon

LEMMA RunAppends ==
  ASSUME NEW x \in Nat, NEW kind \in Kinds, NEW ps \in Seq(Nat), NEW n \in Nat, NEW id \in Names
  PROVE  /\ Run(x, kind, ps, id) \in Seq(Chunks)
         /\ Run(x, kind, Append(ps, n), id) = Append(Run(x, kind, ps, id), Delta(x, kind, n, id, 0))
<1>1. PICK l, r : l = Len(ps) /\ r = Run(x, kind, ps, id)
  OBVIOUS
<1>2. /\ l \in Nat /\ DOMAIN ps = 1..l /\ \A k \in 1..l : ps[k] \in Nat
      /\ r = [k \in 1..l |-> Delta(x, kind, ps[k], id, 0)]
  BY <1>1 DEF Run
<1>3. \A k \in 1..l : Delta(x, kind, ps[k], id, 0) \in Chunks
  BY <1>2, ChunkTypes DEF Chunks, Content
<1>4. r \in Seq(Chunks) /\ Len(r) = l /\ \A k \in 1..l : r[k] = Delta(x, kind, ps[k], id, 0)
  BY <1>2, <1>3
<1>5. PICK q, c : q = Append(ps, n) /\ c = Delta(x, kind, n, id, 0)
  OBVIOUS
<1>6. DOMAIN q = 1..(l + 1) /\ q[l + 1] = n /\ \A k \in 1..l : q[k] = ps[k]
  BY <1>1, <1>5
<1>7. Run(x, kind, q, id) = [k \in 1..(l + 1) |-> Delta(x, kind, q[k], id, 0)]
  BY <1>6 DEF Run
<1>8. Append(r, c) = [k \in 1..(l + 1) |-> IF k = l + 1 THEN c ELSE r[k]]
  BY <1>2, <1>4
<1>9. ASSUME NEW k \in 1..(l + 1)
      PROVE  Delta(x, kind, q[k], id, 0) = IF k = l + 1 THEN c ELSE r[k]
  <2>1. k # l + 1 => k \in 1..l
    BY <1>2
  <2> QED BY <1>4, <1>5, <1>6, <2>1
<1> QED BY <1>1, <1>4, <1>5, <1>7, <1>8, <1>9

LEMMA SinglePiece ==
  ASSUME NEW x \in Nat, NEW kind \in Kinds, NEW n \in Nat, NEW id \in Names
  PROVE  Run(x, kind, <<n>>, id) = <<Delta(x, kind, n, id, 0)>>
<1>1. DOMAIN <<n>> = 1..1 /\ <<n>>[1] = n
  OBVIOUS
<1>2. PICK c : c = Delta(x, kind, n, id, 0)
  OBVIOUS
<1>3. Run(x, kind, <<n>>, id) = [k \in 1..1 |-> c]
  BY <1>1, <1>2 DEF Run
<1> QED BY <1>2, <1>3

\* Assembling a run piece by piece adds all of it to its block.
LEMMA RunAssembled ==
  ASSUME NEW s \in Seq(Chunks), NEW x \in Nat, NEW kind \in Kinds, NEW id \in Names,
         NEW ps \in Seq(Nat), ps # <<>>
  PROVE  Assembled(s \o Run(x, kind, ps, id)) = RunTold(Assembled(s), x, ps, id)
<1> DEFINE Good == {m \in Nat : \A qs \in Seq(Nat) : Len(qs) = m + 1 =>
                      Assembled(s \o Run(x, kind, qs, id)) = RunTold(Assembled(s), x, qs, id)}
<1>1. PICK a : a = Assembled(s)
  OBVIOUS
<1>2. a \in Assemblies
  BY <1>1, AssembledTyped
<1>3. 0 \in Good
  <2>1. ASSUME NEW qs \in Seq(Nat), Len(qs) = 1
        PROVE  Assembled(s \o Run(x, kind, qs, id)) = RunTold(Assembled(s), x, qs, id)
    <3>1. PICK n \in Nat : qs = <<n>>
      <4>1. PICK rs \in Seq(Nat), n \in Nat : qs = Append(rs, n)
        <5>1. Len(qs) # 0
          BY <2>1
        <5> QED BY <2>1, <5>1, LastOfMany, Zenon
      <4>2. rs = <<>>
        BY <2>1, <4>1
      <4> QED BY <4>1, <4>2
    <3>2. PICK c : c = Delta(x, kind, n, id, 0)
      OBVIOUS
    <3>3. c \in Chunks
      BY <3>2, ChunkTypes DEF Chunks, Content
    <3>4. Run(x, kind, qs, id) = <<c>> /\ s \o <<c>> = Append(s, c)
      BY <3>1, <3>2, SinglePiece, AppendIsConcat
    <3>5. Assembled(Append(s, c)) = RunTold(a, x, qs, id)
      BY <1>1, <1>2, <3>1, <3>2, <3>3, AssembledAppends, DeltaIsRun
    <3> QED BY <1>1, <3>4, <3>5
  <2> QED BY <2>1
<1>4. ASSUME NEW m \in Nat, m \in Good PROVE m + 1 \in Good
  <2>1. ASSUME NEW qs \in Seq(Nat), Len(qs) = (m + 1) + 1
        PROVE  Assembled(s \o Run(x, kind, qs, id)) = RunTold(Assembled(s), x, qs, id)
    <3>1. PICK rs \in Seq(Nat), n \in Nat : qs = Append(rs, n) /\ Len(rs) = m + 1
      <4>1. PICK rs \in Seq(Nat), n \in Nat : qs = Append(rs, n)
        <5>1. Len(qs) # 0
          BY <2>1
        <5> QED BY <2>1, <5>1, LastOfMany, Zenon
      <4>2. Len(rs) = m + 1
        BY <2>1, <4>1
      <4> QED BY <4>1, <4>2
    <3>2. PICK r, c : r = Run(x, kind, rs, id) /\ c = Delta(x, kind, n, id, 0)
      OBVIOUS
    <3>3. r \in Seq(Chunks) /\ c \in Chunks /\ Run(x, kind, qs, id) = Append(r, c)
      <4>1. 0 \in Int
        OBVIOUS
      <4>2. c \in Deltas
        BY <3>1, <3>2, <4>1, ChunkTypes
      <4> QED BY <3>1, <3>2, <4>2, RunAppends DEF Chunks, Content
    <3>4. s \o Append(r, c) = Append(s \o r, c) /\ s \o r \in Seq(Chunks)
      BY <3>3, SMTT(40)
    <3>5. Assembled(s \o r) = RunTold(a, x, rs, id)
      BY <1>1, <1>4, <3>1, <3>2
    <3>6. RunTold(a, x, rs, id) \in Assemblies
      BY <1>2, RunTyped
    <3>7. Assembled(Append(s \o r, c)) = Assemble(RunTold(a, x, rs, id), c)
      BY <3>3, <3>4, <3>5, AssembledAppends
    <3>8. Assemble(RunTold(a, x, rs, id), c) = RunTold(RunTold(a, x, rs, id), x, <<n>>, id)
      BY <3>2, <3>6, DeltaIsRun
    <3>9. acceptIdentity(id, id) = id
      BY DEF acceptIdentity
    <3>10. RunTold(RunTold(a, x, rs, id), x, <<n>>, id) = RunTold(a, x, qs, id)
      BY <1>2, <3>1, <3>9, RunsCompose
    <3> QED BY <1>1, <3>3, <3>4, <3>7, <3>8, <3>10
  <2> QED BY <2>1
<1> HIDE DEF Good
<1>5. PICK m \in Nat : Len(ps) = m + 1
  <2>1. Len(ps) \in Nat \ {0}
    OBVIOUS
  <2> QED BY <2>1, Len(ps) - 1 \in Nat
<1>6. m \in Good
  BY <1>3, <1>4, NaturalsIn
<1> QED BY <1>5, <1>6 DEF Good

\* A delta without its id and its index on the wire.
Bare(c) == IF c.type = "delta" THEN [c EXCEPT !.id = "", !.wire = 0] ELSE c

LEMMA BareDelta ==
  ASSUME NEW x, NEW kind, NEW n, NEW id, NEW w
  PROVE  Bare(Delta(x, kind, n, id, w)) = Delta(x, kind, n, "", 0)
<1>1. PICK c : c = Delta(x, kind, n, id, w)
  OBVIOUS
<1>2. c = [type |-> "delta", index |-> x, kind |-> kind, piece |-> n, id |-> id, wire |-> w]
  BY <1>1 DEF Delta
<1>3. PICK d : d = [c EXCEPT !.id = ""]
  OBVIOUS
<1>4. d = [type |-> "delta", index |-> x, kind |-> kind, piece |-> n, id |-> "", wire |-> w]
  BY ONLY <1>2, <1>3
<1>z. PICK z : z = 0
  OBVIOUS
<1>5. PICK t, e : t = "delta" /\ e = ""
  OBVIOUS
<1>7. d = [type |-> t, index |-> x, kind |-> kind, piece |-> n, id |-> e, wire |-> w]
  BY <1>4, <1>5
<1>8. [d EXCEPT !.wire = z]
        = [type |-> t, index |-> x, kind |-> kind, piece |-> n, id |-> e, wire |-> z]
  BY ONLY <1>7
<1>6. Bare(c) = [d EXCEPT !.wire = z]
  <2>1. c.type = "delta"
    BY <1>2
  <2>2. Bare(c) = [c EXCEPT !.id = "", !.wire = 0]
    BY <2>1, Zenon DEF Bare
  <2> QED BY <1>3, <1>z, <2>2
<1> QED BY <1>1, <1>5, <1>6, <1>8, <1>z, Zenon DEF Delta

LEMMA BareTyped == \A c \in Chunks : Bare(c) \in Chunks
<1>1. ASSUME NEW c \in Deltas PROVE Bare(c) \in Deltas
  <2>1. PICK i, k, n, id, w : i = c.index /\ k = c.kind /\ n = c.piece /\ id = c.id /\ w = c.wire
    OBVIOUS
  <2>2. i \in Nat /\ k \in Kinds /\ n \in Nat /\ c = Delta(i, k, n, id, w) /\ "" \in Names /\ 0 \in Int
    <3>1. c = [type |-> "delta", index |-> i, kind |-> k, piece |-> n, id |-> id, wire |-> w]
      BY <2>1 DEF Deltas
    <3>2. i \in Nat /\ k \in Kinds /\ n \in Nat
      BY <2>1 DEF Deltas
    <3>3. "" \in Names /\ 0 \in Int
      BY DEF Names
    <3> QED BY <3>1, <3>2, <3>3 DEF Delta
  <2>3. Bare(c) = Delta(i, k, n, "", 0)
    BY <2>2, BareDelta, Zenon
  <2>4. Delta(i, k, n, "", 0) \in Deltas
    BY <2>2, ChunkTypes
  <2> QED BY <2>3, <2>4
<1>2. ASSUME NEW c \in Chunks, c \notin Deltas PROVE Bare(c) = c
  BY <1>2 DEF Bare, Chunks, Content, Starts, Ends, Usages, Finishes
<1> QED BY <1>1, <1>2 DEF Chunks, Content

LEMMA WithoutIdentityTyped ==
  ASSUME NEW s \in Seq(Chunks)
  PROVE  WithoutIdentity(s) \in Seq(Chunks) /\ WithoutIdentity(s) = [i \in DOMAIN s |-> Bare(s[i])]
<1>1. WithoutIdentity(s) = [i \in DOMAIN s |-> Bare(s[i])]
  BY DEF WithoutIdentity, Bare
<1>2. Len(s) \in Nat /\ DOMAIN s = 1..Len(s) /\ \A i \in 1..Len(s) : Bare(s[i]) \in Chunks
  BY BareTyped
<1> QED BY <1>1, <1>2

LEMMA WithoutIdentityConcat ==
  ASSUME NEW s \in Seq(Chunks), NEW t \in Seq(Chunks)
  PROVE  WithoutIdentity(s \o t) = WithoutIdentity(s) \o WithoutIdentity(t)
<1>1. PICK u, l, m : u = s \o t /\ l = Len(s) /\ m = Len(t)
  OBVIOUS
<1>2. /\ l \in Nat /\ m \in Nat /\ u \in Seq(Chunks) /\ DOMAIN u = 1..(l + m)
      /\ DOMAIN s = 1..l /\ DOMAIN t = 1..m
      /\ \A i \in 1..(l + m) : u[i] = IF i <= l THEN s[i] ELSE t[i - l]
  BY <1>1
<1>3. PICK b, c : b = WithoutIdentity(s) /\ c = WithoutIdentity(t)
  OBVIOUS
<1>4. /\ b = [i \in 1..l |-> Bare(s[i])] /\ c = [i \in 1..m |-> Bare(t[i])]
      /\ b \in Seq(Chunks) /\ c \in Seq(Chunks) /\ Len(b) = l /\ Len(c) = m
  BY <1>2, <1>3, WithoutIdentityTyped
<1>5. b \o c = [i \in 1..(l + m) |-> IF i <= l THEN b[i] ELSE c[i - l]]
  <2>1. b \in Seq(Chunks) /\ c \in Seq(Chunks) /\ Len(b) = l /\ Len(c) = m
    BY <1>4
  <2>2. PICK v : v = b \o c
    OBVIOUS
  <2>3. /\ v \in Seq(Chunks) /\ Len(v) = l + m
        /\ \A i \in 1..(l + m) : v[i] = IF i <= l THEN b[i] ELSE c[i - l]
    BY <2>1, <2>2, ConcatProperties
  <2>4. v = [i \in 1..(l + m) |-> v[i]]
    BY <2>3
  <2> QED BY <2>2, <2>3, <2>4
<1>6. WithoutIdentity(u) = [i \in 1..(l + m) |-> Bare(u[i])]
  BY <1>2, WithoutIdentityTyped
<1>7. ASSUME NEW i \in 1..(l + m) PROVE Bare(u[i]) = IF i <= l THEN b[i] ELSE c[i - l]
  <2>1. IF i <= l THEN i \in 1..l ELSE i - l \in 1..m
    BY <1>2
  <2> QED BY <1>2, <1>4, <2>1
<1> QED BY <1>1, <1>3, <1>5, <1>6, <1>7

LEMMA BareOne == \A c \in Chunks : WithoutIdentity(<<c>>) = <<Bare(c)>>
<1>1. SUFFICES ASSUME NEW c \in Chunks PROVE WithoutIdentity(<<c>>) = <<Bare(c)>>
  OBVIOUS
<1>2. PICK s : s = <<c>>
  OBVIOUS
<1>3. s \in Seq(Chunks) /\ DOMAIN s = 1..1 /\ s[1] = c
  BY <1>2
<1>4. WithoutIdentity(s) = [i \in 1..1 |-> Bare(s[i])]
  BY <1>3, WithoutIdentityTyped
<1>5. WithoutIdentity(s) = [i \in 1..1 |-> Bare(c)]
  BY <1>3, <1>4
<1> QED BY <1>2, <1>5

LEMMA RunWithoutIdentity ==
  ASSUME NEW x \in Nat, NEW kind \in Kinds, NEW ps \in Seq(Nat), NEW id \in Names
  PROVE  WithoutIdentity(Run(x, kind, ps, id)) = Run(x, kind, ps, "")
<1>1. \A n \in Nat : Bare(Delta(x, kind, n, id, 0)) = Delta(x, kind, n, "", 0)
  BY DEF Bare, Delta
<1>2. PICK r : r = Run(x, kind, ps, id)
  OBVIOUS
<1>3. r \in Seq(Chunks) /\ DOMAIN r = DOMAIN ps /\ \A k \in DOMAIN ps : r[k] = Delta(x, kind, ps[k], id, 0)
  <2>1. r \in Seq(Chunks)
    BY <1>2, RunAppends, Zenon
  <2>2. r = [k \in DOMAIN ps |-> Delta(x, kind, ps[k], id, 0)]
    BY <1>2, Zenon DEF Run
  <2> QED BY <2>1, <2>2
<1>4. WithoutIdentity(r) = [k \in DOMAIN ps |-> Bare(Delta(x, kind, ps[k], id, 0))]
  BY <1>3, WithoutIdentityTyped
<1>5. \A k \in DOMAIN ps : ps[k] \in Nat
  OBVIOUS
<1> QED BY <1>1, <1>2, <1>4, <1>5 DEF Run

Wholes == [type : {"chunk"}, chunk : Chunks \ Deltas]
Runs == [type : {"run"}, kind : Kinds, index : Nat, pieces : Seq(Nat) \ {<<>>}, id : Names]
Items == Wholes \cup Runs

Expanded(item) ==
  IF item.type = "chunk" THEN <<item.chunk>>
  ELSE Run(item.index, item.kind, item.pieces, item.id)

LEMMA DeltasByType == \A c \in Chunks : c \in Deltas <=> c.type = "delta"
BY DEF Chunks, Content, Starts, Deltas, Ends, Usages, Finishes

LEMMA ExpandedTyped == \A item \in Items : Expanded(item) \in Seq(Chunks)
<1>1. ASSUME NEW item \in Wholes PROVE Expanded(item) \in Seq(Chunks)
  <2>1. item.type = "chunk" /\ item.chunk \in Chunks
    BY DEF Wholes
  <2>2. <<item.chunk>> \in Seq(Chunks)
    BY <2>1
  <2> QED BY <2>1, <2>2 DEF Expanded
<1>2. ASSUME NEW item \in Runs PROVE Expanded(item) \in Seq(Chunks)
  <2>1. /\ item.type = "run" /\ item.index \in Nat /\ item.kind \in Kinds /\ item.id \in Names
        /\ item.pieces \in Seq(Nat)
    BY DEF Runs
  <2>2. Run(item.index, item.kind, item.pieces, item.id) \in Seq(Chunks)
    BY <2>1, RunAppends
  <2> QED BY <2>1, <2>2 DEF Expanded
<1> QED BY <1>1, <1>2 DEF Items

LEMMA ExpandIs ==
  ASSUME NEW rec \in Seq(Items)
  PROVE  /\ [i \in DOMAIN rec |-> Expanded(rec[i])] \in Seq(Seq(Chunks))
         /\ Len([i \in DOMAIN rec |-> Expanded(rec[i])]) = Len(rec)
         /\ ExpandAssistantStream(rec) = FlattenSeq([i \in DOMAIN rec |-> Expanded(rec[i])])
<1>1. PICK l, S : l = Len(rec) /\ S = Seq(Chunks)
  OBVIOUS
<1>2. l \in Nat /\ DOMAIN rec = 1..l /\ \A i \in 1..l : rec[i] \in Items
  BY <1>1
<1>3. \A i \in 1..l : Expanded(rec[i]) \in S
  BY <1>1, <1>2, ExpandedTyped
<1>4. PICK q : q = [i \in 1..l |-> Expanded(rec[i])]
  OBVIOUS
<1>5. q \in Seq(S) /\ Len(q) = l
  BY <1>2, <1>3, <1>4
<1>6. ExpandAssistantStream(rec) = FlattenSeq([i \in DOMAIN rec |-> Expanded(rec[i])])
  BY DEF ExpandAssistantStream, Expanded, Run
<1>7. q = [i \in DOMAIN rec |-> Expanded(rec[i])]
  BY <1>2, <1>4
<1> QED BY <1>1, <1>5, <1>6, <1>7

\* Flattening sequences of chunks makes a sequence of chunks.
LEMMA FlattenTyped ==
  ASSUME NEW F, NEW q \in Seq(Seq(F))
  PROVE  FlattenSeq(q) \in Seq(F)
<1>1. PICK l, S : l = Len(q) /\ S = Seq(F)
  OBVIOUS
<1>2. l \in Nat /\ q \in Seq(S) /\ \A i \in 1..l : q[i] \in S
  BY <1>1
<1>3. CASE l = 0
  <2>1. <<>> \in Seq(F)
    OBVIOUS
  <2> QED BY <1>1, <1>2, <1>3, <2>1, FlattenIs
<1>4. CASE l # 0
  <2>1. PICK f : Flattens(q, l, f) /\ FlattenSeq(q) = f[l]
    BY <1>1, <1>2, <1>4, FlattenIs
  <2>2. \A i \in 1..l : f[i] = IF i = 1 THEN q[i] ELSE f[i - 1] \o q[i]
    BY <2>1 DEF Flattens
  <2> DEFINE Good == {n \in Nat : n + 1 <= l => f[n + 1] \in S}
  <2>3. 0 \in Good
    BY <1>2, <1>4, <2>2
  <2>4. ASSUME NEW n \in Nat, n \in Good PROVE n + 1 \in Good
    <3>1. SUFFICES ASSUME (n + 1) + 1 <= l PROVE f[(n + 1) + 1] \in S
      OBVIOUS
    <3>2. PICK k : k = n + 1
      OBVIOUS
    <3>3. /\ k + 1 \in 1..l /\ (k + 1) - 1 = k /\ k + 1 # 1
          /\ f[k] \in S /\ q[k + 1] \in S
      BY <1>2, <2>4, <3>1, <3>2
    <3>4. f[k + 1] = f[k] \o q[k + 1]
      BY <2>2, <3>3
    <3>5. PICK s, t : s = f[k] /\ t = q[k + 1]
      OBVIOUS
    <3>6. s \o t \in Seq(F)
      BY <1>1, <3>3, <3>5
    <3> QED BY <1>1, <3>2, <3>4, <3>5, <3>6
  <2> HIDE DEF Good
  <2>5. l - 1 \in Good /\ l - 1 \in Nat /\ (l - 1) + 1 = l
    BY <1>2, <1>4, <2>3, <2>4, NaturalsIn, SMTT(40)
  <2> QED BY <1>1, <2>1, <2>5 DEF Good
<1> QED BY <1>3, <1>4

LEMMA ExpandTyped == \A rec \in Seq(Items) : ExpandAssistantStream(rec) \in Seq(Chunks)
BY ExpandIs, FlattenTyped

\* The record of one item more expands to the chunks of that item more.
LEMMA ExpandAppends ==
  ASSUME NEW rec \in Seq(Items), NEW item \in Items
  PROVE  ExpandAssistantStream(Append(rec, item)) = ExpandAssistantStream(rec) \o Expanded(item)
<1>1. PICK l, more, q, p, e : /\ l = Len(rec) /\ more = Append(rec, item) /\ e = Expanded(item)
                              /\ q = [i \in DOMAIN rec |-> Expanded(rec[i])]
                              /\ p = [i \in DOMAIN more |-> Expanded(more[i])]
  OBVIOUS
<1>2. /\ l \in Nat /\ more \in Seq(Items) /\ DOMAIN rec = 1..l /\ DOMAIN more = 1..(l + 1)
      /\ more[l + 1] = item /\ \A i \in 1..l : more[i] = rec[i]
  BY <1>1
<1>3. q \in Seq(Seq(Chunks)) /\ Len(q) = l /\ ExpandAssistantStream(rec) = FlattenSeq(q)
  BY <1>1, ExpandIs
<1>4. e \in Seq(Chunks)
  BY <1>1, ExpandedTyped
<1>5. ExpandAssistantStream(more) = FlattenSeq(p)
  BY <1>1, <1>2, ExpandIs
<1>6. p = Append(q, e)
  <2>1. q = [i \in 1..l |-> Expanded(rec[i])] /\ p = [i \in 1..(l + 1) |-> Expanded(more[i])]
    BY <1>1, <1>2
  <2>2. PICK S, a : S = Seq(Chunks) /\ a = Append(q, e)
    OBVIOUS
  <2>3. q \in Seq(S) /\ Len(q) = l
    BY <1>3, <2>2
  <2>4. a = [i \in 1..(l + 1) |-> IF i = l + 1 THEN e ELSE q[i]]
    <3>1. Len(a) = l + 1 /\ a \in Seq(S) /\ \A i \in 1..(l + 1) : a[i] = IF i = l + 1 THEN e ELSE q[i]
      BY <1>2, <1>4, <2>2, <2>3
    <3>2. a = [i \in 1..(l + 1) |-> a[i]]
      BY <3>1
    <3> QED BY <3>1, <3>2
  <2>5. ASSUME NEW i \in 1..(l + 1) PROVE Expanded(more[i]) = IF i = l + 1 THEN e ELSE q[i]
    <3>1. i # l + 1 => i \in 1..l
      BY <1>2
    <3> QED BY <1>1, <1>2, <2>1, <3>1
  <2> QED BY <2>1, <2>2, <2>4, <2>5
<1>7. FlattenSeq(q) \in Seq(Chunks)
  BY <1>3, FlattenTyped
<1>8. FlattenSeq(p) = FlattenSeq(q) \o e
  BY <1>3, <1>4, <1>6, <1>7, FlattenAppends
<1> QED BY <1>1, <1>3, <1>5, <1>8

-----------------------------------------------------------------------------
(* The stream record.                                                      *)

\* rec says what the chunks g say, but for the identity of their calls.
Records(rec, g) ==
  /\ rec \in Seq(Items)
  /\ WithoutIdentity(ExpandAssistantStream(rec)) = WithoutIdentity(g)

\* A chunk that begins an item of its own.
LEMMA NewItem ==
  ASSUME NEW rec, NEW g \in Seq(Chunks), Records(rec, g), NEW c \in Chunks,
         NEW b \in Chunks, Bare(b) = Bare(c), \A a \in Assemblies : Assemble(a, b) = Assemble(a, c),
         NEW item \in Items, Expanded(item) = <<b>>
  PROVE  /\ Records(Append(rec, item), Append(g, c))
         /\ Assembled(ExpandAssistantStream(Append(rec, item)))
              = Assemble(Assembled(ExpandAssistantStream(rec)), c)
<1>1. PICK e : e = ExpandAssistantStream(rec)
  OBVIOUS
<1>2. rec \in Seq(Items) /\ e \in Seq(Chunks)
  BY <1>1, ExpandTyped DEF Records
<1>3. ExpandAssistantStream(Append(rec, item)) = e \o <<b>>
  BY <1>1, <1>2, ExpandAppends
<1>4. /\ e \o <<b>> = Append(e, b) /\ g \o <<c>> = Append(g, c)
      /\ <<b>> \in Seq(Chunks) /\ <<c>> \in Seq(Chunks)
  BY <1>2, AppendIsConcat
<1>5. WithoutIdentity(e \o <<b>>) = WithoutIdentity(g \o <<c>>)
  <2>1. WithoutIdentity(<<b>>) = WithoutIdentity(<<c>>)
    BY BareOne
  <2>2. WithoutIdentity(e \o <<b>>) = WithoutIdentity(e) \o WithoutIdentity(<<b>>)
    BY <1>2, <1>4, WithoutIdentityConcat
  <2>3. WithoutIdentity(g \o <<c>>) = WithoutIdentity(g) \o WithoutIdentity(<<c>>)
    BY <1>4, WithoutIdentityConcat
  <2>4. WithoutIdentity(e) = WithoutIdentity(g)
    BY <1>1 DEF Records
  <2> QED BY <2>1, <2>2, <2>3, <2>4, Zenon
<1>6. Assembled(Append(e, b)) = Assemble(Assembled(e), c)
  BY <1>2, AssembledAppends, AssembledTyped
<1>7. Append(rec, item) \in Seq(Items)
  BY <1>2
<1> QED BY <1>1, <1>3, <1>4, <1>5, <1>6, <1>7 DEF Records

LEMMA AddToRunTyped ==
  ASSUME NEW run \in Runs, NEW c \in Deltas
  PROVE  /\ AddToRun(run, c) \in Runs
         /\ AddToRun(run, c) = [type |-> "run", kind |-> run.kind, index |-> run.index,
                                pieces |-> Append(run.pieces, c.piece),
                                id |-> acceptIdentity(run.id, c.id)]
<1>1. PICK x, kind, ps, id, qs, name : /\ x = run.index /\ kind = run.kind /\ ps = run.pieces
                                       /\ id = run.id /\ qs = Append(run.pieces, c.piece)
                                       /\ name = acceptIdentity(run.id, c.id)
  OBVIOUS
<1>2. /\ x \in Nat /\ kind \in Kinds /\ ps \in Seq(Nat) /\ id \in Names
      /\ run = [type |-> "run", kind |-> kind, index |-> x, pieces |-> ps, id |-> id]
  BY <1>1 DEF Runs
<1>3. name \in Names
  BY <1>1 DEF acceptIdentity, Runs, Deltas
<1>4. qs \in Seq(Nat) /\ qs # <<>>
  <2>1. PICK n \in Nat : n = c.piece
    BY DEF Deltas
  <2>2. ps \in Seq(Nat) /\ n \in Nat /\ qs = Append(ps, n)
    BY <1>1, <1>2, <2>1
  <2> QED BY ONLY <2>2
<1>5. AddToRun(run, c) = [run EXCEPT !.pieces = qs, !.id = name]
  BY <1>1 DEF AddToRun
<1>6. AddToRun(run, c)
        = [type |-> "run", kind |-> kind, index |-> x, pieces |-> qs, id |-> name]
  <2>1. run = [type |-> "run", kind |-> kind, index |-> x, pieces |-> ps, id |-> id]
    BY <1>2
  <2> QED BY ONLY <1>5, <2>1
<1>7. PICK r : r = [type |-> "run", kind |-> kind, index |-> x, pieces |-> qs, id |-> name]
  OBVIOUS
<1>8. r \in Runs
  BY <1>2, <1>3, <1>4, <1>7 DEF Runs
<1>9. r = [type |-> "run", kind |-> run.kind, index |-> run.index,
           pieces |-> Append(run.pieces, c.piece), id |-> acceptIdentity(run.id, c.id)]
  BY <1>1, <1>7, Zenon
<1> QED BY <1>6, <1>7, <1>8, <1>9, Zenon

\* A delta that goes on in the run at the end.
LEMMA LongerRun ==
  ASSUME NEW base \in Seq(Items), NEW run \in Runs, NEW g \in Seq(Chunks),
         Records(Append(base, run), g),
         NEW c \in Deltas, c.kind = run.kind, c.index = run.index
  PROVE  /\ Records(Append(base, AddToRun(run, c)), Append(g, c))
         /\ Assembled(ExpandAssistantStream(Append(base, AddToRun(run, c))))
              = Assemble(Assembled(ExpandAssistantStream(Append(base, run))), c)
<1>1. PICK x, kind, ps, id, n, more : /\ x = run.index /\ kind = run.kind /\ ps = run.pieces
                                      /\ id = run.id /\ n = c.piece /\ more = c.id
  OBVIOUS
<1>2. /\ x \in Nat /\ kind \in Kinds /\ ps \in Seq(Nat) /\ ps # <<>> /\ id \in Names
      /\ n \in Nat /\ more \in Names /\ c \in Chunks
      /\ run = [type |-> "run", kind |-> kind, index |-> x, pieces |-> ps, id |-> id]
      /\ c = Delta(x, kind, n, more, c.wire)
  BY <1>1 DEF Runs, Deltas, Delta, Chunks, Content
<1>3. PICK qs, name, longer : /\ qs = Append(ps, n) /\ name = acceptIdentity(id, more)
                              /\ longer = AddToRun(run, c)
  OBVIOUS
<1>4. longer \in Runs
      /\ longer = [type |-> "run", kind |-> kind, index |-> x, pieces |-> qs, id |-> name]
  BY <1>1, <1>3, AddToRunTyped
<1>5. qs \in Seq(Nat) /\ qs # <<>> /\ name \in Names
  BY <1>4 DEF Runs
<1>6. longer \in Items /\ run \in Items
  BY <1>4 DEF Items
<1>7. Expanded(run) = Run(x, kind, ps, id) /\ Expanded(longer) = Run(x, kind, qs, name)
  BY <1>2, <1>4 DEF Expanded
<1>8. PICK e, r, s : /\ e = ExpandAssistantStream(base)
                     /\ r = Run(x, kind, ps, id) /\ s = Run(x, kind, qs, name)
  OBVIOUS
<1>9. e \in Seq(Chunks) /\ r \in Seq(Chunks) /\ s \in Seq(Chunks)
  BY <1>2, <1>5, <1>8, ExpandTyped, RunAppends
<1>10. /\ ExpandAssistantStream(Append(base, run)) = e \o r
       /\ ExpandAssistantStream(Append(base, longer)) = e \o s
  BY <1>6, <1>7, <1>8, ExpandAppends
<1>11. WithoutIdentity(s) = WithoutIdentity(r) \o WithoutIdentity(<<c>>)
  <2>1. /\ WithoutIdentity(s) = Run(x, kind, qs, "") /\ WithoutIdentity(r) = Run(x, kind, ps, "")
        /\ WithoutIdentity(<<c>>) = Run(x, kind, <<n>>, "")
    <3>1. WithoutIdentity(<<c>>) = Run(x, kind, <<n>>, "")
      <4>1. PICK w : w = c.wire
        OBVIOUS
      <4>2. Bare(c) = Delta(x, kind, n, "", 0)
        <5>1. c = Delta(x, kind, n, more, w)
          BY <1>2, <4>1
        <5> QED BY ONLY <5>1, BareDelta, Zenon
      <4>3. WithoutIdentity(<<c>>) = <<Bare(c)>>
        BY <1>2, BareOne
      <4>4. "" \in Names
        BY DEF Names
      <4>5. Run(x, kind, <<n>>, "") = <<Delta(x, kind, n, "", 0)>>
        BY <1>2, <4>4, SinglePiece
      <4> QED BY <4>2, <4>3, <4>5
    <3>2. WithoutIdentity(s) = Run(x, kind, qs, "")
      BY <1>2, <1>5, <1>8, RunWithoutIdentity
    <3>3. WithoutIdentity(r) = Run(x, kind, ps, "")
      BY <1>2, <1>8, RunWithoutIdentity
    <3> QED BY <3>1, <3>2, <3>3
  <2>2. PICK t, d : t = Run(x, kind, ps, "") /\ d = Delta(x, kind, n, "", 0)
    OBVIOUS
  <2>3. "" \in Names
    BY DEF Names
  <2>4. t \in Seq(Chunks) /\ d \in Chunks /\ Run(x, kind, qs, "") = Append(t, d)
    <3>1. 0 \in Int
      OBVIOUS
    <3>2. d \in Deltas
      BY <1>2, <2>2, <2>3, <3>1, ChunkTypes, Zenon
    <3>3. d \in Chunks
      BY <3>2 DEF Chunks, Content
    <3> QED BY <1>2, <1>3, <2>2, <2>3, <3>3, RunAppends, ZenonT(40)
  <2>5. Run(x, kind, <<n>>, "") = <<d>> /\ Append(t, d) = t \o <<d>>
    BY <1>2, <2>2, <2>3, <2>4, SinglePiece, AppendIsConcat
  <2> QED BY <2>1, <2>2, <2>4, <2>5
<1>12. WithoutIdentity(e \o s) = WithoutIdentity(g \o <<c>>)
  <2>1. <<c>> \in Seq(Chunks)
    BY <1>2
  <2>2. PICK a, b, d, h : /\ a = WithoutIdentity(e) /\ b = WithoutIdentity(r)
                          /\ d = WithoutIdentity(<<c>>) /\ h = WithoutIdentity(g)
    OBVIOUS
  <2>3. a \in Seq(Chunks) /\ b \in Seq(Chunks) /\ d \in Seq(Chunks)
    BY <1>9, <2>1, <2>2, WithoutIdentityTyped
  <2>4. a \o b = h
    <3>1. WithoutIdentity(e \o r) = h
      BY <1>10, <2>2 DEF Records
    <3> QED BY <1>9, <2>2, <3>1, WithoutIdentityConcat
  <2>5. WithoutIdentity(e \o s) = a \o (b \o d)
    BY <1>9, <1>11, <2>2, WithoutIdentityConcat
  <2>6. a \o (b \o d) = (a \o b) \o d
    BY <2>3, ConcatAssociative
  <2>7. WithoutIdentity(g \o <<c>>) = h \o d
    BY <2>1, <2>2, WithoutIdentityConcat
  <2> QED BY <2>4, <2>5, <2>6, <2>7
<1>13. Assembled(e \o s) = Assemble(Assembled(e \o r), c)
  <2>1. PICK a : a = Assembled(e)
    OBVIOUS
  <2>2. a \in Assemblies
    BY <1>9, <2>1, AssembledTyped
  <2>3. Assembled(e \o r) = RunTold(a, x, ps, id) /\ Assembled(e \o s) = RunTold(a, x, qs, name)
    BY <1>2, <1>5, <1>8, <1>9, <2>1, RunAssembled
  <2>4. Assemble(RunTold(a, x, ps, id), c) = RunTold(RunTold(a, x, ps, id), x, <<n>>, more)
    BY <1>2, <2>2, RunTyped, DeltaIsRun
  <2>5. RunTold(RunTold(a, x, ps, id), x, <<n>>, more) = RunTold(a, x, qs, name)
    BY <1>2, <1>3, <2>2, RunsCompose
  <2> QED BY <2>3, <2>4, <2>5
<1>14. g \o <<c>> = Append(g, c)
  BY <1>2, AppendIsConcat
<1>15. Append(base, longer) \in Seq(Items)
  BY <1>6
<1> QED BY <1>3, <1>10, <1>12, <1>13, <1>14, <1>15 DEF Records

LEMMA LastReplaced ==
  ASSUME NEW S, NEW s \in Seq(S), NEW a \in S, NEW b \in S
  PROVE  [Append(s, a) EXCEPT ![Len(s) + 1] = b] = Append(s, b)
<1>1. PICK l : l = Len(s)
  OBVIOUS
<1>2. l \in Nat
  BY <1>1
<1>3. ASSUME NEW e \in S
      PROVE  Append(s, e) = [i \in 1..(l + 1) |-> IF i = l + 1 THEN e ELSE s[i]]
  <2>1. PICK t : t = Append(s, e)
    OBVIOUS
  <2>2. /\ t \in Seq(S) /\ Len(t) = l + 1
        /\ \A i \in 1..(l + 1) : t[i] = IF i = l + 1 THEN e ELSE s[i]
    BY <1>1, <1>2, <2>1
  <2>3. t = [i \in 1..(l + 1) |-> t[i]]
    BY <2>2
  <2> QED BY <2>1, <2>2, <2>3
<1> QED BY <1>1, <1>2, <1>3

LEMMA AccumulateKeeps ==
  ASSUME NEW rec, NEW g \in Seq(Chunks), Records(rec, g), NEW c \in Chunks
  PROVE  /\ Records(Accumulate(rec, c), Append(g, c))
         /\ Assembled(ExpandAssistantStream(Accumulate(rec, c)))
              = Assemble(Assembled(ExpandAssistantStream(rec)), c)
<1>1. rec \in Seq(Items) /\ Len(rec) \in Nat
  BY DEF Records
<1>2. CASE c.type # "delta"
  <2>1. PICK item : item = [type |-> "chunk", chunk |-> c]
    OBVIOUS
  <2>2. item \in Items
    BY <1>2, <2>1, DeltasByType DEF Items, Wholes
  <2>3. Expanded(item) = <<c>>
    BY <2>1 DEF Expanded
  <2>4. Accumulate(rec, c) = Append(rec, item)
    BY <1>2, <2>1 DEF Accumulate
  <2>5. \A a \in Assemblies : Assemble(a, c) = Assemble(a, c)
    OBVIOUS
  <2> QED BY <2>2, <2>3, <2>4, <2>5, NewItem
<1>3. CASE c.type = "delta" /\ Len(rec) > 0 /\ SameRun(rec[Len(rec)], c)
  <2>1. c \in Deltas
    BY <1>3, DeltasByType
  <2>2. PICK base \in Seq(Items), run \in Items : rec = Append(base, run)
    <3>1. rec # <<>>
      BY <1>3
    <3> QED BY <1>1, <3>1, SequenceEmptyOrAppend
  <2>3. Len(rec) = Len(base) + 1 /\ rec[Len(rec)] = run
    BY <2>2
  <2>4. run \in Runs /\ c.kind = run.kind /\ c.index = run.index
    BY <1>3, <2>3 DEF SameRun, Items, Wholes
  <2>5. Accumulate(rec, c) = Append(base, AddToRun(run, c))
    <3>1. Accumulate(rec, c) = [rec EXCEPT ![Len(rec)] = AddToRun(@, c)]
      BY <1>3 DEF Accumulate
    <3>2. PICK longer, l : longer = AddToRun(run, c) /\ l = Len(base)
      OBVIOUS
    <3>3. Accumulate(rec, c) = [rec EXCEPT ![l + 1] = longer]
      BY <2>3, <3>1, <3>2
    <3>4. [Append(base, run) EXCEPT ![l + 1] = longer] = Append(base, longer)
      <4>1. longer \in Items
        BY <2>1, <2>2, <2>4, <3>2, AddToRunTyped DEF Items
      <4> QED BY <3>2, <4>1, LastReplaced
    <3> QED BY <2>2, <3>2, <3>3, <3>4
  <2> QED BY <2>1, <2>2, <2>4, <2>5, LongerRun
<1>4. CASE c.type = "delta" /\ ~(Len(rec) > 0 /\ SameRun(rec[Len(rec)], c))
  <2>1. PICK item : item = [type |-> "run", kind |-> c.kind, index |-> c.index,
                            pieces |-> <<c.piece>>, id |-> c.id]
    OBVIOUS
  <2>2. /\ c.kind \in Kinds /\ c.index \in Nat /\ c.piece \in Nat /\ c.id \in Names
        /\ c = Delta(c.index, c.kind, c.piece, c.id, c.wire) /\ c \in Deltas
    BY <1>4, DeltasByType DEF Deltas, Delta
  <2>3. item \in Items
    <3>1. <<c.piece>> \in Seq(Nat) /\ <<c.piece>> # <<>>
      BY <2>2
    <3> QED BY <2>1, <2>2, <3>1 DEF Items, Runs
  <2>b. PICK b : b = Delta(c.index, c.kind, c.piece, c.id, 0)
    OBVIOUS
  <2>4. Expanded(item) = <<b>>
    <3>1. Run(c.index, c.kind, <<c.piece>>, c.id) = <<b>>
      BY <2>2, <2>b, SinglePiece
    <3> QED BY <2>1, <3>1 DEF Expanded
  <2>5. Accumulate(rec, c) = Append(rec, item)
    BY <1>4, <2>1 DEF Accumulate
  <2>6. b \in Chunks
    BY <2>2, <2>b, ChunkTypes DEF Chunks, Content
  <2>7. Bare(b) = Bare(c)
    <3>1. PICK i, k, n, id, w : i = c.index /\ k = c.kind /\ n = c.piece /\ id = c.id /\ w = c.wire
      OBVIOUS
    <3>2. c = Delta(i, k, n, id, w) /\ b = Delta(i, k, n, id, 0)
      BY <2>2, <2>b, <3>1
    <3>3. Bare(c) = Delta(i, k, n, "", 0) /\ Bare(b) = Delta(i, k, n, "", 0)
      BY <3>2, BareDelta, Zenon
    <3> QED BY <3>3
  <2>8. ASSUME NEW a \in Assemblies PROVE Assemble(a, b) = Assemble(a, c)
    <3>1. Assemble(a, b) = RunTold(a, c.index, <<c.piece>>, c.id)
      BY <2>2, <2>b, DeltaIsRun
    <3>2. PICK w : w = c.wire
      OBVIOUS
    <3>3. Assemble(a, Delta(c.index, c.kind, c.piece, c.id, w)) = RunTold(a, c.index, <<c.piece>>, c.id)
      BY <2>2, DeltaIsRun
    <3> QED BY <2>2, <3>1, <3>2, <3>3
  <2> QED BY <2>3, <2>4, <2>5, <2>6, <2>7, <2>8, NewItem
<1> QED BY <1>2, <1>3, <1>4

Replays ==
  Records(items, got) /\ Assembled(ExpandAssistantStream(items)) = asm

LEMMA ReplaysThroughout == Spec => [](Streamed /\ Replays)
<1>1. Init => Replays
  <2>1. <<>> \in Seq(Items) /\ Len(<<>>) = 0
    OBVIOUS
  <2>2. ExpandAssistantStream(<<>>) = <<>>
    <3>1. PICK q : q = [i \in DOMAIN <<>> |-> Expanded(<<>>[i])]
      OBVIOUS
    <3>2. q \in Seq(Seq(Chunks)) /\ Len(q) = 0 /\ ExpandAssistantStream(<<>>) = FlattenSeq(q)
      BY <2>1, <3>1, ExpandIs
    <3> QED BY <3>2, FlattenIs
  <2> QED BY <2>1, <2>2, AssembledNothing DEF Init, Replays, Records
<1>2. ASSUME Streamed, Replays, [Next]_vars PROVE Replays'
  <2>1. CASE StepReceives
    <3>1. PICK c : c = Head(out)
      OBVIOUS
    <3>2. /\ got' = Append(got, c) /\ asm' = Assemble(asm, c) /\ items' = Accumulate(items, c)
          /\ got \in Seq(Chunks) /\ c \in Chunks
      BY <1>2, <2>1, <3>1, FinishLeaves DEF StepReceives, Streamed, ChunksTyped
    <3> QED BY <1>2, <3>2, AccumulateKeeps DEF Replays
  <2>2. CASE ~StepReceives
    <3>1. UNCHANGED <<got, asm, items>>
      BY <1>2, <2>2 DEF Next, vars, Request, ScanReads, ScanHears, ScanAlone, ScanRenews, ScanBreaks, ScanIdles, PumpStep,
         PumpTakes, PumpSeesCancel, PumpSends, PumpGivesUp, StepStep, StepConcludes, Cancel
    <3> QED BY <1>2, <3>1 DEF Replays
  <2> QED BY <2>1, <2>2
<1> QED BY <1>1, <1>2, StreamedAtFirst, NextKeepsStream, PTL DEF Spec

\* The stream record replays what the step received, and assembling the replay
\* makes what assembling the stream made (StreamAccumulator, ExpandAssistantStream).
THEOREM ReplayIsTheStream == Spec => []ReplayKeepsDeltas
<1>1. Replays => ReplayKeepsDeltas
  BY DEF Replays, Records, ReplayKeepsDeltas
<1> QED BY <1>1, ReplaysThroughout, PTL

\* Every variable of a model call keeps its type (adapter, assembler, record).
THEOREM StreamTypeCorrect ==
  Spec => [](ProviderTyped /\ ChunksTyped /\ items \in Seq(Items) /\ asm \in Assemblies)
<1>1. Streamed /\ Replays
        => ProviderTyped /\ ChunksTyped /\ items \in Seq(Items) /\ asm \in Assemblies
  BY ExpandTyped, AssembledTyped DEF Streamed, Replays, Records
<1> QED BY <1>1, ReplaysThroughout, PTL
-----------------------------------------------------------------------------
(* What the provider said, the translator wrote and the step assembled.    *)

\* The pieces of the wire chunks ws.
Said(ws) == FlattenSeq([n \in DOMAIN ws |-> PiecesOf(ws[n], n)])

\* The pieces for block i among chunks, and the blocks they end, oldest first.
PiecesIn(chunks, i) ==
  FlattenSeq([k \in DOMAIN chunks |->
    IF chunks[k].type = "delta" /\ chunks[k].index = i THEN <<chunks[k].piece>> ELSE <<>>])
EndsIn(chunks) ==
  FlattenSeq([k \in DOMAIN chunks |-> IF chunks[k].type = "block-end" THEN <<chunks[k]>> ELSE <<>>])
EndsOf(bs) == [i \in DOMAIN bs |-> End(i, bs[i])]

\* Every call sent has one block, which says what was sent of it, ...
CallsWritten(tr, sent) ==
  /\ \A i \in DOMAIN tr.blocks :
       IF tr.blocks[i].kind = "tool-call"
       THEN /\ tr.wires[i] \in CallIndexes(sent)
            /\ tr.blocks[i] = SentCall(sent, tr.wires[i])
       ELSE tr.wires[i] = -1
  /\ \A i, j \in DOMAIN tr.blocks :
       tr.blocks[i].kind = "tool-call" /\ tr.wires[i] = tr.wires[j] => i = j
  /\ CallIndexes(sent) \subseteq Range(tr.wires)
  /\ \A x \in Nat \ Range(tr.wires) : SentTo(sent, x) = <<>> /\ SentIds(sent, x) = <<>>
\* ... the other blocks say the text and the reasoning, ...
TextWritten(tr, sent) ==
  \A kind \in {"text", "reasoning"} : TextOf(tr.blocks, kind) = SentAs(sent, kind)
\* ... and none is empty or older than the one before it; n is the last piece.
InOrder(tr, n) ==
  /\ \A i \in DOMAIN tr.blocks :
       tr.blocks[i].buf # <<>> /\ \A k \in DOMAIN tr.blocks[i].buf : tr.blocks[i].buf[k] <= n
  /\ \A i, j \in DOMAIN tr.blocks : i < j => tr.blocks[i].buf[1] <= tr.blocks[j].buf[1]
Written(tr, sent, n) == CallsWritten(tr, sent) /\ TextWritten(tr, sent) /\ InOrder(tr, n)

\* The chunks begin and fill the blocks of the translator, one start each.
Begins(chunks, bs) ==
  \A k \in DOMAIN chunks : chunks[k].type = "block-start" =>
    /\ chunks[k].index \in DOMAIN bs /\ chunks[k].kind = bs[chunks[k].index].kind
    /\ \A l \in 1..(k - 1) : /\ chunks[l].type \in {"block-start", "delta"}
                             /\ chunks[l].index # chunks[k].index
Carries(chunks, bs) ==
  /\ Begins(chunks, bs)
  /\ \A k \in DOMAIN chunks : chunks[k].type \in {"block-start", "delta"}
  /\ \A k \in DOMAIN chunks : chunks[k].index \in DOMAIN bs
  /\ \A i \in DOMAIN bs : PiecesIn(chunks, i) = bs[i].buf
  /\ \A i \in Nat \ DOMAIN bs : PiecesIn(chunks, i) = <<>>

\* As far as it got.
Partly(chunks, bs) ==
  /\ Begins(chunks, bs)
  /\ \A i \in DOMAIN bs : IsPrefix(PiecesIn(chunks, i), bs[i].buf)
  /\ IsPrefix(EndsIn(chunks), EndsOf(bs))

\* The assembler has what the chunks say: the blocks they end, and of the
\* others those they begin.
Begun(o, chunks) ==
  /\ \E k \in DOMAIN chunks : chunks[k] = Start(o.index, o.block.kind)
  /\ o.block.buf = PiecesIn(chunks, o.index)
  /\ \A k \in DOMAIN EndsIn(chunks) : EndsIn(chunks)[k].index # o.index
Gathered(a, chunks) ==
  /\ a.content = [k \in DOMAIN EndsIn(chunks) |-> EndsIn(chunks)[k].block]
  /\ \A i \in DOMAIN a.open : Begun(a.open[i], chunks)
  /\ \A k \in DOMAIN chunks : chunks[k].type = "finish" => a.finish = chunks[k].finish
  /\ NoFinish(chunks) => a.finish = "none"

-----------------------------------------------------------------------------
(* The invariant of an answer.                                             *)

Made == got \o out \o todo
Translated == IF event.kind = "data" THEN SubSeq(wire, 1, Len(wire) - 1) ELSE wire

TranslatorIsAhead ==
  /\ scan # "offer" => event = NoEvent
  /\ pump = "request" => scan = "off"
  /\ pump \in {"request", "wait", "send"} =>
       Written(st, Said(Translated), Len(Translated)) /\ Carries(Made, st.blocks)
ChunksArePart == Partly(Made, st.blocks)
StepIsBehind == Gathered(asm, got)
BlocksBegan == IsBeginning(st.blocks, Sent)
\* A finish that is no error came of a cancel, or of the end of the answer.
FinishIsHonest ==
  \A k \in DOMAIN Made : Made[k].type = "finish" =>
    \/ Made[k].finish = "error"
    \/ Made[k].finish = "aborted" /\ cancelled
    \/ /\ Made[k].finish # "aborted" /\ scan = "ended"
       /\ IsWhole(st.blocks, Sent) /\ EndsIn(Made) = EndsOf(st.blocks)
Concluded == outcome \notin {"none", "error"} => pump = "closed"

Answering ==
  TranslatorIsAhead /\ ChunksArePart /\ StepIsBehind /\ BlocksBegan /\ FinishIsHonest
Answers == Answering /\ Concluded /\ AnswerIsWhole

-----------------------------------------------------------------------------
(* Parts of a sequence that are picked out of it, one element at a time.   *)

Pieces ==
  [kind : {"tool-call"}, index : Nat, piece : Nat, id : Names]
    \cup [kind : {"text", "reasoning"}, index : {-1}, piece : Nat, id : {""}]

Ids == {id \in Names : id # ""}

LEMMA MinusOne == -1 \in Int
OBVIOUS

LEMMA PieceTypes ==
  \A d \in Pieces : /\ d.kind \in Kinds /\ d.index \in Int /\ d.piece \in Nat /\ d.id \in Names
                    /\ <<d.piece>> \in Seq(Nat) /\ (d.id # "" => <<d.id>> \in Seq(Ids))
                    /\ IF d.kind = "tool-call" THEN d.index \in Nat ELSE d.index = -1 /\ d.id = ""
<1>1. ASSUME NEW d \in [kind : {"tool-call"}, index : Nat, piece : Nat, id : Names]
      PROVE  /\ d.kind \in Kinds /\ d.index \in Int /\ d.piece \in Nat /\ d.id \in Names
             /\ d.kind = "tool-call" /\ d.index \in Nat
  BY <1>1 DEF Kinds
<1>2. ASSUME NEW d \in [kind : {"text", "reasoning"}, index : {-1}, piece : Nat, id : {""}]
      PROVE  /\ d.kind \in Kinds /\ d.index \in Int /\ d.piece \in Nat /\ d.id \in Names
             /\ d.kind # "tool-call" /\ d.index = -1 /\ d.id = ""
  <2>1. d.kind \in {"text", "reasoning"} /\ d.index = -1 /\ d.piece \in Nat /\ d.id = ""
    BY <1>2
  <2>2. "" \in Names
    BY DEF Names
  <2>3. d.index \in Int
    BY <2>1, MinusOne, Zenon
  <2> QED BY <2>1, <2>2, <2>3 DEF Kinds
<1>3. \A n \in Nat : <<n>> \in Seq(Nat)
  OBVIOUS
<1>4. \A n \in Names : n # "" => <<n>> \in Seq(Ids)
  <2>1. \A n \in Names : n # "" => n \in Ids
    BY DEF Ids
  <2>2. \A n \in Ids : <<n>> \in Seq(Ids)
    OBVIOUS
  <2> QED BY <2>1, <2>2
<1> QED BY <1>1, <1>2, <1>3, <1>4 DEF Pieces

LEMMA MapTyped ==
  ASSUME NEW S, NEW k \in Nat, NEW q \in [1..k -> S]
  PROVE  q \in Seq(S) /\ Len(q) = k
OBVIOUS

\* What is flattened of a mapped sequence grows by what its last element gives.
LEMMA FlattenMap ==
  ASSUME NEW F, NEW q \in Seq(Seq(F)), NEW p \in Seq(Seq(F)), NEW l \in Nat,
         Len(p) = l, l = Len(q) + 1, \A i \in 1..Len(q) : p[i] = q[i]
  PROVE  FlattenSeq(q) \in Seq(F) /\ FlattenSeq(p) = FlattenSeq(q) \o p[l]
<1>1. PICK s, S : s = p[l] /\ S = Seq(F)
  OBVIOUS
<1>2. q \in Seq(S) /\ p \in Seq(S) /\ s \in S
  BY <1>1
<1>3. p = Append(q, s)
  BY <1>1, <1>2
<1>4. FlattenSeq(q) \in Seq(F)
  BY <1>1, <1>2, FlattenTyped
<1>5. FlattenSeq(Append(q, s)) = FlattenSeq(q) \o s
  BY <1>1, <1>2, <1>4, FlattenAppends
<1> QED BY <1>1, <1>3, <1>4, <1>5

LEMMA FlattenNothing == ASSUME NEW q, q = [i \in {} |-> q[i]] PROVE FlattenSeq(q) = <<>>
<1>1. q \in Seq({}) /\ Len(q) = 0
  <2>1. q = <<>>
    OBVIOUS
  <2> QED BY <2>1
<1> QED BY <1>1, FlattenIs

LEMMA PickedFromNothing ==
  /\ \A kind : SentAs(<<>>, kind) = <<>>
  /\ \A x : SentTo(<<>>, x) = <<>> /\ SentIds(<<>>, x) = <<>>
  /\ \A i : PiecesIn(<<>>, i) = <<>>
  /\ EndsIn(<<>>) = <<>>
  /\ \A kind : TextOf(<<>>, kind) = <<>>
<1>1. DOMAIN <<>> = {}
  OBVIOUS
<1> QED BY <1>1, FlattenNothing DEF SentAs, SentTo, SentIds, PiecesIn, EndsIn, TextOf

LEMMA SentGrows ==
  ASSUME NEW s \in Seq(Pieces), NEW d \in Pieces, NEW kind, NEW x
  PROVE  /\ SentAs(s, kind) \in Seq(Nat) /\ SentTo(s, x) \in Seq(Nat) /\ SentIds(s, x) \in Seq(Ids)
         /\ SentAs(Append(s, d), kind) = SentAs(s, kind) \o IF d.kind = kind THEN <<d.piece>> ELSE <<>>
         /\ SentTo(Append(s, d), x) = SentTo(s, x) \o IF d.index = x THEN <<d.piece>> ELSE <<>>
         /\ SentIds(Append(s, d), x)
              = SentIds(s, x) \o IF d.index = x /\ d.id # "" THEN <<d.id>> ELSE <<>>
<1>1. PICK t, k, l : t = Append(s, d) /\ k = Len(s) /\ l = k + 1
  OBVIOUS
<1>2. /\ k \in Nat /\ l \in Nat /\ l = k + 1 /\ DOMAIN s = 1..k /\ DOMAIN t = 1..l /\ t[l] = d
      /\ \A i \in 1..k : i \in 1..l /\ t[i] = s[i] /\ s[i] \in Pieces
      /\ l \in 1..l /\ \A i \in 1..l : t[i] \in Pieces
  BY <1>1
<1>3. <<>> \in Seq(Nat) /\ <<>> \in Seq(Ids)
  OBVIOUS
<1>4. /\ SentAs(s, kind) \in Seq(Nat)
      /\ SentAs(t, kind) = SentAs(s, kind) \o IF d.kind = kind THEN <<d.piece>> ELSE <<>>
  <2> DEFINE q == [i \in DOMAIN s |-> IF s[i].kind = kind THEN <<s[i].piece>> ELSE <<>>]
             p == [i \in DOMAIN t |-> IF t[i].kind = kind THEN <<t[i].piece>> ELSE <<>>]
  <2>1. q \in [1..k -> Seq(Nat)] /\ p \in [1..l -> Seq(Nat)]
    BY <1>2, <1>3, PieceTypes
  <2>2. /\ p[l] = IF d.kind = kind THEN <<d.piece>> ELSE <<>>
        /\ \A i \in 1..k : p[i] = q[i]
    BY <1>2
  <2>3. SentAs(s, kind) = FlattenSeq(q) /\ SentAs(t, kind) = FlattenSeq(p)
    BY DEF SentAs
  <2> HIDE DEF q, p
  <2>4. FlattenSeq(q) \in Seq(Nat) /\ FlattenSeq(p) = FlattenSeq(q) \o p[l]
    <3>1. PICK S : S = Seq(Nat)
      OBVIOUS
    <3>2. q \in Seq(S) /\ p \in Seq(S) /\ Len(q) = k /\ Len(p) = l
      BY <1>2, <2>1, <3>1, MapTyped
    <3> QED BY <1>2, <2>2, <3>1, <3>2, FlattenMap
  <2> QED BY <2>2, <2>3, <2>4
<1>5. /\ SentTo(s, x) \in Seq(Nat)
      /\ SentTo(t, x) = SentTo(s, x) \o IF d.index = x THEN <<d.piece>> ELSE <<>>
  <2> DEFINE q == [i \in DOMAIN s |-> IF s[i].index = x THEN <<s[i].piece>> ELSE <<>>]
             p == [i \in DOMAIN t |-> IF t[i].index = x THEN <<t[i].piece>> ELSE <<>>]
  <2>1. q \in [1..k -> Seq(Nat)] /\ p \in [1..l -> Seq(Nat)]
    BY <1>2, <1>3, PieceTypes
  <2>2. /\ p[l] = IF d.index = x THEN <<d.piece>> ELSE <<>>
        /\ \A i \in 1..k : p[i] = q[i]
    BY <1>2
  <2>3. SentTo(s, x) = FlattenSeq(q) /\ SentTo(t, x) = FlattenSeq(p)
    BY DEF SentTo
  <2> HIDE DEF q, p
  <2>4. FlattenSeq(q) \in Seq(Nat) /\ FlattenSeq(p) = FlattenSeq(q) \o p[l]
    <3>1. PICK S : S = Seq(Nat)
      OBVIOUS
    <3>2. q \in Seq(S) /\ p \in Seq(S) /\ Len(q) = k /\ Len(p) = l
      BY <1>2, <2>1, <3>1, MapTyped
    <3> QED BY <1>2, <2>2, <3>1, <3>2, FlattenMap
  <2> QED BY <2>2, <2>3, <2>4
<1>6. /\ SentIds(s, x) \in Seq(Ids)
      /\ SentIds(t, x) = SentIds(s, x) \o IF d.index = x /\ d.id # "" THEN <<d.id>> ELSE <<>>
  <2> DEFINE q == [i \in DOMAIN s |-> IF s[i].index = x /\ s[i].id # "" THEN <<s[i].id>> ELSE <<>>]
             p == [i \in DOMAIN t |-> IF t[i].index = x /\ t[i].id # "" THEN <<t[i].id>> ELSE <<>>]
  <2>1. q \in [1..k -> Seq(Ids)] /\ p \in [1..l -> Seq(Ids)]
    BY <1>2, <1>3, PieceTypes
  <2>2. /\ p[l] = IF d.index = x /\ d.id # "" THEN <<d.id>> ELSE <<>>
        /\ \A i \in 1..k : p[i] = q[i]
    BY <1>2
  <2>3. SentIds(s, x) = FlattenSeq(q) /\ SentIds(t, x) = FlattenSeq(p)
    BY DEF SentIds
  <2> HIDE DEF q, p
  <2>4. FlattenSeq(q) \in Seq(Ids) /\ FlattenSeq(p) = FlattenSeq(q) \o p[l]
    <3>1. PICK S : S = Seq(Ids)
      OBVIOUS
    <3>2. q \in Seq(S) /\ p \in Seq(S) /\ Len(q) = k /\ Len(p) = l
      BY <1>2, <2>1, <3>1, MapTyped
    <3> QED BY <1>2, <2>2, <3>1, <3>2, FlattenMap
  <2> QED BY <2>2, <2>3, <2>4
<1> QED BY <1>1, <1>4, <1>5, <1>6

LEMMA ChunksGrow ==
  ASSUME NEW s \in Seq(Chunks), NEW c \in Chunks, NEW x
  PROVE  /\ PiecesIn(s, x) \in Seq(Nat) /\ EndsIn(s) \in Seq(Ends)
         /\ PiecesIn(Append(s, c), x)
              = PiecesIn(s, x) \o IF c.type = "delta" /\ c.index = x THEN <<c.piece>> ELSE <<>>
         /\ EndsIn(Append(s, c)) = EndsIn(s) \o IF c.type = "block-end" THEN <<c>> ELSE <<>>
<1>1. PICK t, k, l : t = Append(s, c) /\ k = Len(s) /\ l = k + 1
  OBVIOUS
<1>2. /\ k \in Nat /\ l \in Nat /\ l = k + 1 /\ DOMAIN s = 1..k /\ DOMAIN t = 1..l /\ t[l] = c
      /\ \A i \in 1..k : i \in 1..l /\ t[i] = s[i] /\ s[i] \in Chunks
      /\ l \in 1..l /\ \A i \in 1..l : t[i] \in Chunks
  BY <1>1
<1>3. /\ <<>> \in Seq(Nat) /\ <<>> \in Seq(Ends)
      /\ \A e \in Chunks : /\ e.type = "delta" => <<e.piece>> \in Seq(Nat)
                           /\ e.type = "block-end" => <<e>> \in Seq(Ends)
  <2>1. \A e \in Chunks : /\ e.type = "delta" => e.piece \in Nat
                          /\ e.type = "block-end" => e \in Ends
    BY DEF Chunks, Content, Starts, Deltas, Ends, Usages, Finishes
  <2>2. \A n \in Nat : <<n>> \in Seq(Nat)
    OBVIOUS
  <2>3. \A e \in Ends : <<e>> \in Seq(Ends)
    OBVIOUS
  <2> QED BY <2>1, <2>2, <2>3
<1>4. /\ PiecesIn(s, x) \in Seq(Nat)
      /\ PiecesIn(t, x) = PiecesIn(s, x) \o IF c.type = "delta" /\ c.index = x THEN <<c.piece>> ELSE <<>>
  <2> DEFINE q == [i \in DOMAIN s |-> IF s[i].type = "delta" /\ s[i].index = x THEN <<s[i].piece>> ELSE <<>>]
             p == [i \in DOMAIN t |-> IF t[i].type = "delta" /\ t[i].index = x THEN <<t[i].piece>> ELSE <<>>]
  <2>1. q \in [1..k -> Seq(Nat)] /\ p \in [1..l -> Seq(Nat)]
    BY <1>2, <1>3
  <2>2. /\ p[l] = IF c.type = "delta" /\ c.index = x THEN <<c.piece>> ELSE <<>>
        /\ \A i \in 1..k : p[i] = q[i]
    BY <1>2
  <2>3. PiecesIn(s, x) = FlattenSeq(q) /\ PiecesIn(t, x) = FlattenSeq(p)
    BY DEF PiecesIn
  <2> HIDE DEF q, p
  <2>4. FlattenSeq(q) \in Seq(Nat) /\ FlattenSeq(p) = FlattenSeq(q) \o p[l]
    <3>1. PICK S : S = Seq(Nat)
      OBVIOUS
    <3>2. q \in Seq(S) /\ p \in Seq(S) /\ Len(q) = k /\ Len(p) = l
      BY <1>2, <2>1, <3>1, MapTyped
    <3> QED BY <1>2, <2>2, <3>1, <3>2, FlattenMap
  <2> QED BY <2>2, <2>3, <2>4
<1>5. /\ EndsIn(s) \in Seq(Ends)
      /\ EndsIn(t) = EndsIn(s) \o IF c.type = "block-end" THEN <<c>> ELSE <<>>
  <2> DEFINE q == [i \in DOMAIN s |-> IF s[i].type = "block-end" THEN <<s[i]>> ELSE <<>>]
             p == [i \in DOMAIN t |-> IF t[i].type = "block-end" THEN <<t[i]>> ELSE <<>>]
  <2>1. q \in [1..k -> Seq(Ends)] /\ p \in [1..l -> Seq(Ends)]
    BY <1>2, <1>3
  <2>2. /\ p[l] = IF c.type = "block-end" THEN <<c>> ELSE <<>>
        /\ \A i \in 1..k : p[i] = q[i]
    BY <1>2
  <2>3. EndsIn(s) = FlattenSeq(q) /\ EndsIn(t) = FlattenSeq(p)
    BY DEF EndsIn
  <2> HIDE DEF q, p
  <2>4. FlattenSeq(q) \in Seq(Ends) /\ FlattenSeq(p) = FlattenSeq(q) \o p[l]
    <3>1. PICK S : S = Seq(Ends)
      OBVIOUS
    <3>2. q \in Seq(S) /\ p \in Seq(S) /\ Len(q) = k /\ Len(p) = l
      BY <1>2, <2>1, <3>1, MapTyped
    <3> QED BY <1>2, <2>2, <3>1, <3>2, FlattenMap
  <2> QED BY <2>2, <2>3, <2>4
<1> QED BY <1>1, <1>4, <1>5

\* The text of blocks of which only the last differs, or is new.
LEMMA TextGrows ==
  ASSUME NEW s \in Seq(BlockType), NEW b \in BlockType, NEW kind
  PROVE  /\ TextOf(s, kind) \in Seq(Nat)
         /\ TextOf(Append(s, b), kind) = TextOf(s, kind) \o IF b.kind = kind THEN b.buf ELSE <<>>
<1>1. PICK t, k, l : t = Append(s, b) /\ k = Len(s) /\ l = k + 1
  OBVIOUS
<1>2. /\ k \in Nat /\ l \in Nat /\ l = k + 1 /\ DOMAIN s = 1..k /\ DOMAIN t = 1..l /\ t[l] = b
      /\ \A i \in 1..k : i \in 1..l /\ t[i] = s[i] /\ s[i] \in BlockType
      /\ l \in 1..l /\ \A i \in 1..l : t[i] \in BlockType
  BY <1>1
<1>3. <<>> \in Seq(Nat) /\ \A e \in BlockType : e.buf \in Seq(Nat)
  BY DEF BlockType
<1>4. /\ TextOf(s, kind) \in Seq(Nat)
      /\ TextOf(t, kind) = TextOf(s, kind) \o IF b.kind = kind THEN b.buf ELSE <<>>
  <2> DEFINE q == [i \in DOMAIN s |-> IF s[i].kind = kind THEN s[i].buf ELSE <<>>]
             p == [i \in DOMAIN t |-> IF t[i].kind = kind THEN t[i].buf ELSE <<>>]
  <2>1. q \in [1..k -> Seq(Nat)] /\ p \in [1..l -> Seq(Nat)]
    BY <1>2, <1>3
  <2>2. /\ p[l] = IF b.kind = kind THEN b.buf ELSE <<>>
        /\ \A i \in 1..k : p[i] = q[i]
    BY <1>2
  <2>3. TextOf(s, kind) = FlattenSeq(q) /\ TextOf(t, kind) = FlattenSeq(p)
    BY DEF TextOf
  <2> HIDE DEF q, p
  <2>4. FlattenSeq(q) \in Seq(Nat) /\ FlattenSeq(p) = FlattenSeq(q) \o p[l]
    <3>1. PICK S : S = Seq(Nat)
      OBVIOUS
    <3>2. q \in Seq(S) /\ p \in Seq(S) /\ Len(q) = k /\ Len(p) = l
      BY <1>2, <2>1, <3>1, MapTyped
    <3> QED BY <1>2, <2>2, <3>1, <3>2, FlattenMap
  <2> QED BY <2>2, <2>3, <2>4
<1> QED BY <1>1, <1>4

LEMMA CallGrows ==
  ASSUME NEW s \in Seq(Pieces), NEW d \in Pieces, NEW x
  PROVE  SentCall(Append(s, d), x)
           = IF d.index = x
             THEN Block("tool-call", acceptIdentity(SentCall(s, x).id, d.id),
                        Append(SentCall(s, x).buf, d.piece))
             ELSE SentCall(s, x)
<1>1. PICK t, ids, to, ids2, to2, p, id :
        /\ t = Append(s, d) /\ ids = SentIds(s, x) /\ to = SentTo(s, x)
        /\ ids2 = SentIds(t, x) /\ to2 = SentTo(t, x) /\ p = d.piece /\ id = d.id
  OBVIOUS
<1>2. ids \in Seq(Ids) /\ to \in Seq(Nat) /\ p \in Nat /\ id \in Names
  BY <1>1, SentGrows, PieceTypes
<1>3. /\ to2 = to \o (IF d.index = x THEN <<p>> ELSE <<>>)
      /\ ids2 = ids \o (IF d.index = x /\ id # "" THEN <<id>> ELSE <<>>)
  BY <1>1, SentGrows
<1>4. PICK old, new : /\ old = (IF ids = <<>> THEN "" ELSE ids[1])
                      /\ new = (IF ids2 = <<>> THEN "" ELSE ids2[1])
  OBVIOUS
<1>5. SentCall(s, x) = Block("tool-call", old, to) /\ SentCall(t, x) = Block("tool-call", new, to2)
  BY <1>1, <1>4 DEF SentCall
<1>6. CASE d.index # x
  <2>1. to2 = to \o <<>> /\ ids2 = ids \o <<>>
    BY <1>3, <1>6
  <2>2. to2 = to /\ ids2 = ids
    BY <1>2, <2>1
  <2> QED BY <1>1, <1>4, <1>5, <1>6, <2>2
<1>7. CASE d.index = x
  <2>1. to2 = to \o <<p>> /\ ids2 = ids \o (IF id # "" THEN <<id>> ELSE <<>>)
    BY <1>3, <1>7
  <2>2. to2 = Append(to, p)
    <3>1. to \o <<p>> = Append(to, p)
      BY <1>2
    <3> QED BY <2>1, <3>1
  <2>3. new = acceptIdentity(old, id)
    <3>1. CASE ids # <<>>
      <4>1. Len(ids) \in Nat /\ Len(ids) > 0 /\ ids[1] \in Ids
        BY <1>2, <3>1
      <4>2. old = ids[1] /\ old # ""
        BY <1>4, <3>1, <4>1 DEF Ids
      <4>3. ids2 # <<>> /\ ids2[1] = ids[1]
        <5>1. CASE id = ""
          <6>1. ids2 = ids \o <<>>
            BY <2>1, <5>1
          <6> QED BY <1>2, <3>1, <6>1
        <5>2. CASE id # ""
          <6>1. ids2 = ids \o <<id>> /\ id \in Ids
            BY <1>2, <2>1, <5>2 DEF Ids
          <6> QED BY <1>2, <4>1, <6>1
        <5> QED BY <5>1, <5>2
      <4> QED BY <1>4, <4>2, <4>3 DEF acceptIdentity
    <3>2. CASE ids = <<>>
      <4>1. old = ""
        BY <1>4, <3>2
      <4>2. CASE id = ""
        <5>1. ids2 = <<>> \o <<>>
          BY <2>1, <3>2, <4>2
        <5>2. ids2 = <<>>
          BY <5>1
        <5> QED BY <1>4, <4>1, <4>2, <5>2 DEF acceptIdentity
      <4>3. CASE id # ""
        <5>1. ids2 = <<>> \o <<id>>
          BY <2>1, <3>2, <4>3
        <5>2. ids2 # <<>> /\ ids2[1] = id
          BY <5>1
        <5> QED BY <1>4, <4>1, <4>3, <5>2 DEF acceptIdentity
      <4> QED BY <4>2, <4>3
    <3> QED BY <3>1, <3>2
  <2>4. SentCall(s, x).id = old /\ SentCall(s, x).buf = to
    BY <1>5 DEF Block
  <2> QED BY <1>1, <1>5, <1>7, <2>2, <2>3, <2>4
<1> QED BY <1>6, <1>7

LEMMA IndexesGrow ==
  ASSUME NEW s \in Seq(Pieces), NEW d \in Pieces
  PROVE  /\ CallIndexes(s) \subseteq Nat
         /\ CallIndexes(Append(s, d)) = CallIndexes(s) \cup ({d.index} \ {-1})
<1>1. PICK t, k, l : t = Append(s, d) /\ k = Len(s) /\ l = k + 1
  OBVIOUS
<1>2. /\ k \in Nat /\ l \in Nat /\ DOMAIN s = 1..k /\ DOMAIN t = 1..l /\ t[l] = d
      /\ \A i \in 1..k : i \in 1..l /\ t[i] = s[i] /\ s[i] \in Pieces
      /\ l \in 1..l /\ \A i \in 1..l : i = l \/ i \in 1..k
  BY <1>1
<1>3. CallIndexes(t) = CallIndexes(s) \cup ({d.index} \ {-1})
  BY <1>2 DEF CallIndexes
<1>4. CallIndexes(s) \subseteq Nat
  BY <1>2, PieceTypes DEF CallIndexes
<1> QED BY <1>1, <1>3, <1>4

-----------------------------------------------------------------------------
(* The translator writes what is said.                                     *)

\* What Write makes of block i.
Wrote(s, i, kind, x, n, id) ==
  /\ i <= Len(s.tr.blocks) =>
       /\ DOMAIN Write(s, i, kind, x, n, id).tr.blocks = DOMAIN s.tr.blocks
       /\ Write(s, i, kind, x, n, id).tr.blocks[i]
            = Block(s.tr.blocks[i].kind, acceptIdentity(s.tr.blocks[i].id, id), Append(s.tr.blocks[i].buf, n))
       /\ \A j \in DOMAIN s.tr.blocks : j # i => Write(s, i, kind, x, n, id).tr.blocks[j] = s.tr.blocks[j]
       /\ Write(s, i, kind, x, n, id).tr.wires = s.tr.wires
       /\ Write(s, i, kind, x, n, id).out
            = Append(s.out, Delta(i, kind, n, Write(s, i, kind, x, n, id).tr.blocks[i].id,
                           toolCallIndex(kind, x)))
  /\ i > Len(s.tr.blocks) =>
       /\ Write(s, i, kind, x, n, id).tr.blocks = Append(s.tr.blocks, Block(kind, id, <<n>>))
       /\ Write(s, i, kind, x, n, id).tr.wires = Append(s.tr.wires, x)
       /\ Write(s, i, kind, x, n, id).out
            = Append(Append(s.out, Start(i, kind)), Delta(i, kind, n, id, toolCallIndex(kind, x)))

LEMMA WriteIs ==
  ASSUME NEW s, Pushed(s), NEW i \in 1..(Len(s.tr.blocks) + 1), NEW kind \in Kinds,
         NEW x \in Int, NEW n \in Nat, NEW id \in Names
  PROVE  Wrote(s, i, kind, x, n, id)
<1>1. PICK m, w, p, l : p = s.out /\ l = Len(m) /\ m = s.tr.blocks /\ w = s.tr.wires
  OBVIOUS
<1>2. /\ s.tr \in Translations /\ p \in Seq(Content)
      /\ m \in Seq(BlockType) /\ w \in Seq(Int) /\ Len(w) = l /\ i \in 1..(l + 1) /\ l \in Nat
      /\ Len(m) = l
  BY <1>1 DEF Pushed, TransOK, Translations
<1>3. PICK empty : empty = Block(kind, "", <<>>)
  OBVIOUS
<1>4. empty \in BlockType
  <2>1. "" \in Names
    BY DEF Names
  <2>2. <<>> \in Seq(Nat)
    OBVIOUS
  <2> QED BY <1>3, <2>1, <2>2 DEF Block, BlockType
<1>5. PICK old : old = IF i > l THEN Append(m, empty) ELSE m
  OBVIOUS
<1>6. old \in Seq(BlockType) /\ i \in 1..Len(old) /\ old[i] = IF i > l THEN empty ELSE m[i]
  <2>1. CASE i > l
    <3>1. i = l + 1 /\ old = Append(m, empty)
      BY <1>2, <1>5, <2>1
    <3> QED BY <1>2, <1>4, <2>1, <3>1
  <2>2. CASE ~(i > l)
    <3>1. i \in 1..l /\ old = m
      BY <1>2, <1>5, <2>2
    <3> QED BY <1>2, <2>2, <3>1
  <2> QED BY <2>1, <2>2
<1>7. PICK b, named : b = old[i] /\ named = acceptIdentity(b.id, id)
  OBVIOUS
<1>8. b \in BlockType /\ named \in Names
  <2>1. b \in BlockType
    BY <1>6, <1>7
  <2>2. b.id \in Names
    BY <2>1 DEF BlockType
  <2> QED BY <1>7, <2>1, <2>2 DEF acceptIdentity
<1>9. PICK e : e = Block(b.kind, named, Append(b.buf, n))
  OBVIOUS
<1>10. e \in BlockType /\ e.id = named
  BY <1>8, <1>9 DEF Block, BlockType
<1>11. PICK after : after = [old EXCEPT ![i].id = named, ![i].buf = Append(@, n)]
  OBVIOUS
<1>12. after = [old EXCEPT ![i] = e]
  <2>1. e = [kind |-> b.kind, id |-> named, buf |-> Append(b.buf, n)]
    BY <1>9 DEF Block
  <2>2. PICK c : c = [b EXCEPT !.id = named]
    OBVIOUS
  <2>3. c = [kind |-> b.kind, id |-> named, buf |-> b.buf]
    BY <1>8, <2>2 DEF BlockType
  <2>4. [c EXCEPT !.buf = Append(@, n)] = e
    <3>1. PICK u, y, z : u = b.kind /\ y = b.buf /\ z = Append(b.buf, n)
      OBVIOUS
    <3>2. c = [kind |-> u, id |-> named, buf |-> y] /\ c.buf = y /\ z = Append(y, n)
      BY <2>3, <3>1
    <3>3. [c EXCEPT !.buf = z] = [kind |-> u, id |-> named, buf |-> z]
      <4>1. c = [kind |-> u, id |-> named, buf |-> y]
        BY <3>2
      <4> QED BY ONLY <4>1
    <3>4. [c EXCEPT !.buf = Append(@, n)] = [c EXCEPT !.buf = z]
      <4>1. Append(c.buf, n) = z
        BY <3>2
      <4>2. [c EXCEPT !.buf = Append(c.buf, n)] = [c EXCEPT !.buf = z]
        BY <4>1, Zenon
      <4> QED BY <4>2
    <3> QED BY <2>1, <3>1, <3>3, <3>4
  <2>5. PICK k : k = [old EXCEPT ![i].id = named]
    OBVIOUS
  <2>6. k = [old EXCEPT ![i] = c]
    BY <1>7, <2>2, <2>5
  <2>7. [k EXCEPT ![i].buf = Append(@, n)] = [k EXCEPT ![i] = e]
    <3>1. k[i] = c
      BY <1>6, <2>6
    <3> QED BY <2>4, <3>1
  <2>8. [k EXCEPT ![i] = e] = [old EXCEPT ![i] = e]
    BY <2>6
  <2>9. after = [k EXCEPT ![i].buf = Append(@, n)]
    BY <1>11, <2>5
  <2> QED BY <2>7, <2>8, <2>9, Zenon
<1>13. PICK wires : wires = IF i > l THEN Append(w, x) ELSE w
  OBVIOUS
<1>z. PICK wi : wi = toolCallIndex(kind, x)
  OBVIOUS
<1>0. wi \in Int
  BY <1>z DEF toolCallIndex
<1>14. PICK more : more = p \o (IF i > l THEN <<Start(i, kind)>> ELSE <<>>)
                            \o <<Delta(i, kind, n, named, wi)>>
  OBVIOUS
<1>15. Write(s, i, kind, x, n, id)
         = [tr |-> [s.tr EXCEPT !.blocks = after, !.wires = wires], out |-> more]
  BY <1>1, <1>3, <1>5, <1>7, <1>11, <1>13, <1>14, <1>z DEF Write
<1>16. PICK r : r = Write(s, i, kind, x, n, id)
  OBVIOUS
<1>17. r.tr.blocks = after /\ r.tr.wires = wires /\ r.out = more
  <2>1. PICK tr : tr = [s.tr EXCEPT !.blocks = after, !.wires = wires]
    OBVIOUS
  <2>2. tr.blocks = after /\ tr.wires = wires
    BY <1>2, <2>1 DEF Translations
  <2>3. r = [tr |-> tr, out |-> more]
    BY <1>15, <1>16, <2>1
  <2> QED BY <2>2, <2>3
<1>18. CASE ~(i > l)
  <2>1. i <= l /\ b = m[i] /\ after = [m EXCEPT ![i] = e] /\ wires = w
    BY <1>2, <1>5, <1>6, <1>7, <1>12, <1>13, <1>18
  <2>2. more = Append(p, Delta(i, kind, n, named, wi))
    <3>1. more = p \o <<>> \o <<Delta(i, kind, n, named, wi)>>
      BY <1>14, <1>18
    <3> QED BY <1>2, <3>1
  <2>3. i \in 1..l /\ DOMAIN m = 1..l
    BY <1>2, <1>18
  <2>4. DOMAIN after = DOMAIN m /\ after[i] = e /\ \A j \in DOMAIN m : j # i => after[j] = m[j]
    BY ONLY <1>2, <1>10, <2>1, <2>3
  <2>5. e = Block(m[i].kind, acceptIdentity(m[i].id, id), Append(m[i].buf, n))
    BY <1>7, <1>9, <2>1
  <2>6. r.tr.blocks = after /\ r.tr.wires = w /\ r.out = Append(p, Delta(i, kind, n, after[i].id, wi))
    BY <1>10, <1>17, <2>1, <2>2, <2>4
  <2>7. ~(i > Len(m))
    BY <1>1, <1>18
  <2> QED BY ONLY <1>1, <1>16, <1>z, <2>4, <2>5, <2>6, <2>7, Zenon DEF Wrote
<1>19. CASE i > l
  <2>1. i = l + 1 /\ b = empty /\ old = Append(m, empty) /\ wires = Append(w, x)
    BY <1>2, <1>5, <1>6, <1>7, <1>13, <1>19
  <2>2. after = Append(m, e)
    <3>1. PICK o, z : o = Append(m, z) /\ z = empty
      OBVIOUS
    <3>2. [o EXCEPT ![l + 1] = e] = Append(m, e)
      <4>1. PICK a, c : a = [o EXCEPT ![l + 1] = e] /\ c = Append(m, e)
        OBVIOUS
      <4>2. o \in Seq(BlockType) /\ Len(o) = l + 1 /\ \A j \in 1..l : o[j] = m[j]
        BY ONLY <1>2, <1>4, <3>1
      <4>3. /\ a \in Seq(BlockType) /\ Len(a) = l + 1 /\ a[l + 1] = e
            /\ \A j \in 1..l : a[j] = m[j]
        BY <1>2, <1>10, <4>1, <4>2
      <4>4. /\ c \in Seq(BlockType) /\ Len(c) = l + 1 /\ c[l + 1] = e
            /\ \A j \in 1..l : c[j] = m[j]
        BY <1>2, <1>10, <4>1
      <4>5. \A j \in 1..(l + 1) : a[j] = c[j]
        BY <1>2, <4>3, <4>4
      <4>6. a = c
        BY <4>3, <4>4, <4>5
      <4> QED BY <4>1, <4>6
    <3> QED BY <1>12, <2>1, <3>1, <3>2
  <2>3. e = Block(kind, id, <<n>>)
    <3>1. b.id = "" /\ b.buf = <<>> /\ b.kind = kind
      BY <1>3, <2>1 DEF Block
    <3>2. named = id
      BY <1>7, <3>1 DEF acceptIdentity
    <3>3. Append(<<>>, n) = <<n>>
      OBVIOUS
    <3>4. Append(b.buf, n) = <<n>>
      BY <3>1, <3>3
    <3> QED BY <1>9, <3>1, <3>2, <3>4
  <2>4. more = Append(Append(p, Start(i, kind)), Delta(i, kind, n, named, wi))
    <3>1. more = p \o <<Start(i, kind)>> \o <<Delta(i, kind, n, named, wi)>>
      BY <1>14, <1>19
    <3>2. Start(i, kind) \in Content /\ Delta(i, kind, n, named, wi) \in Content
      BY <1>0, <1>2, <1>8, ChunkTypes DEF Content
    <3> QED BY <1>2, <3>1, <3>2
  <2>5. ~(i <= l)
    BY <1>2, <1>19
  <2>6. named = id
    <3>1. b.id = ""
      BY <1>3, <2>1 DEF Block
    <3> QED BY <1>7, <3>1 DEF acceptIdentity
  <2>7. /\ r.tr.blocks = Append(m, Block(kind, id, <<n>>)) /\ r.tr.wires = Append(w, x)
        /\ r.out = Append(Append(p, Start(i, kind)), Delta(i, kind, n, id, wi))
    BY <1>17, <2>1, <2>2, <2>3, <2>4, <2>6, Zenon
  <2>8. ~(i <= Len(m))
    BY <1>1, <2>5
  <2> QED BY ONLY <1>1, <1>16, <1>z, <2>7, <2>8, Zenon DEF Wrote
<1> QED BY <1>18, <1>19

LEMMA SentAsGrows ==
  ASSUME NEW s \in Seq(Pieces), NEW d \in Pieces, NEW kind
  PROVE  /\ SentAs(s, kind) \in Seq(Nat)
         /\ SentAs(Append(s, d), kind) = SentAs(s, kind) \o (IF d.kind = kind THEN <<d.piece>> ELSE <<>>)
BY SentGrows

LEMMA SentToGrows ==
  ASSUME NEW s \in Seq(Pieces), NEW d \in Pieces, NEW x
  PROVE  /\ SentTo(s, x) \in Seq(Nat) /\ SentIds(s, x) \in Seq(Ids)
         /\ SentTo(Append(s, d), x) = SentTo(s, x) \o (IF d.index = x THEN <<d.piece>> ELSE <<>>)
         /\ SentIds(Append(s, d), x)
              = SentIds(s, x) \o (IF d.index = x /\ d.id # "" THEN <<d.id>> ELSE <<>>)
BY SentGrows

LEMMA BehindBoth ==
  ASSUME NEW x \in Seq(Nat), NEW u \in Seq(Nat), NEW n \in Nat
  PROVE  x \o Append(u, n) = (x \o u) \o <<n>>
OBVIOUS

LEMMA NothingBehind ==
  ASSUME NEW S, NEW x \in Seq(S)
  PROVE  x \o <<>> = x
OBVIOUS

\* Blocks that differ in a call say the same text.
LEMMA SameText ==
  ASSUME NEW m \in Seq(BlockType), NEW t \in Seq(BlockType), DOMAIN t = DOMAIN m, NEW i \in DOMAIN m,
         \A j \in DOMAIN m : j # i => t[j] = m[j], NEW kind, m[i].kind # kind, t[i].kind # kind
  PROVE  TextOf(t, kind) = TextOf(m, kind)
<1>1. [j \in DOMAIN t |-> IF t[j].kind = kind THEN t[j].buf ELSE <<>>]
      = [j \in DOMAIN m |-> IF m[j].kind = kind THEN m[j].buf ELSE <<>>]
  OBVIOUS
<1> QED BY <1>1, Zenon DEF TextOf

\* The last block of a text gets one piece more.
LEMMA LastTextGrows ==
  ASSUME NEW m \in Seq(BlockType), m # <<>>, NEW t \in Seq(BlockType), DOMAIN t = DOMAIN m,
         \A j \in DOMAIN m : j # Len(m) => t[j] = m[j],
         NEW n \in Nat, t[Len(m)].kind = m[Len(m)].kind,
         t[Len(m)].buf = Append(m[Len(m)].buf, n), NEW kind
  PROVE  TextOf(t, kind) = TextOf(m, kind) \o IF m[Len(m)].kind = kind THEN <<n>> ELSE <<>>
<1>1. PICK l, front, b, e : l = Len(m) /\ front = SubSeq(m, 1, l - 1) /\ b = m[l] /\ e = t[l]
  OBVIOUS
<1>0. l \in Nat /\ l >= 1 /\ e \in BlockType
  BY <1>1
<1>2. l \in Nat /\ l >= 1 /\ front \in Seq(BlockType) /\ b \in BlockType /\ Len(front) = l - 1
  BY <1>1
<1>3. m = Append(front, b)
  BY <1>1, <1>2
<1>4. t = Append(front, e)
  <2>1. PICK c : c = Append(front, e)
    OBVIOUS
  <2>2. Len(t) = l /\ \A j \in 1..l : t[j] = IF j = l THEN e ELSE m[j]
    BY <1>0, <1>1
  <2>3. c \in Seq(BlockType) /\ Len(c) = l /\ \A j \in 1..l : c[j] = IF j = l THEN e ELSE m[j]
    BY <1>0, <1>1, <1>2, <2>1
  <2>4. t = c
    BY <2>2, <2>3
  <2> QED BY <2>1, <2>4
<1>5. PICK x, y, z : /\ x = TextOf(front, kind) /\ y = TextOf(m, kind)
                     /\ z = TextOf(t, kind)
  OBVIOUS
<1>6. /\ x \in Seq(Nat) /\ y = x \o (IF b.kind = kind THEN b.buf ELSE <<>>)
      /\ z = x \o (IF e.kind = kind THEN e.buf ELSE <<>>)
  <2>1. /\ TextOf(front, kind) \in Seq(Nat)
        /\ TextOf(Append(front, b), kind) = TextOf(front, kind) \o IF b.kind = kind THEN b.buf ELSE <<>>
        /\ TextOf(Append(front, e), kind) = TextOf(front, kind) \o IF e.kind = kind THEN e.buf ELSE <<>>
    BY <1>0, <1>2, TextGrows
  <2>2. y = TextOf(Append(front, b), kind) /\ z = TextOf(Append(front, e), kind)
    BY <1>3, <1>4, <1>5, Zenon
  <2> QED BY <1>5, <2>1, <2>2
<1>7. PICK u, v : u = b.buf /\ v = e.buf
  OBVIOUS
<1>8. u \in Seq(Nat) /\ v = Append(u, n) /\ e.kind = b.kind
  BY <1>0, <1>1, <1>2, <1>7 DEF BlockType
<1>9. z = y \o IF e.kind = kind THEN <<n>> ELSE <<>>
  <2>1. CASE e.kind = kind
    <3>1. y = x \o u /\ z = x \o Append(u, n)
      BY <1>6, <1>7, <1>8, <2>1
    <3>2. x \in Seq(Nat)
      BY <1>6
    <3>3. x \o Append(u, n) = (x \o u) \o <<n>>
      BY <1>8, <3>2, BehindBoth
    <3>4. z = y \o <<n>>
      BY <3>1, <3>3
    <3> QED BY <2>1, <3>4
  <2>2. CASE e.kind # kind
    <3>1. y = x \o <<>> /\ z = x \o <<>>
      BY <1>6, <1>7, <1>8, <2>2
    <3>2. x \in Seq(Nat)
      BY <1>6
    <3>3. (x \o <<>>) \o <<>> = x \o <<>>
      BY <3>2
    <3>4. z = y \o <<>>
      BY <3>1, <3>3
    <3> QED BY <2>2, <3>4
  <2> QED BY <2>1, <2>2
<1> QED BY <1>1, <1>5, <1>8, <1>9

LEMMA AppendedTo ==
  ASSUME NEW u \in Seq(Nat), u # <<>>, NEW n \in Nat
  PROVE  /\ Append(u, n) # <<>> /\ Append(u, n)[1] = u[1]
         /\ \A l \in DOMAIN Append(u, n) : Append(u, n)[l] = n \/ (l \in DOMAIN u /\ Append(u, n)[l] = u[l])
<1>1. PICK v, k : v = Append(u, n) /\ k = Len(u)
  OBVIOUS
<1>2. k \in Nat /\ k >= 1 /\ DOMAIN u = 1..k /\ DOMAIN v = 1..(k + 1) /\ v[k + 1] = n /\ v # <<>>
      /\ \A l \in 1..k : v[l] = u[l]
  BY <1>1
<1>3. \A l \in 1..(k + 1) : l = k + 1 \/ l \in 1..k
  BY <1>2
<1> QED BY <1>1, <1>2, <1>3

\* A piece that goes on in its block.
LEMMA GoesOn ==
  ASSUME NEW tr, TransOK(tr), NEW t, NEW D \in Seq(Pieces), NEW d \in Pieces, NEW n0 \in Nat,
         Written(tr, D, n0), n0 <= d.piece, NEW i \in DOMAIN tr.blocks, t.blocks \in Seq(BlockType),
         DOMAIN t.blocks = DOMAIN tr.blocks,
         t.blocks[i] = Block(tr.blocks[i].kind, acceptIdentity(tr.blocks[i].id, d.id),
                             Append(tr.blocks[i].buf, d.piece)),
         \A j \in DOMAIN tr.blocks : j # i => t.blocks[j] = tr.blocks[j], t.wires = tr.wires,
         tr.blocks[i].kind = d.kind,
         IF d.kind = "tool-call" THEN tr.wires[i] = d.index ELSE i = Len(tr.blocks)
  PROVE  Written(t, Append(D, d), d.piece)
<1>1. PICK m, w, k, x, n, after, E, b, e :
        /\ m = tr.blocks /\ w = tr.wires /\ k = d.kind /\ x = d.index /\ n = d.piece
        /\ after = t.blocks /\ E = Append(D, d) /\ b = m[i]
        /\ e = after[i]
  OBVIOUS
<1>2. /\ m \in Seq(BlockType) /\ w \in Seq(Int) /\ Len(w) = Len(m) /\ DOMAIN w = DOMAIN m
      /\ n \in Nat /\ b \in BlockType /\ b.buf \in Seq(Nat)
  <2>1. m \in Seq(BlockType) /\ w \in Seq(Int) /\ Len(w) = Len(m)
    BY <1>1 DEF TransOK, Translations
  <2>2. n \in Nat
    BY <1>1, PieceTypes
  <2>3. DOMAIN w = DOMAIN m /\ b \in BlockType
    BY <1>1, <2>1
  <2>4. b.buf \in Seq(Nat)
    BY <2>3 DEF BlockType
  <2> QED BY <2>1, <2>2, <2>3, <2>4
<1>3. DOMAIN after = DOMAIN m /\ \A j \in DOMAIN m : after[j] = IF j = i THEN e ELSE m[j]
  BY <1>1, <1>2
<1>0. after \in Seq(BlockType)
  BY <1>1, <1>2
<1>4. e.kind = k /\ e.buf = Append(b.buf, n) /\ b.kind = k
  BY <1>1 DEF Block
<1>5. CallsWritten(tr, D) /\ TextWritten(tr, D) /\ InOrder(tr, n0)
  BY DEF Written
<1>6. CallIndexes(D) \subseteq Nat /\ CallIndexes(E) = CallIndexes(D) \cup ({x} \ {-1})
  BY <1>1, IndexesGrow
<1>7. IF k = "tool-call" THEN x \in Nat /\ w[i] = x ELSE x = -1 /\ i = Len(m)
  BY <1>1, PieceTypes
<1>8. \A y \in Nat : y # x => SentCall(E, y) = SentCall(D, y)
  BY <1>1, CallGrows
<1>9. \A j \in DOMAIN m : /\ m[j].kind = "tool-call" => w[j] \in Nat /\ m[j] = SentCall(D, w[j])
                                                        /\ w[j] \in CallIndexes(D)
                          /\ m[j].kind # "tool-call" => w[j] = -1
  BY <1>1, <1>5, <1>6 DEF CallsWritten
<1>10. \A j, l \in DOMAIN m : m[j].kind = "tool-call" /\ w[j] = w[l] => j = l
  BY <1>1, <1>5 DEF CallsWritten
<1>11. CallsWritten(t, E)
  <2>1. ASSUME NEW j \in DOMAIN after
        PROVE  IF after[j].kind = "tool-call"
               THEN w[j] \in CallIndexes(E) /\ after[j] = SentCall(E, w[j])
               ELSE w[j] = -1
    <3>1. CASE j # i
      <4>1. after[j] = m[j] /\ j \in DOMAIN m
        BY <1>3, <3>1
      <4>2. m[j].kind = "tool-call" => w[j] # x
        <5>1. CASE k = "tool-call"
          <6>1. i \in DOMAIN m /\ m[i].kind = "tool-call" /\ w[i] = x
            BY <1>1, <1>4, <1>7, <5>1
          <6> QED BY <1>10, <3>1, <4>1, <6>1
        <5>2. CASE k # "tool-call"
          <6>1. x = -1
            BY <1>7, <5>2
          <6>2. \A z \in Nat : z # -1
            OBVIOUS
          <6> QED BY <1>9, <4>1, <6>1, <6>2
        <5> QED BY <5>1, <5>2
      <4> QED BY <1>6, <1>8, <1>9, <4>1, <4>2
    <3>2. CASE j = i /\ k = "tool-call"
      <4>1. w[i] = x /\ x \in Nat /\ x \in CallIndexes(D) /\ b = SentCall(D, x) /\ after[j] = e
        BY <1>1, <1>3, <1>4, <1>7, <1>9, <3>2
      <4>2. e = SentCall(E, x)
        <5>1. SentCall(E, x) = Block("tool-call", acceptIdentity(b.id, d.id), Append(b.buf, n))
          BY <1>1, <4>1, CallGrows
        <5>2. e = Block("tool-call", acceptIdentity(b.id, d.id), Append(b.buf, n))
          BY <1>1, <3>2
        <5> QED BY <5>1, <5>2
      <4> QED BY <1>4, <1>6, <3>2, <4>1, <4>2
    <3>3. CASE j = i /\ k # "tool-call"
      BY <1>1, <1>3, <1>4, <1>9, <3>3
    <3> QED BY <3>1, <3>2, <3>3
  <2>2. \A j \in DOMAIN m : after[j].kind = m[j].kind
    BY <1>1, <1>3, <1>4
  <2>3. \A j, l \in DOMAIN after : after[j].kind = "tool-call" /\ w[j] = w[l] => j = l
    BY <1>3, <1>10, <2>2
  <2>4. CallIndexes(E) \subseteq Range(w)
    <3>1. x # -1 => x \in Range(w)
      <4>1. i \in DOMAIN w
        BY <1>1, <1>2
      <4> QED BY <1>7, <4>1 DEF Range
    <3>2. CallIndexes(D) \subseteq Range(w)
      BY <1>1, <1>5 DEF CallsWritten
    <3> QED BY <1>6, <3>1, <3>2
  <2>5. ASSUME NEW y \in Nat \ Range(w) PROVE SentTo(E, y) = <<>> /\ SentIds(E, y) = <<>>
    <3>1. y # x
      <4>1. i \in DOMAIN w /\ y \in Nat /\ y # -1
        BY <1>1, <1>2
      <4> QED BY <1>7, <4>1 DEF Range
    <3>2. SentTo(D, y) = <<>> /\ SentIds(D, y) = <<>>
      BY <1>1, <1>5 DEF CallsWritten
    <3>3. SentTo(E, y) = SentTo(D, y) \o <<>> /\ SentIds(E, y) = SentIds(D, y) \o <<>>
      <4>1. /\ SentTo(E, y) = SentTo(D, y) \o (IF x = y THEN <<d.piece>> ELSE <<>>)
            /\ SentIds(E, y) = SentIds(D, y) \o (IF x = y /\ d.id # "" THEN <<d.id>> ELSE <<>>)
        <5>1. /\ SentTo(Append(D, d), y) = SentTo(D, y) \o (IF d.index = y THEN <<d.piece>> ELSE <<>>)
              /\ SentIds(Append(D, d), y)
                   = SentIds(D, y) \o (IF d.index = y /\ d.id # "" THEN <<d.id>> ELSE <<>>)
          BY SentToGrows, ZenonT(40)
        <5> QED BY <1>1, <5>1, Zenon
      <4> QED BY <3>1, <4>1
    <3>4. SentTo(E, y) = <<>> \o <<>> /\ SentIds(E, y) = <<>> \o <<>>
      BY <3>2, <3>3
    <3> QED BY <3>4
  <2> QED BY <1>1, <2>1, <2>3, <2>4, <2>5 DEF CallsWritten
<1>12. TextWritten(t, E)
  <2>1. SUFFICES ASSUME NEW kind \in {"text", "reasoning"}
                 PROVE  TextOf(after, kind) = SentAs(E, kind)
    BY <1>1 DEF TextWritten
  <2>2. TextOf(m, kind) = SentAs(D, kind)
    BY <1>1, <1>5 DEF TextWritten
  <2>3. SentAs(E, kind) = SentAs(D, kind) \o (IF k = kind THEN <<n>> ELSE <<>>) /\ SentAs(D, kind) \in Seq(Nat)
    BY <1>1, SentAsGrows
  <2>4. TextOf(after, kind) = TextOf(m, kind) \o (IF k = kind THEN <<n>> ELSE <<>>)
    <3>1. CASE k = "tool-call"
      <4>1. TextOf(after, kind) = TextOf(m, kind)
        <5>1. i \in DOMAIN m /\ \A j \in DOMAIN m : j # i => after[j] = m[j]
          BY <1>1, <1>3
        <5>2. m[i].kind # kind /\ after[i].kind # kind
          BY <1>1, <1>3, <1>4, <3>1, <5>1
        <5>3. m \in Seq(BlockType) /\ DOMAIN after = DOMAIN m
          BY <1>2, <1>3
        <5> QED BY ONLY <1>0, <5>1, <5>2, <5>3, SameText, Zenon
      <4>2. TextOf(m, kind) = TextOf(m, kind) \o <<>>
        BY <2>2, <2>3
      <4> QED BY <3>1, <4>1, <4>2
    <3>2. CASE k # "tool-call"
      <4>1. i = Len(m) /\ m # <<>>
        BY <1>1, <1>2, <1>7, <3>2
      <4>2. i \in DOMAIN m /\ after[i] = e /\ \A j \in DOMAIN m : j # Len(m) => after[j] = m[j]
        BY <1>1, <1>3, <4>1
      <4>3. m[Len(m)].kind = k /\ after[Len(m)].kind = k /\ after[Len(m)].buf = Append(m[Len(m)].buf, n)
        BY <1>1, <1>4, <4>1, <4>2
      <4>4. TextOf(after, kind) = TextOf(m, kind) \o IF m[Len(m)].kind = kind THEN <<n>> ELSE <<>>
        <5>1. /\ m \in Seq(BlockType) /\ m # <<>> /\ DOMAIN after = DOMAIN m /\ n \in Nat
              /\ after[Len(m)].kind = m[Len(m)].kind
          BY <1>2, <1>3, <4>1, <4>3
        <5> QED BY ONLY <1>0, <4>2, <4>3, <5>1, LastTextGrows, ZenonT(40)
      <4> QED BY <4>3, <4>4
    <3> QED BY <3>1, <3>2
  <2> QED BY <2>2, <2>3, <2>4
<1>13. InOrder(t, n)
  <2>1. \A j \in DOMAIN m : /\ m[j].buf # <<>> /\ \A l \in DOMAIN m[j].buf : m[j].buf[l] <= n0
    BY <1>1, <1>5 DEF InOrder
  <2>2. n0 <= n
    BY <1>1
  <2>3. /\ e.buf # <<>> /\ e.buf[1] = b.buf[1]
        /\ \A l \in DOMAIN e.buf : e.buf[l] <= n
    <3>1. PICK u, v : u = b.buf /\ v = e.buf
      OBVIOUS
    <3>2. u \in Seq(Nat) /\ v = Append(u, n) /\ u # <<>> /\ \A l \in DOMAIN u : u[l] <= n0
      <4>1. i \in DOMAIN m /\ m[i].buf = u
        BY <1>1, <3>1
      <4>2. u # <<>> /\ \A l \in DOMAIN u : u[l] <= n0
        BY <2>1, <4>1
      <4> QED BY <1>2, <1>4, <3>1, <4>2
    <3>3. v # <<>> /\ v[1] = u[1] /\ \A l \in DOMAIN v : v[l] = n \/ (l \in DOMAIN u /\ v[l] = u[l])
      <4>1. u \in Seq(Nat) /\ u # <<>> /\ n \in Nat /\ v = Append(u, n)
        BY <1>2, <3>2
      <4>2. /\ Append(u, n) # <<>> /\ Append(u, n)[1] = u[1]
            /\ \A l \in DOMAIN Append(u, n) :
                 Append(u, n)[l] = n \/ (l \in DOMAIN u /\ Append(u, n)[l] = u[l])
        BY ONLY <4>1, AppendedTo
      <4> QED BY <4>1, <4>2, Zenon
    <3>4. ASSUME NEW l \in DOMAIN v PROVE v[l] <= n
      <4>1. CASE v[l] = n
        BY <1>2, <4>1
      <4>2. CASE l \in DOMAIN u /\ v[l] = u[l]
        <5>1. u[l] \in Nat /\ u[l] <= n0
          BY <3>2, <4>2
        <5> QED BY <1>2, <2>2, <4>2, <5>1
      <4> QED BY <3>3, <4>1, <4>2
    <3> QED BY <3>1, <3>3, <3>4
  <2>4. ASSUME NEW j \in DOMAIN after
        PROVE  after[j].buf # <<>> /\ \A l \in DOMAIN after[j].buf : after[j].buf[l] <= n
    <3>1. CASE j = i
      BY <1>3, <2>3, <3>1
    <3>2. CASE j # i
      <4>1. after[j] = m[j] /\ j \in DOMAIN m
        BY <1>3, <3>2
      <4>2. m[j].buf \in Seq(Nat)
        <5>1. m[j] \in BlockType
          BY <1>2, <4>1
        <5> QED BY <5>1 DEF BlockType
      <4>3. \A l \in DOMAIN m[j].buf : m[j].buf[l] \in Nat
        BY <4>2
      <4>4. \A y \in Nat : y <= n0 => y <= n
        BY <1>2, <2>2
      <4> QED BY <2>1, <4>1, <4>3, <4>4
    <3> QED BY <3>1, <3>2
  <2>5. \A j \in DOMAIN m : after[j].buf[1] = m[j].buf[1]
    BY <1>1, <1>3, <2>3
  <2>6. \A j, l \in DOMAIN m : j < l => m[j].buf[1] <= m[l].buf[1]
    BY <1>1, <1>5 DEF InOrder
  <2>7. \A j, l \in DOMAIN after : j < l => after[j].buf[1] <= after[l].buf[1]
    BY <1>3, <2>5, <2>6
  <2> QED BY <1>1, <2>4, <2>7 DEF InOrder
<1> QED BY <1>1, <1>11, <1>12, <1>13 DEF Written

\* A piece that opens a block.
LEMMA OpensNew ==
  ASSUME NEW tr, TransOK(tr), NEW t, NEW D \in Seq(Pieces), NEW d \in Pieces, NEW n0 \in Nat,
         Written(tr, D, n0), n0 <= d.piece, NEW e \in BlockType,
         e = Block(d.kind, d.id, <<d.piece>>),
         t.blocks = Append(tr.blocks, e), t.wires = Append(tr.wires, d.index),
         d.kind = "tool-call" => d.index \notin Range(tr.wires)
  PROVE  Written(t, Append(D, d), d.piece)
<1>1. PICK m, w, k, x, n, after, wires, E, q :
        /\ m = tr.blocks /\ w = tr.wires /\ k = d.kind /\ x = d.index /\ n = d.piece
        /\ after = t.blocks /\ wires = t.wires /\ E = Append(D, d) /\ q = Len(m)
  OBVIOUS
<1>2. /\ m \in Seq(BlockType) /\ w \in Seq(Int) /\ q \in Nat /\ DOMAIN w = 1..q /\ DOMAIN m = 1..q
      /\ n \in Nat /\ x \in Int
  <2>1. m \in Seq(BlockType) /\ w \in Seq(Int) /\ Len(w) = Len(m)
    BY <1>1 DEF TransOK, Translations
  <2>2. n \in Nat /\ x \in Int
    BY <1>1, PieceTypes
  <2> QED BY <1>1, <2>1, <2>2
<1>3. /\ DOMAIN after = 1..(q + 1) /\ after[q + 1] = e /\ \A j \in 1..q : after[j] = m[j]
      /\ after = Append(m, e)
  BY <1>1, <1>2
<1>4. DOMAIN wires = 1..(q + 1) /\ wires[q + 1] = x /\ \A j \in 1..q : wires[j] = w[j]
  <2>1. wires = Append(w, x) /\ Len(w) = q
    BY <1>1, <1>2
  <2> QED BY <1>2, <2>1
<1>5. \A j \in 1..(q + 1) : j = q + 1 \/ j \in 1..q
  BY <1>2
<1>6. e.kind = k /\ e.buf = <<n>> /\ e.id = d.id
  BY <1>1 DEF Block
<1>7. CallsWritten(tr, D) /\ TextWritten(tr, D) /\ InOrder(tr, n0)
  BY DEF Written
<1>8. CallIndexes(D) \subseteq Nat /\ CallIndexes(E) = CallIndexes(D) \cup ({x} \ {-1})
  BY <1>1, IndexesGrow
<1>9. IF k = "tool-call" THEN x \in Nat /\ x \notin Range(w) ELSE x = -1
  BY <1>1, PieceTypes
<1>10. \A y \in Nat : y # x => SentCall(E, y) = SentCall(D, y)
  BY <1>1, CallGrows
<1>11. \A j \in 1..q : /\ m[j].kind = "tool-call" => w[j] \in Nat /\ m[j] = SentCall(D, w[j])
                                                       /\ w[j] \in CallIndexes(D)
                       /\ m[j].kind # "tool-call" => w[j] = -1
                       /\ m[j].kind = "tool-call" => w[j] # x
                       /\ k = "tool-call" => w[j] # x
  <2>1. \A j \in 1..q : /\ m[j].kind = "tool-call" => w[j] \in Nat /\ m[j] = SentCall(D, w[j])
                                                       /\ w[j] \in CallIndexes(D)
                        /\ m[j].kind # "tool-call" => w[j] = -1
    BY <1>1, <1>2, <1>7, <1>8 DEF CallsWritten
  <2>2. \A j \in 1..q : k = "tool-call" => w[j] # x
    BY <1>2, <1>9 DEF Range
  <2>3. \A y \in Nat : y # -1
    OBVIOUS
  <2> QED BY <1>9, <2>1, <2>2, <2>3
<1>12. \A j, l \in 1..q : m[j].kind = "tool-call" /\ w[j] = w[l] => j = l
  BY <1>1, <1>2, <1>7 DEF CallsWritten
<1>13. CallsWritten(t, E)
  <2>1. ASSUME NEW j \in DOMAIN after
        PROVE  IF after[j].kind = "tool-call"
               THEN wires[j] \in CallIndexes(E) /\ after[j] = SentCall(E, wires[j])
               ELSE wires[j] = -1
    <3>1. CASE j \in 1..q
      BY <1>3, <1>4, <1>8, <1>10, <1>11, <3>1
    <3>2. CASE j = q + 1 /\ k = "tool-call"
      <4>1. wires[j] = x /\ after[j] = e /\ x \in Nat /\ x \notin Range(w)
        BY <1>3, <1>4, <1>9, <3>2
      <4>2. SentTo(D, x) = <<>> /\ SentIds(D, x) = <<>>
        BY <1>1, <1>7, <4>1 DEF CallsWritten
      <4>3. SentCall(D, x) = Block("tool-call", "", <<>>)
        BY <4>2 DEF SentCall
      <4>4. SentCall(D, x).id = "" /\ SentCall(D, x).buf = <<>>
        <5>1. PICK b, nil, tool : b = <<>> /\ nil = "" /\ tool = "tool-call"
          OBVIOUS
        <5>2. SentCall(D, x) = Block(tool, nil, b)
          BY <4>3, <5>1, Zenon
        <5>3. SentCall(D, x).id = nil /\ SentCall(D, x).buf = b
          BY ONLY <5>2 DEF Block
        <5> QED BY <5>1, <5>3, Zenon
      <4>5. SentCall(E, x) = Block("tool-call", acceptIdentity(SentCall(D, x).id, d.id),
                                   Append(SentCall(D, x).buf, n))
        BY <1>1, CallGrows
      <4>6. SentCall(E, x) = Block("tool-call", d.id, Append(<<>>, n))
        BY <4>4, <4>5 DEF acceptIdentity
      <4>7. Append(<<>>, n) = <<n>>
        OBVIOUS
      <4>8. SentCall(E, x) = e
        BY <1>1, <3>2, <4>6, <4>7
      <4>9. x # -1
        BY <4>1
      <4> QED BY <1>6, <1>8, <3>2, <4>1, <4>8, <4>9
    <3>3. CASE j = q + 1 /\ k # "tool-call"
      BY <1>3, <1>4, <1>6, <1>9, <3>3
    <3> QED BY <1>3, <1>5, <3>1, <3>2, <3>3
  <2>2. ASSUME NEW j \in DOMAIN after, NEW l \in DOMAIN after,
               after[j].kind = "tool-call", wires[j] = wires[l]
        PROVE  j = l
    <3>1. CASE j \in 1..q /\ l \in 1..q
      BY <1>3, <1>4, <1>12, <2>2, <3>1, ZenonT(40)
    <3>2. CASE j \in 1..q /\ l = q + 1
      BY <1>3, <1>4, <1>11, <2>2, <3>2
    <3>3. CASE j = q + 1 /\ l \in 1..q
      BY <1>3, <1>4, <1>6, <1>11, <2>2, <3>3
    <3> QED BY <1>3, <1>5, <3>1, <3>2, <3>3
  <2>3. \A y : y \in Range(wires) <=> y \in Range(w) \/ y = x
    <3>1. ASSUME NEW y \in Range(wires) PROVE y \in Range(w) \/ y = x
      BY <1>2, <1>4, <1>5 DEF Range
    <3>2. ASSUME NEW y \in Range(w) PROVE y \in Range(wires)
      <4>1. \A j \in 1..q : j \in 1..(q + 1)
        BY <1>2
      <4> QED BY <1>2, <1>4, <4>1 DEF Range
    <3>3. x \in Range(wires)
      <4>1. q + 1 \in DOMAIN wires
        BY <1>2, <1>4
      <4> QED BY <1>4, <4>1 DEF Range
    <3> QED BY <3>1, <3>2, <3>3
  <2>4. CallIndexes(E) \subseteq Range(wires)
    <3>1. CallIndexes(D) \subseteq Range(w)
      BY <1>1, <1>7 DEF CallsWritten
    <3> QED BY <1>8, <2>3, <3>1
  <2>5. ASSUME NEW y \in Nat \ Range(wires) PROVE SentTo(E, y) = <<>> /\ SentIds(E, y) = <<>>
    <3>1. y # x /\ y \in Nat \ Range(w)
      BY <2>3
    <3>2. SentTo(D, y) = <<>> /\ SentIds(D, y) = <<>>
      BY <1>1, <1>7, <3>1 DEF CallsWritten
    <3>3. SentTo(E, y) = SentTo(D, y) \o <<>> /\ SentIds(E, y) = SentIds(D, y) \o <<>>
      <4>1. /\ SentTo(E, y) = SentTo(D, y) \o (IF x = y THEN <<d.piece>> ELSE <<>>)
            /\ SentIds(E, y) = SentIds(D, y) \o (IF x = y /\ d.id # "" THEN <<d.id>> ELSE <<>>)
        <5>1. /\ SentTo(Append(D, d), y) = SentTo(D, y) \o (IF d.index = y THEN <<d.piece>> ELSE <<>>)
              /\ SentIds(Append(D, d), y)
                   = SentIds(D, y) \o (IF d.index = y /\ d.id # "" THEN <<d.id>> ELSE <<>>)
          BY SentToGrows
        <5> QED BY <1>1, <5>1, Zenon
      <4> QED BY <3>1, <4>1
    <3>4. SentTo(E, y) = <<>> \o <<>> /\ SentIds(E, y) = <<>> \o <<>>
      BY <3>2, <3>3
    <3> QED BY <3>4
  <2> QED BY <1>1, <2>1, <2>2, <2>4, <2>5 DEF CallsWritten
<1>14. TextWritten(t, E)
  <2>1. SUFFICES ASSUME NEW kind \in {"text", "reasoning"}
                 PROVE  TextOf(after, kind) = SentAs(E, kind)
    BY <1>1 DEF TextWritten
  <2>2. TextOf(m, kind) = SentAs(D, kind)
    BY <1>1, <1>7 DEF TextWritten
  <2>3. SentAs(E, kind) = SentAs(D, kind) \o (IF k = kind THEN <<n>> ELSE <<>>)
    BY <1>1, SentAsGrows
  <2>4. TextOf(Append(m, e), kind) = TextOf(m, kind) \o (IF e.kind = kind THEN e.buf ELSE <<>>)
    BY <1>2, TextGrows
  <2> QED BY <1>3, <1>6, <2>2, <2>3, <2>4
<1>15. InOrder(t, n)
  <2>1. \A j \in 1..q : /\ m[j].buf # <<>> /\ m[j].buf \in Seq(Nat)
                        /\ \A l \in DOMAIN m[j].buf : m[j].buf[l] <= n0
    <3>1. \A j \in 1..q : m[j] \in BlockType
      BY <1>2
    <3>2. \A j \in 1..q : m[j].buf \in Seq(Nat)
      BY <3>1 DEF BlockType
    <3> QED BY <1>1, <1>2, <1>7, <3>2 DEF InOrder
  <2>2. n0 <= n
    BY <1>1
  <2>3. \A j \in 1..q : /\ \A l \in DOMAIN m[j].buf : m[j].buf[l] \in Nat /\ m[j].buf[l] <= n
                        /\ m[j].buf[1] <= n
    <3>1. ASSUME NEW j \in 1..q, NEW l \in DOMAIN m[j].buf PROVE m[j].buf[l] \in Nat /\ m[j].buf[l] <= n
      <4>1. m[j].buf[l] \in Nat /\ m[j].buf[l] <= n0
        BY <2>1
      <4> QED BY <1>2, <2>2, <4>1
    <3>2. ASSUME NEW j \in 1..q PROVE 1 \in DOMAIN m[j].buf
      <4>1. PICK u : u = m[j].buf
        OBVIOUS
      <4>2. u \in Seq(Nat) /\ u # <<>>
        BY <2>1, <4>1
      <4>3. 1 \in DOMAIN u
        BY <4>2
      <4> QED BY <4>1, <4>3
    <3> QED BY <3>1, <3>2
  <2>4. /\ e.buf # <<>> /\ e.buf[1] = n
        /\ \A l \in DOMAIN e.buf : e.buf[l] <= n
    <3>1. PICK v : v = <<n>>
      OBVIOUS
    <3>2. v # <<>> /\ v[1] = n /\ \A l \in DOMAIN v : v[l] <= n
      BY ONLY <1>2, <3>1
    <3> QED BY <1>6, <3>1, <3>2
  <2>5. \A j \in DOMAIN after :
          after[j].buf # <<>> /\ \A l \in DOMAIN after[j].buf : after[j].buf[l] <= n
    BY <1>3, <1>5, <2>1, <2>3, <2>4
  <2>6. \A j, l \in 1..q : j < l => m[j].buf[1] <= m[l].buf[1]
    BY <1>1, <1>2, <1>7 DEF InOrder
  <2>7. ASSUME NEW j \in DOMAIN after, NEW l \in DOMAIN after, j < l
        PROVE  after[j].buf[1] <= after[l].buf[1]
    <3>1. j \in 1..q
      BY <1>2, <1>3, <2>7
    <3>2. CASE l \in 1..q
      BY <1>3, <2>6, <2>7, <3>1, <3>2
    <3>3. CASE l = q + 1
      BY <1>3, <2>3, <2>4, <3>1, <3>3
    <3> QED BY <1>3, <1>5, <3>2, <3>3
  <2> QED BY <1>1, <2>5, <2>7 DEF InOrder
<1> QED BY <1>1, <1>13, <1>14, <1>15 DEF Written

-----------------------------------------------------------------------------
(* The chunks of a translator carry its blocks.                            *)

LEMMA ChunkForBlock ==
  ASSUME NEW C \in Seq(Chunks), NEW c \in Chunks, NEW x
  PROVE  /\ PiecesIn(C, x) \in Seq(Nat)
         /\ PiecesIn(Append(C, c), x)
              = PiecesIn(C, x) \o (IF c.type = "delta" /\ c.index = x THEN <<c.piece>> ELSE <<>>)
         /\ ~(c.type = "delta" /\ c.index = x) => PiecesIn(Append(C, c), x) = PiecesIn(C, x)
<1>1. /\ PiecesIn(C, x) \in Seq(Nat)
      /\ PiecesIn(Append(C, c), x)
              = PiecesIn(C, x) \o (IF c.type = "delta" /\ c.index = x THEN <<c.piece>> ELSE <<>>)
  BY ChunksGrow
<1>2. PiecesIn(C, x) \o <<>> = PiecesIn(C, x)
  BY <1>1, NothingBehind
<1> QED BY <1>1, <1>2

LEMMA DeltaCarried ==
  ASSUME NEW C \in Seq(Chunks), NEW m \in Seq(BlockType), Carries(C, m), NEW i \in DOMAIN m,
         NEW t \in Seq(BlockType), DOMAIN t = DOMAIN m, \A j \in DOMAIN m : j # i => t[j] = m[j],
         t[i].kind = m[i].kind, NEW n \in Nat, t[i].buf = Append(m[i].buf, n),
         NEW c \in Deltas, c.index = i, c.piece = n
  PROVE  Carries(Append(C, c), t)
<1>1. PICK l, E : l = Len(C) /\ E = Append(C, c)
  OBVIOUS
<1>2. /\ l \in Nat /\ DOMAIN C = 1..l /\ DOMAIN E = 1..(l + 1) /\ E[l + 1] = c
      /\ \A k \in 1..l : E[k] = C[k]
      /\ \A k \in 1..(l + 1) : k = l + 1 \/ k \in 1..l
      /\ \A k \in 1..l : \A h \in 1..(k - 1) : h \in 1..l
  BY <1>1
<1>3. c.type = "delta" /\ c \in Chunks
  BY DEF Deltas, Chunks, Content
<1>4. \A j \in DOMAIN m : t[j].kind = m[j].kind
  OBVIOUS
<1>5. Begins(E, t)
  <2>1. ASSUME NEW k \in DOMAIN E, E[k].type = "block-start"
        PROVE  /\ k \in 1..l /\ C[k].type = "block-start"
    BY <1>2, <1>3, <2>1
  <2>2. Begins(C, m)
    BY DEF Carries
  <2> QED BY <1>2, <1>4, <2>1, <2>2 DEF Begins
<1>6. /\ \A k \in DOMAIN E : E[k].type \in {"block-start", "delta"}
      /\ \A k \in DOMAIN E : E[k].index \in DOMAIN t
  BY <1>2, <1>3 DEF Carries
<1>7. ASSUME NEW j \in DOMAIN t PROVE PiecesIn(E, j) = t[j].buf
  <2>1. PiecesIn(C, j) = m[j].buf
    BY <1>7 DEF Carries
  <2>2. CASE j # i
    BY <1>1, <1>3, <2>1, <2>2, ChunkForBlock
  <2>3. CASE j = i
    <3>1. PICK u : u = m[i].buf
      OBVIOUS
    <3>2. u \in Seq(Nat) /\ PiecesIn(E, j) = u \o <<n>>
      BY <1>1, <1>3, <2>1, <2>3, <3>1, ChunkForBlock
    <3>3. u \o <<n>> = Append(u, n)
      BY <3>2
    <3> QED BY <2>3, <3>1, <3>2, <3>3
  <2> QED BY <2>2, <2>3
<1>8. ASSUME NEW j \in Nat \ DOMAIN t PROVE PiecesIn(E, j) = <<>>
  <2>1. PiecesIn(C, j) = <<>> /\ j # i
    BY <1>8 DEF Carries
  <2> QED BY <1>1, <1>3, <2>1, ChunkForBlock
<1> QED BY <1>1, <1>5, <1>6, <1>7, <1>8 DEF Carries

LEMMA StartCarried ==
  ASSUME NEW C \in Seq(Chunks), NEW m \in Seq(BlockType), Carries(C, m), NEW kind \in Kinds,
         NEW b \in BlockType, b.kind = kind, b.buf = <<>>
  PROVE  Carries(Append(C, Start(Len(m) + 1, kind)), Append(m, b))
<1>1. PICK l, q, c, E, t : /\ l = Len(C) /\ q = Len(m) /\ c = Start(q + 1, kind)
                           /\ E = Append(C, c) /\ t = Append(m, b)
  OBVIOUS
<1>2. q \in Nat /\ c \in Chunks /\ c.type = "block-start" /\ c.index = q + 1 /\ c.kind = kind
  <2>1. q \in Nat /\ q + 1 \in Nat
    <3>1. Len(m) \in Nat
      OBVIOUS
    <3> QED BY <1>1, <3>1
  <2>2. c \in Content
    BY <1>1, <2>1, ChunkTypes
  <2> QED BY <1>1, <2>1, <2>2 DEF Start, Chunks
<1>3. /\ l \in Nat /\ DOMAIN C = 1..l /\ DOMAIN E = 1..(l + 1) /\ E[l + 1] = c
      /\ \A k \in 1..l : E[k] = C[k]
      /\ \A k \in 1..(l + 1) : k = l + 1 \/ k \in 1..l
      /\ \A k \in 1..(l + 1) : \A h \in 1..(k - 1) : h \in 1..l
  <2>1. l \in Nat /\ l = Len(C) /\ E = Append(C, c) /\ c \in Chunks
    <3>1. Len(C) \in Nat
      OBVIOUS
    <3> QED BY <1>1, <1>2, <3>1
  <2>2. /\ DOMAIN C = 1..l /\ DOMAIN E = 1..(l + 1) /\ E[l + 1] = c
        /\ \A k \in 1..l : E[k] = C[k]
    BY ONLY <2>1, C \in Seq(Chunks)
  <2> QED BY ONLY <2>1, <2>2
<1>4. /\ DOMAIN m = 1..q /\ DOMAIN t = 1..(q + 1) /\ t[q + 1] = b /\ \A j \in 1..q : t[j] = m[j]
      /\ \A j \in 1..q : j \in 1..(q + 1) /\ j # q + 1
      /\ \A j \in 1..(q + 1) : j = q + 1 \/ j \in 1..q
      /\ b.kind = kind /\ b.buf = <<>> /\ q + 1 \in 1..(q + 1)
  <2>1. q = Len(m) /\ t = Append(m, b)
    BY <1>1
  <2>2. DOMAIN m = 1..q /\ DOMAIN t = 1..(q + 1) /\ t[q + 1] = b /\ \A j \in 1..q : t[j] = m[j]
    BY ONLY <1>2, <2>1, m \in Seq(BlockType), b \in BlockType
  <2>3. /\ \A j \in 1..q : j \in 1..(q + 1) /\ j # q + 1
        /\ \A j \in 1..(q + 1) : j = q + 1 \/ j \in 1..q
        /\ q + 1 \in 1..(q + 1)
    BY ONLY <1>2
  <2>4. b.kind = kind /\ b.buf = <<>>
    OBVIOUS
  <2> QED BY <2>2, <2>3, <2>4
<1>5. \A k \in 1..l : C[k].type \in {"block-start", "delta"} /\ C[k].index \in 1..q
  BY <1>3, <1>4 DEF Carries
<1>6. Begins(E, t)
  <2>1. ASSUME NEW k \in DOMAIN E, E[k].type = "block-start"
        PROVE  /\ E[k].index \in DOMAIN t /\ E[k].kind = t[E[k].index].kind
               /\ \A h \in 1..(k - 1) : /\ E[h].type \in {"block-start", "delta"}
                                        /\ E[h].index # E[k].index
    <3>1. CASE k = l + 1
      BY <1>2, <1>3, <1>4, <1>5, <3>1
    <3>2. CASE k \in 1..l
      <4>1. /\ C[k].index \in DOMAIN m /\ C[k].kind = m[C[k].index].kind
            /\ \A h \in 1..(k - 1) : /\ C[h].type \in {"block-start", "delta"}
                                     /\ C[h].index # C[k].index
        BY <1>3, <2>1, <3>2 DEF Carries, Begins
      <4> QED BY <1>3, <1>4, <3>2, <4>1
    <3> QED BY <1>3, <3>1, <3>2
  <2> QED BY <2>1 DEF Begins
<1>7. /\ \A k \in DOMAIN E : E[k].type \in {"block-start", "delta"}
      /\ \A k \in DOMAIN E : E[k].index \in DOMAIN t
  BY <1>2, <1>3, <1>4, <1>5
<1>8. \A j : PiecesIn(E, j) = PiecesIn(C, j)
  BY <1>1, <1>2, ChunkForBlock, ZenonT(40)
<1>9. \A j \in DOMAIN t : PiecesIn(E, j) = t[j].buf
  <2>1. PiecesIn(C, q + 1) = <<>>
    <3>1. q + 1 \in Nat \ (1..q)
      BY ONLY <1>2
    <3> QED BY <1>4, <3>1 DEF Carries
  <2>2. \A j \in 1..q : PiecesIn(C, j) = m[j].buf
    BY <1>4 DEF Carries
  <2> QED BY <1>4, <1>8, <2>1, <2>2
<1>10. \A j \in Nat \ DOMAIN t : PiecesIn(E, j) = <<>>
  <2>1. \A j \in Nat \ DOMAIN t : j \in Nat \ DOMAIN m
    BY <1>4
  <2> QED BY <1>8, <2>1 DEF Carries
<1>11. Carries(E, t)
  BY <1>6, <1>7, <1>9, <1>10 DEF Carries
<1> QED BY <1>1, <1>11

-----------------------------------------------------------------------------
(* push: the translator says what was sent, and its chunks, behind those   *)
(* made before, carry it.                                                  *)

Says(s, base, sent, n) ==
  Pushed(s) /\ Written(s.tr, sent, n) /\ Carries(base \o s.out, s.tr.blocks)

LEMMA BehindChunks ==
  ASSUME NEW base \in Seq(Chunks), NEW p \in Seq(Chunks), NEW c \in Chunks
  PROVE  base \o p \in Seq(Chunks) /\ base \o Append(p, c) = Append(base \o p, c)
OBVIOUS

LEMMA WriteSays ==
  ASSUME NEW s, NEW base \in Seq(Chunks), NEW D \in Seq(Pieces), NEW n0 \in Nat, Says(s, base, D, n0),
         NEW d \in Pieces, n0 <= d.piece, NEW i \in 1..(Len(s.tr.blocks) + 1),
         i <= Len(s.tr.blocks) =>
           /\ s.tr.blocks[i].kind = d.kind
           /\ IF d.kind = "tool-call" THEN s.tr.wires[i] = d.index ELSE i = Len(s.tr.blocks),
         i > Len(s.tr.blocks) => (d.kind = "tool-call" => d.index \notin Range(s.tr.wires))
  PROVE  Says(Write(s, i, d.kind, d.index, d.piece, d.id), base, Append(D, d), d.piece)
<1>1. PICK m, w, p, k, x, n, id, r, tr, q :
        /\ m = s.tr.blocks /\ w = s.tr.wires /\ p = s.out /\ k = d.kind /\ x = d.index /\ n = d.piece
        /\ id = d.id /\ r = Write(s, i, k, x, n, id) /\ tr = r.tr /\ q = Len(m)
  OBVIOUS
<1>2. k \in Kinds /\ x \in Int /\ n \in Nat /\ id \in Names
  BY <1>1, PieceTypes
<1>3. Pushed(s) /\ TransOK(s.tr) /\ Written(s.tr, D, n0) /\ Carries(base \o p, m)
  BY <1>1 DEF Says, Pushed
<1>4. Pushed(r)
  BY <1>1, <1>2, <1>3, WriteKeeps
<1>5. /\ m \in Seq(BlockType) /\ w \in Seq(Int) /\ p \in Seq(Content) /\ tr.blocks \in Seq(BlockType)
      /\ TransOK(tr)
  BY <1>1, <1>3, <1>4 DEF Pushed, TransOK, Translations
<1>6. p \in Seq(Chunks)
  <2>1. Content \subseteq Chunks
    BY DEF Chunks
  <2> QED BY <1>5, <2>1
<1>7. q \in Nat /\ DOMAIN m = 1..q /\ i \in 1..(q + 1)
  <2>1. Len(m) \in Nat /\ DOMAIN m = 1..Len(m)
    BY <1>5
  <2> QED BY <1>1, <2>1
<1>v. PICK v : v = toolCallIndex(k, x)
  OBVIOUS
<1>8. /\ i <= q =>
           /\ DOMAIN tr.blocks = DOMAIN m
           /\ tr.blocks[i] = Block(m[i].kind, acceptIdentity(m[i].id, id), Append(m[i].buf, n))
           /\ \A j \in DOMAIN m : j # i => tr.blocks[j] = m[j]
           /\ tr.wires = w
           /\ r.out = Append(p, Delta(i, k, n, tr.blocks[i].id, v))
      /\ i > q =>
           /\ tr.blocks = Append(m, Block(k, id, <<n>>))
           /\ tr.wires = Append(w, x)
           /\ r.out = Append(Append(p, Start(i, k)), Delta(i, k, n, id, v))
  <2>1. i \in 1..(Len(s.tr.blocks) + 1)
    OBVIOUS
  <2>2. Wrote(s, i, k, x, n, id)
    BY ONLY <1>2, <1>3, <2>1, WriteIs
  <2> QED BY <1>1, <1>v, <2>2, Zenon DEF Wrote
<1>9. \A z \in Names : /\ Delta(i, k, n, z, v) \in Deltas /\ Delta(i, k, n, z, v) \in Chunks
                        /\ Delta(i, k, n, z, v).index = i /\ Delta(i, k, n, z, v).piece = n
  <2>1. i \in Nat
    BY <1>7
  <2>2. \A z \in Names : Delta(i, k, n, z, v) \in Deltas
    <3>1. v \in Int
      BY <1>2, <1>v DEF toolCallIndex
    <3> QED BY <1>2, <2>1, <3>1, ChunkTypes
  <2>3. \A z : Delta(i, k, n, z, v).index = i /\ Delta(i, k, n, z, v).piece = n
    BY DEF Delta
  <2> QED BY <2>2, <2>3 DEF Chunks, Content
<1>11. CASE i <= q
  <2>1. PICK c, e : c = Delta(i, k, n, e.id, v) /\ e = tr.blocks[i]
    OBVIOUS
  <2>2. /\ e = Block(m[i].kind, acceptIdentity(m[i].id, id), Append(m[i].buf, n))
        /\ DOMAIN tr.blocks = DOMAIN m /\ \A j \in DOMAIN m : j # i => tr.blocks[j] = m[j]
        /\ tr.wires = w /\ r.out = Append(p, c) /\ i \in DOMAIN m
    BY <1>7, <1>8, <1>11, <2>1
  <2>3. c \in Deltas /\ c \in Chunks /\ c.index = i /\ c.piece = n
    <3>1. e \in BlockType
      <4>1. DOMAIN tr.blocks = DOMAIN m /\ i \in DOMAIN m /\ e = tr.blocks[i]
        BY <2>1, <2>2
      <4> QED BY ONLY <1>5, <4>1
    <3>2. e.id \in Names
      BY <3>1 DEF BlockType
    <3> QED BY <1>9, <2>1, <3>2
  <2>4. Written(tr, Append(D, d), n)
    <3>1. m[i].kind = k /\ IF k = "tool-call" THEN w[i] = x ELSE i = q
      BY <1>1, <1>11
    <3>2. /\ tr.blocks[i] = Block(s.tr.blocks[i].kind, acceptIdentity(s.tr.blocks[i].id, d.id),
                                  Append(s.tr.blocks[i].buf, d.piece))
          /\ DOMAIN tr.blocks = DOMAIN s.tr.blocks /\ tr.wires = s.tr.wires
          /\ \A j \in DOMAIN s.tr.blocks : j # i => tr.blocks[j] = s.tr.blocks[j]
          /\ s.tr.blocks[i].kind = d.kind /\ i \in DOMAIN s.tr.blocks
          /\ IF d.kind = "tool-call" THEN s.tr.wires[i] = d.index ELSE i = Len(s.tr.blocks)
      BY <1>1, <2>1, <2>2, <3>1, Zenon
    <3>3. Written(tr, Append(D, d), d.piece)
      BY <1>3, <1>5, <3>2, GoesOn
    <3> QED BY <1>1, <3>3
  <2>5. e.kind = m[i].kind /\ e.buf = Append(m[i].buf, n)
    BY <2>2 DEF Block
  <2>6. Carries(Append(base \o p, c), tr.blocks)
    <3>1. base \o p \in Seq(Chunks)
      BY <1>6, <2>3, BehindChunks
    <3>2. PICK C, t : C = base \o p /\ t = tr.blocks
      OBVIOUS
    <3>3. /\ C \in Seq(Chunks) /\ t \in Seq(BlockType) /\ DOMAIN t = DOMAIN m /\ Carries(C, m)
          /\ \A j \in DOMAIN m : j # i => t[j] = m[j]
          /\ t[i].kind = m[i].kind /\ t[i].buf = Append(m[i].buf, n) /\ i \in DOMAIN m
      BY <1>3, <1>5, <2>1, <2>2, <2>5, <3>1, <3>2, Zenon
    <3>4. Carries(Append(C, c), t)
      BY ONLY <1>2, <1>5, <2>3, <3>3, DeltaCarried, Zenon
    <3> QED BY <3>2, <3>4
  <2>7. base \o r.out = Append(base \o p, c)
    BY <1>6, <2>2, <2>3, BehindChunks
  <2> QED BY <1>1, <1>4, <2>4, <2>6, <2>7 DEF Says
<1>12. CASE i > q
  <2>0. PICK c, e : c = Delta(i, k, n, id, v) /\ e = Block(k, id, <<n>>)
    OBVIOUS
  <2>c. c \in Deltas /\ c \in Chunks /\ c.index = i /\ c.piece = n
    BY <1>2, <1>9, <2>0
  <2>e. e \in BlockType
    <3>1. <<n>> \in Seq(Nat)
      BY <1>2
    <3> QED BY <1>2, <2>0, <3>1 DEF Block, BlockType
  <2>1. /\ e = Block(k, id, <<n>>) /\ tr.blocks = Append(m, e) /\ tr.wires = Append(w, x)
        /\ r.out = Append(Append(p, Start(i, k)), c) /\ i = q + 1
    BY <1>7, <1>8, <1>12, <2>0, SMTT(40)
  <2>2. Written(tr, Append(D, d), n)
    <3>1. /\ e = Block(d.kind, d.id, <<d.piece>>)
          /\ tr.blocks = Append(s.tr.blocks, e) /\ tr.wires = Append(s.tr.wires, d.index)
      BY <1>1, <2>1, Zenon
    <3>2. d.kind = "tool-call" => d.index \notin Range(s.tr.wires)
      BY <1>1, <1>12
    <3>3. Written(tr, Append(D, d), d.piece)
      BY <1>3, <2>e, <3>1, <3>2, OpensNew, Zenon
    <3> QED BY <1>1, <3>3
  <2>3. PICK o, b : o = Start(i, k) /\ b = Block(k, "", <<>>)
    OBVIOUS
  <2>4. b \in BlockType /\ b.kind = k /\ b.buf = <<>>
    <3>1. "" \in Names
      BY DEF Names
    <3>2. <<>> \in Seq(Nat)
      OBVIOUS
    <3> QED BY <1>2, <2>3, <3>1, <3>2 DEF Block, BlockType
  <2>5. o \in Chunks
    <3>1. i \in Nat
      BY <1>7
    <3> QED BY <1>2, <2>3, <3>1, ChunkTypes DEF Chunks
  <2>6. base \o p \in Seq(Chunks) /\ Append(base \o p, o) \in Seq(Chunks)
    <3>1. base \o p \in Seq(Chunks)
      BY <1>6, <2>5, BehindChunks
    <3> QED BY <2>5, <3>1
  <2>7. Carries(Append(base \o p, o), Append(m, b))
    <3>1. Carries(Append(base \o p, Start(Len(m) + 1, k)), Append(m, b))
      BY <1>2, <1>3, <1>5, <2>4, <2>6, StartCarried, Zenon
    <3> QED BY <1>1, <2>1, <2>3, <3>1
  <2>8. Carries(Append(Append(base \o p, o), c), tr.blocks)
    <3>1. PICK C, t, u : C = Append(base \o p, o) /\ t = tr.blocks /\ u = Append(m, b)
      OBVIOUS
    <3>2. /\ u \in Seq(BlockType) /\ DOMAIN u = 1..(q + 1) /\ u[q + 1] = b
          /\ \A j \in 1..q : u[j] = m[j]
      BY ONLY <1>1, <1>5, <2>4, <3>1
    <3>3. /\ t \in Seq(BlockType) /\ DOMAIN t = 1..(q + 1) /\ t[q + 1] = e
          /\ \A j \in 1..q : t[j] = m[j]
      <4>1. t = Append(m, e) /\ q = Len(m)
        BY <1>1, <2>1, <3>1
      <4> QED BY ONLY <1>5, <2>e, <4>1
    <3>4. e.kind = k /\ e.buf = <<n>>
      BY <2>1 DEF Block
    <3>5. e.buf = Append(b.buf, n)
      <4>1. Append(<<>>, n) = <<n>>
        OBVIOUS
      <4> QED BY <2>4, <3>4, <4>1
    <3>6. /\ C \in Seq(Chunks) /\ Carries(C, u) /\ DOMAIN t = DOMAIN u /\ i \in DOMAIN u
          /\ \A j \in DOMAIN u : j # i => t[j] = u[j]
      <4>1. C \in Seq(Chunks) /\ Carries(C, u)
        BY <2>6, <2>7, <3>1, Zenon
      <4>2. \A j \in 1..(q + 1) : j # q + 1 => j \in 1..q
        BY ONLY <1>7
      <4> QED BY <1>7, <2>1, <3>2, <3>3, <4>1, <4>2
    <3>7. t[i].kind = u[i].kind /\ t[i].buf = Append(u[i].buf, n)
      BY <2>1, <2>4, <3>2, <3>3, <3>4, <3>5
    <3>8. Carries(Append(C, c), t)
      BY ONLY <1>2, <2>c, <3>2, <3>3, <3>6, <3>7, DeltaCarried, Zenon
    <3> QED BY <3>1, <3>8
  <2>9. base \o r.out = Append(Append(base \o p, o), c)
    <3>1. r.out = Append(Append(p, o), c) /\ Append(p, o) \in Seq(Chunks)
      <4>1. r.out = Append(Append(p, o), c)
        BY <2>1, <2>3, Zenon
      <4>2. Append(p, o) \in Seq(Chunks)
        BY ONLY <1>6, <2>5
      <4> QED BY <4>1, <4>2
    <3>2. base \o r.out = Append(base \o Append(p, o), c)
      BY <2>c, <3>1, BehindChunks
    <3>3. base \o Append(p, o) = Append(base \o p, o)
      BY <1>6, <2>5, BehindChunks
    <3> QED BY <3>2, <3>3
  <2> QED BY <1>1, <1>4, <2>2, <2>8, <2>9 DEF Says
<1> QED BY <1>7, <1>11, <1>12

LEMMA ExtendSays ==
  ASSUME NEW s, NEW base \in Seq(Chunks), NEW D \in Seq(Pieces), NEW n0 \in Nat, Says(s, base, D, n0),
         NEW kind \in {"text", "reasoning"}, NEW n \in Nat, n0 <= n,
         NEW d, d = [kind |-> kind, index |-> -1, piece |-> n, id |-> ""]
  PROVE  d \in Pieces /\ Says(extend(s, kind, n), base, Append(D, d), n)
<1>1. d \in Pieces /\ d.kind = kind /\ d.index = -1 /\ d.piece = n /\ d.id = "" /\ kind # "tool-call"
  <2>1. d \in [kind : {"text", "reasoning"}, index : {-1}, piece : Nat, id : {""}]
    OBVIOUS
  <2>2. d.kind = kind /\ d.index = -1 /\ d.piece = n /\ d.id = ""
    OBVIOUS
  <2> QED BY <2>1, <2>2 DEF Pieces
<1>2. PICK m, l, i : /\ m = s.tr.blocks /\ l = Len(m)
                     /\ i = IF l > 0 /\ m[l].kind = kind THEN l ELSE l + 1
  OBVIOUS
<1>3. m \in Seq(BlockType) /\ l \in Nat
  <2>1. m \in Seq(BlockType)
    BY <1>2 DEF Says, Pushed, Translations
  <2>2. l = Len(m)
    BY <1>2
  <2> QED BY ONLY <2>1, <2>2
<1>4. extend(s, kind, n) = Write(s, i, kind, -1, n, "")
  BY <1>2 DEF extend
<1>5. i \in 1..(l + 1) /\ (i <= l => m[i].kind = kind /\ i = l)
  <2>1. CASE l > 0 /\ m[l].kind = kind
    <3>1. i = l
      BY <1>2, <2>1
    <3> QED BY ONLY <1>3, <2>1, <3>1
  <2>2. CASE ~(l > 0 /\ m[l].kind = kind)
    <3>1. i = l + 1
      BY <1>2, <2>2
    <3> QED BY ONLY <1>3, <3>1
  <2> QED BY <2>1, <2>2
<1>6. Says(Write(s, i, d.kind, d.index, d.piece, d.id), base, Append(D, d), d.piece)
  <2>1. i \in 1..(Len(s.tr.blocks) + 1) /\ n0 <= d.piece
    BY <1>1, <1>2, <1>5
  <2>2. /\ i <= Len(s.tr.blocks) =>
             /\ s.tr.blocks[i].kind = d.kind
             /\ IF d.kind = "tool-call" THEN s.tr.wires[i] = d.index ELSE i = Len(s.tr.blocks)
        /\ i > Len(s.tr.blocks) => (d.kind = "tool-call" => d.index \notin Range(s.tr.wires))
    BY <1>1, <1>2, <1>5
  <2> QED BY <1>1, <2>1, <2>2, WriteSays
<1> QED BY <1>1, <1>4, <1>6, Zenon

LEMMA WriteCallSays ==
  ASSUME NEW s, NEW base \in Seq(Chunks), NEW D \in Seq(Pieces), NEW n0 \in Nat, Says(s, base, D, n0),
         NEW call \in [index : Nat, id : Names], NEW n \in Nat, n0 <= n,
         NEW d, d = [kind |-> "tool-call", index |-> call.index, piece |-> n, id |-> call.id]
  PROVE  d \in Pieces /\ Says(WriteCall(s, call, n), base, Append(D, d), n)
<1>1. /\ d \in Pieces /\ d.kind = "tool-call" /\ d.index = call.index /\ d.piece = n /\ d.id = call.id
      /\ call.index \in Nat
  <2>1. d \in [kind : {"tool-call"}, index : Nat, piece : Nat, id : Names]
    OBVIOUS
  <2>2. d.kind = "tool-call" /\ d.index = call.index /\ d.piece = n /\ d.id = call.id
    OBVIOUS
  <2> QED BY <2>1, <2>2 DEF Pieces
<1>2. PICK m, w, l, known, i :
        /\ m = s.tr.blocks /\ w = s.tr.wires /\ l = Len(m)
        /\ known = {k \in DOMAIN w : w[k] = call.index}
        /\ i = IF known # {} THEN CHOOSE k \in known : TRUE ELSE l + 1
  OBVIOUS
<1>3. m \in Seq(BlockType) /\ w \in Seq(Int) /\ l \in Nat /\ DOMAIN w = 1..l /\ DOMAIN m = 1..l
  <2>1. m \in Seq(BlockType) /\ w \in Seq(Int) /\ Len(w) = Len(m)
    BY <1>2 DEF Says, Pushed, TransOK, Translations
  <2> QED BY <1>2, <2>1
<1>4. WriteCall(s, call, n) = Write(s, i, "tool-call", call.index, n, call.id)
  BY <1>2 DEF WriteCall
<1>5. CASE known # {}
  <2>1. i \in known
    <3>1. i = CHOOSE k \in known : TRUE
      BY <1>2, <1>5
    <3> QED BY <1>5, <3>1
  <2>2. i \in 1..l /\ w[i] = call.index
    BY <1>2, <1>3, <2>1, ZenonT(40)
  <2>3. m[i].kind = "tool-call"
    <3>1. CallsWritten(s.tr, D)
      BY DEF Says, Written
    <3>2. m[i].kind # "tool-call" => w[i] = -1
      BY <1>2, <1>3, <2>2, <3>1 DEF CallsWritten
    <3>3. call.index # -1
      BY <1>1
    <3> QED BY <2>2, <3>2, <3>3
  <2>4. i \in 1..(Len(s.tr.blocks) + 1) /\ n0 <= d.piece /\ ~(i > Len(s.tr.blocks))
    <3>1. l = Len(s.tr.blocks) /\ n0 <= d.piece
      BY <1>1, <1>2
    <3> QED BY ONLY <1>3, <2>2, <3>1
  <2>5. /\ s.tr.blocks[i].kind = d.kind
        /\ IF d.kind = "tool-call" THEN s.tr.wires[i] = d.index ELSE i = Len(s.tr.blocks)
    BY <1>1, <1>2, <2>2, <2>3
  <2>6. Says(Write(s, i, d.kind, d.index, d.piece, d.id), base, Append(D, d), d.piece)
    BY <1>1, <2>4, <2>5, WriteSays
  <2> QED BY <1>1, <1>4, <2>6, Zenon
<1>6. CASE known = {}
  <2>1. i = l + 1
    BY <1>2, <1>6
  <2>2. call.index \notin Range(w)
    BY <1>2, <1>6 DEF Range
  <2>3. i \in 1..(Len(s.tr.blocks) + 1) /\ n0 <= d.piece /\ ~(i <= Len(s.tr.blocks))
    BY <1>1, <1>2, <1>3, <2>1
  <2>4. d.kind = "tool-call" => d.index \notin Range(s.tr.wires)
    BY <1>1, <1>2, <2>2
  <2>5. Says(Write(s, i, d.kind, d.index, d.piece, d.id), base, Append(D, d), d.piece)
    BY <1>1, <2>3, <2>4, WriteSays
  <2> QED BY <1>1, <1>4, <2>5, Zenon
<1> QED BY <1>5, <1>6

LEMMA LaterSays ==
  ASSUME NEW s, NEW base, NEW D, NEW n0 \in Nat, NEW n \in Nat, n0 <= n, Says(s, base, D, n0)
  PROVE  Says(s, base, D, n)
<1>1. s.tr.blocks \in Seq(BlockType)
  BY DEF Says, Pushed, Translations
<1>2. ASSUME NEW j \in DOMAIN s.tr.blocks, NEW k \in DOMAIN s.tr.blocks[j].buf
      PROVE  s.tr.blocks[j].buf[k] <= n
  <2>1. PICK u : u = s.tr.blocks[j]
    OBVIOUS
  <2>2. u \in BlockType
    BY <1>1, <2>1
  <2>3. u.buf \in Seq(Nat)
    BY <2>2 DEF BlockType
  <2>4. u.buf[k] \in Nat
    BY <1>2, <2>1, <2>3
  <2>5. u.buf[k] <= n0
    BY <1>2, <2>1 DEF Says, Written, InOrder
  <2>6. u.buf[k] <= n
    BY <2>4, <2>5
  <2> QED BY <2>1, <2>6
<1>3. InOrder(s.tr, n)
  BY <1>2 DEF Says, Written, InOrder
<1> QED BY <1>3 DEF Says, Written

CallPieces(calls, k, n) ==
  [j \in 1..k |-> [kind |-> "tool-call", index |-> calls[j].index, piece |-> n, id |-> calls[j].id]]

LEMMA CallPiecesGrow ==
  ASSUME NEW calls, NEW l \in Nat, \A j \in 1..l : calls[j] \in [index : Nat, id : Names],
         NEW n \in Nat, NEW k \in Nat, k + 1 <= l
  PROVE  /\ CallPieces(calls, k, n) \in Seq(Pieces) /\ CallPieces(calls, k + 1, n) \in Seq(Pieces)
         /\ CallPieces(calls, k + 1, n)
              = Append(CallPieces(calls, k, n),
                       [kind |-> "tool-call", index |-> calls[k + 1].index, piece |-> n,
                        id |-> calls[k + 1].id])
<1> DEFINE P(j) == [kind |-> "tool-call", index |-> calls[j].index, piece |-> n, id |-> calls[j].id]
<1>1. \A j \in 1..l : P(j) \in Pieces
  <2>1. ASSUME NEW j \in 1..l PROVE P(j) \in [kind : {"tool-call"}, index : Nat, piece : Nat, id : Names]
    <3>1. calls[j].index \in Nat /\ calls[j].id \in Names
      OBVIOUS
    <3> QED BY <3>1
  <2> QED BY <2>1 DEF Pieces
<1>2. CallPieces(calls, k, n) = [j \in 1..k |-> P(j)] /\ CallPieces(calls, k + 1, n) = [j \in 1..(k + 1) |-> P(j)]
  BY DEF CallPieces
<1> HIDE DEF P
<1>3. PICK s, t, p : s = [j \in 1..k |-> P(j)] /\ t = [j \in 1..(k + 1) |-> P(j)] /\ p = P(k + 1)
  OBVIOUS
<1>4. /\ \A j \in 1..k : j \in 1..l
      /\ \A j \in 1..(k + 1) : j \in 1..l
      /\ k + 1 \in 1..l /\ k + 1 \in Nat
  OBVIOUS
<1>5. s \in Seq(Pieces) /\ t \in Seq(Pieces) /\ p \in Pieces /\ Len(s) = k /\ Len(t) = k + 1
  <2>1. s \in [1..k -> Pieces] /\ t \in [1..(k + 1) -> Pieces] /\ p \in Pieces
    BY <1>1, <1>3, <1>4
  <2> QED BY <1>4, <2>1, MapTyped
<1>6. t = Append(s, p)
  <2>1. \A j \in 1..k : t[j] = s[j]
    BY <1>3
  <2>2. t[k + 1] = p
    BY <1>3
  <2>3. PICK a : a = Append(s, p)
    OBVIOUS
  <2>4. a \in Seq(Pieces) /\ Len(a) = k + 1 /\ a[k + 1] = p /\ \A j \in 1..k : a[j] = s[j]
    BY ONLY <1>5, <2>3, k \in Nat
  <2>5. \A j \in 1..(k + 1) : a[j] = t[j]
    BY <2>1, <2>2, <2>4
  <2>6. a = t
    BY ONLY <1>5, <2>4, <2>5, k \in Nat
  <2> QED BY <2>3, <2>6
<1> QED BY <1>2, <1>3, <1>5, <1>6 DEF P

LEMMA WriteCallsSays ==
  ASSUME NEW s, NEW base \in Seq(Chunks), NEW D \in Seq(Pieces), NEW n \in Nat, Says(s, base, D, n),
         NEW calls \in Seq([index : Nat, id : Names])
  PROVE  /\ CallPieces(calls, Len(calls), n) \in Seq(Pieces)
         /\ Says(WriteCalls(s, calls, n), base, D \o CallPieces(calls, Len(calls), n), n)
<1>1. PICK l : l = Len(calls)
  OBVIOUS
<1>2. l \in Nat /\ Len(calls) \in Nat /\ \A j \in 1..l : calls[j] \in [index : Nat, id : Names]
  <2>1. PICK S : S = [index : Nat, id : Names]
    OBVIOUS
  <2>2. calls \in Seq(S)
    BY <2>1
  <2>3. l \in Nat /\ Len(calls) \in Nat /\ \A j \in 1..l : calls[j] \in S
    BY <1>1, <2>2
  <2> QED BY <2>1, <2>3, Zenon
<1> DEFINE after == CHOOSE f : f = [j \in 0..Len(calls) |->
                      IF j = 0 THEN s ELSE WriteCall(f[j - 1], calls[j], n)]
<1>3. after = [j \in 0..l |-> IF j = 0 THEN s ELSE WriteCall(after[j - 1], calls[j], n)]
  <2>1. \E f : f = [j \in 0..Len(calls) |-> IF j = 0 THEN s ELSE WriteCall(f[j - 1], calls[j], n)]
    <3>1. \E f : Writes(s, calls, n, Len(calls), f)
      BY <1>2, WritesExist
    <3> QED BY <3>1 DEF Writes
  <2>2. after = [j \in 0..Len(calls) |-> IF j = 0 THEN s ELSE WriteCall(after[j - 1], calls[j], n)]
    BY <2>1
  <2> HIDE DEF after
  <2> QED BY <1>1, <2>2
<1>4. WriteCalls(s, calls, n) = after[l]
  BY <1>1 DEF WriteCalls
<1> HIDE DEF after
<1> DEFINE P(j) == CallPieces(calls, j, n)
           Good == {j \in Nat : j <= l => P(j) \in Seq(Pieces) /\ Says(after[j], base, D \o P(j), n)}
<1>5. 0 \in Good
  <2>1. P(0) = <<>>
    <3>1. P(0) = [j \in {} |-> [kind |-> "tool-call", index |-> calls[j].index, piece |-> n,
                               id |-> calls[j].id]]
      <4>1. 1..0 = {}
        OBVIOUS
      <4> QED BY <4>1 DEF CallPieces
    <3> QED BY <3>1
  <2>2. D \o <<>> = D /\ <<>> \in Seq(Pieces)
    OBVIOUS
  <2>3. after[0] = s
    BY <1>2, <1>3
  <2> QED BY <2>1, <2>2, <2>3
<1>6. ASSUME NEW j \in Nat, j \in Good PROVE j + 1 \in Good
  <2>1. SUFFICES ASSUME j + 1 <= l
                 PROVE  P(j + 1) \in Seq(Pieces) /\ Says(after[j + 1], base, D \o P(j + 1), n)
    OBVIOUS
  <2>2. /\ j + 1 \in 0..l /\ j + 1 \in 1..l /\ (j + 1) - 1 = j /\ j + 1 # 0
        /\ P(j) \in Seq(Pieces) /\ Says(after[j], base, D \o P(j), n)
    BY <1>2, <1>6, <2>1
  <2>3. after[j + 1] = WriteCall(after[j], calls[j + 1], n)
    BY <1>3, <2>2
  <2> HIDE DEF P
  <2>4. PICK d : d = [kind |-> "tool-call", index |-> calls[j + 1].index, piece |-> n, id |-> calls[j + 1].id]
    OBVIOUS
  <2>5. P(j + 1) = Append(P(j), d) /\ P(j + 1) \in Seq(Pieces)
    BY <1>2, <2>1, <2>4, CallPiecesGrow DEF P
  <2>6. PICK E : E = D \o P(j)
    OBVIOUS
  <2>7. E \in Seq(Pieces) /\ Says(after[j], base, E, n) /\ n <= n /\ calls[j + 1] \in [index : Nat, id : Names]
    BY <1>2, <2>2, <2>6
  <2>8. d \in Pieces /\ Says(WriteCall(after[j], calls[j + 1], n), base, Append(E, d), n)
    <3>1. PICK call, v : call = calls[j + 1] /\ v = after[j]
      OBVIOUS
    <3>2. /\ call \in [index : Nat, id : Names] /\ Says(v, base, E, n)
          /\ d = [kind |-> "tool-call", index |-> call.index, piece |-> n, id |-> call.id]
      BY <2>4, <2>7, <3>1
    <3>3. d \in Pieces /\ Says(WriteCall(v, call, n), base, Append(E, d), n)
      BY <2>7, <3>2, WriteCallSays, ZenonT(40)
    <3> QED BY <3>1, <3>3
  <2>9. D \o P(j + 1) = Append(E, d)
    <3>1. PICK p : p = P(j)
      OBVIOUS
    <3>2. p \in Seq(Pieces) /\ D \o Append(p, d) = Append(D \o p, d)
      BY <2>2, <2>8, <3>1
    <3> QED BY <2>5, <2>6, <3>1, <3>2
  <2> QED BY <2>3, <2>5, <2>8, <2>9
<1> HIDE DEF Good
<1>7. l \in Good
  BY <1>2, <1>5, <1>6, NaturalsIn
<1> QED BY <1>1, <1>2, <1>4, <1>7 DEF Good

LEMMA PiecesJoin ==
  ASSUME NEW D \in Seq(Pieces), NEW A \in Seq(Pieces), NEW B \in Seq(Pieces), NEW C \in Seq(Pieces)
  PROVE  /\ D \o (A \o B \o C) = ((D \o A) \o B) \o C
         /\ A \o B \o C \in Seq(Pieces)
OBVIOUS

LEMMA OnePiece ==
  ASSUME NEW D \in Seq(Pieces), NEW d \in Pieces
  PROVE  /\ D \o <<d>> = Append(D, d) /\ <<d>> \in Seq(Pieces) /\ Append(D, d) \in Seq(Pieces)
         /\ D \o <<>> = D /\ <<>> \in Seq(Pieces)
OBVIOUS

LEMMA PushSays ==
  ASSUME NEW tr, TransOK(tr), NEW base \in Seq(Chunks), NEW D \in Seq(Pieces), NEW n0 \in Nat,
         Written(tr, D, n0), Carries(base, tr.blocks), NEW w \in WireType, NEW n \in Nat, n0 <= n
  PROVE  PiecesOf(w, n) \in Seq(Pieces) /\ Says(push(tr, w, n), base, D \o PiecesOf(w, n), n)
<1>1. PICK s0 : s0 = [tr |-> tr, out |-> <<>>]
  OBVIOUS
<1>2. Says(s0, base, D, n)
  <2>1. <<>> \in Seq(Content) /\ base \o <<>> = base
    OBVIOUS
  <2>2. s0.tr = tr /\ s0.out = <<>>
    BY <1>1
  <2>3. Pushed(s0)
    BY <1>1, <2>1 DEF Pushed, TransOK
  <2>4. Says(s0, base, D, n0)
    BY <2>1, <2>2, <2>3 DEF Says
  <2> QED BY <2>4, LaterSays
<1>3. PICK dr, dt : /\ dr = [kind |-> "reasoning", index |-> -1, piece |-> n, id |-> ""]
                    /\ dt = [kind |-> "text", index |-> -1, piece |-> n, id |-> ""]
  OBVIOUS
<1>4. PICK A, B, C : /\ A = IF w.reasoning THEN <<dr>> ELSE <<>>
                     /\ B = IF w.text THEN <<dt>> ELSE <<>>
                     /\ C = CallPieces(w.calls, Len(w.calls), n)
  OBVIOUS
<1>5. w.calls \in Seq([index : Nat, id : Names]) /\ DOMAIN w.calls = 1..Len(w.calls)
  <2>1. PICK S : S = [index : Nat, id : Names]
    OBVIOUS
  <2>2. w.calls \in Seq(S)
    BY <2>1 DEF WireType
  <2>3. DOMAIN w.calls = 1..Len(w.calls)
    BY <2>2
  <2> QED BY <2>1, <2>2, <2>3, Zenon
<1>6. PiecesOf(w, n) = A \o B \o C
  BY <1>3, <1>4, <1>5, Zenon DEF PiecesOf, CallPieces
<1>7. PICK s1, s2, s3 : /\ s1 = IF w.reasoning THEN extend(s0, "reasoning", n) ELSE s0
                        /\ s2 = IF w.text THEN extend(s1, "text", n) ELSE s1
                        /\ s3 = WriteCalls(s2, w.calls, n)
  OBVIOUS
<1>8. n <= n
  OBVIOUS
<1>9. A \in Seq(Pieces) /\ D \o A \in Seq(Pieces) /\ Says(s1, base, D \o A, n)
  <2>1. CASE w.reasoning
    <3>1. dr \in Pieces /\ Says(extend(s0, "reasoning", n), base, Append(D, dr), n)
      BY <1>2, <1>3, <1>8, ExtendSays
    <3>2. A = <<dr>> /\ s1 = extend(s0, "reasoning", n)
      BY <1>4, <1>7, <2>1
    <3>3. D \o <<dr>> = Append(D, dr) /\ <<dr>> \in Seq(Pieces) /\ Append(D, dr) \in Seq(Pieces)
      BY <3>1, OnePiece
    <3> QED BY <3>1, <3>2, <3>3
  <2>2. CASE ~w.reasoning
    <3>1. A = <<>> /\ s1 = s0
      BY <1>4, <1>7, <2>2
    <3>2. D \o <<>> = D /\ <<>> \in Seq(Pieces)
      OBVIOUS
    <3> QED BY <1>2, <3>1, <3>2
  <2> QED BY <2>1, <2>2
<1>10. B \in Seq(Pieces) /\ (D \o A) \o B \in Seq(Pieces) /\ Says(s2, base, (D \o A) \o B, n)
  <2>0. PICK E : E = D \o A
    OBVIOUS
  <2>1. CASE w.text
    <3>1. dt \in Pieces /\ Says(extend(s1, "text", n), base, Append(E, dt), n)
      BY <1>3, <1>8, <1>9, <2>0, ExtendSays
    <3>2. B = <<dt>> /\ s2 = extend(s1, "text", n)
      BY <1>4, <1>7, <2>1
    <3>3. E \o <<dt>> = Append(E, dt) /\ <<dt>> \in Seq(Pieces) /\ Append(E, dt) \in Seq(Pieces)
      BY <1>9, <2>0, <3>1, OnePiece
    <3> QED BY <2>0, <3>1, <3>2, <3>3
  <2>2. CASE ~w.text
    <3>1. B = <<>> /\ s2 = s1
      BY <1>4, <1>7, <2>2
    <3>2. E \in Seq(Pieces)
      BY <1>9, <2>0
    <3>3. E \o <<>> = E /\ <<>> \in Seq(Pieces)
      BY <3>2
    <3> QED BY <1>9, <2>0, <3>1, <3>3
  <2> QED BY <2>1, <2>2
<1>11. C \in Seq(Pieces) /\ Says(s3, base, ((D \o A) \o B) \o C, n)
  <2>0. PICK E : E = (D \o A) \o B
    OBVIOUS
  <2>1. E \in Seq(Pieces) /\ Says(s2, base, E, n)
    BY <1>10, <2>0
  <2>2. /\ CallPieces(w.calls, Len(w.calls), n) \in Seq(Pieces)
        /\ Says(WriteCalls(s2, w.calls, n), base, E \o CallPieces(w.calls, Len(w.calls), n), n)
    BY <1>5, <2>1, WriteCallsSays
  <2> QED BY <1>4, <1>7, <2>0, <2>2
<1>12. Says(s3, base, D \o PiecesOf(w, n), n) /\ PiecesOf(w, n) \in Seq(Pieces)
  <2>1. D \o (A \o B \o C) = ((D \o A) \o B) \o C /\ A \o B \o C \in Seq(Pieces)
    BY <1>9, <1>10, <1>11, PiecesJoin
  <2> QED BY <1>6, <1>11, <2>1
<1>13. PICK r, u, t : /\ r = IF w.finish = "none" THEN s3.tr.finish ELSE mapFinishReason(w.finish)
                      /\ u = (s3.tr.usage \/ w.usage)
                      /\ t = s3.tr
  OBVIOUS
<1>14. t \in Translations /\ s3 = [tr |-> t, out |-> s3.out]
  BY <1>12, <1>13 DEF Says, Pushed, TransOK
<1>15. push(tr, w, n)
         = [s3 EXCEPT !.tr.finish = IF w.finish = "none" THEN @ ELSE mapFinishReason(w.finish),
                      !.tr.usage = @ \/ w.usage]
  BY <1>1, <1>7 DEF push
<1>16. PICK v : v = [s3 EXCEPT !.tr = [blocks |-> t.blocks, wires |-> t.wires, usage |-> u, finish |-> r]]
  OBVIOUS
<1>17. push(tr, w, n) = v
  BY <1>13, <1>14, <1>15, <1>16, ZenonT(40) DEF Translations
<1>18. v.tr.blocks = t.blocks /\ v.tr.wires = t.wires /\ v.out = s3.out
  BY <1>14, <1>16
<1>19. Pushed(v)
  BY <1>17, PushKeeps
<1>20. Written(v.tr, D \o PiecesOf(w, n), n)
  <2>1. Written(t, D \o PiecesOf(w, n), n)
    BY <1>12, <1>13 DEF Says
  <2> QED BY <1>18, <2>1, Zenon DEF Written, CallsWritten, TextWritten, InOrder
<1>21. Carries(base \o v.out, v.tr.blocks)
  BY <1>12, <1>13, <1>18 DEF Says
<1> QED BY <1>12, <1>17, <1>19, <1>20, <1>21 DEF Says

LEMMA NothingWritten ==
  /\ TransOK(NoTranslation) /\ NoTranslation.blocks = <<>>
  /\ Written(NoTranslation, <<>>, 0) /\ Carries(<<>>, <<>>)
<1>1. NoTranslation.blocks = <<>> /\ NoTranslation.wires = <<>>
  BY DEF NoTranslation
<1>2. DOMAIN <<>> = {} /\ Range(<<>>) = {}
  <2>1. DOMAIN <<>> = {}
    OBVIOUS
  <2> QED BY <2>1 DEF Range
<1>3. TransOK(NoTranslation)
  <2>1. <<>> \in Seq(BlockType) /\ <<>> \in Seq(Int) /\ Len(<<>>) = Len(<<>>)
    OBVIOUS
  <2> QED BY <2>1 DEF NoTranslation, TransOK, Translations
<1>4. CallIndexes(<<>>) = {}
  BY <1>2 DEF CallIndexes
<1>5. CallsWritten(NoTranslation, <<>>)
  BY <1>1, <1>2, <1>4, PickedFromNothing DEF CallsWritten
<1>6. TextWritten(NoTranslation, <<>>)
  BY <1>1, PickedFromNothing DEF TextWritten
<1>7. InOrder(NoTranslation, 0)
  BY <1>1, <1>2 DEF InOrder
<1>8. Carries(<<>>, <<>>)
  BY <1>2, PickedFromNothing DEF Carries, Begins
<1> QED BY <1>1, <1>3, <1>5, <1>6, <1>7, <1>8 DEF Written

LEMMA PiecesTyped ==
  ASSUME NEW w \in WireType, NEW n \in Nat
  PROVE  PiecesOf(w, n) \in Seq(Pieces)
<1>1. <<>> \in Seq(Pieces) /\ <<>> \in Seq(Chunks) /\ 0 \in Nat /\ 0 <= n
  OBVIOUS
<1>2. PICK tr, D, C, z : tr = NoTranslation /\ D = <<>> /\ C = <<>> /\ z = 0
  OBVIOUS
<1>3. /\ TransOK(tr) /\ Written(tr, D, z) /\ Carries(C, tr.blocks)
      /\ D \in Seq(Pieces) /\ C \in Seq(Chunks) /\ z \in Nat /\ z <= n
  BY <1>1, <1>2, NothingWritten
<1> QED BY <1>3, PushSays

LEMMA SaidNothing == Said(<<>>) = <<>>
<1>1. DOMAIN <<>> = {}
  OBVIOUS
<1> QED BY <1>1, FlattenNothing DEF Said

LEMMA SaidGrows ==
  ASSUME NEW ws \in Seq(WireType), NEW w \in WireType
  PROVE  /\ Said(ws) \in Seq(Pieces)
         /\ Said(Append(ws, w)) = Said(ws) \o PiecesOf(w, Len(ws) + 1)
<1>1. PICK t, k, l : t = Append(ws, w) /\ k = Len(ws) /\ l = k + 1
  OBVIOUS
<1>2. /\ k \in Nat /\ l \in Nat /\ l = k + 1 /\ DOMAIN ws = 1..k /\ DOMAIN t = 1..l /\ t[l] = w
      /\ \A i \in 1..k : i \in 1..l /\ t[i] = ws[i] /\ ws[i] \in WireType
      /\ l \in 1..l /\ \A i \in 1..l : t[i] \in WireType
  <2>1. PICK S : S = WireType
    OBVIOUS
  <2>2. ws \in Seq(S) /\ w \in S
    BY <2>1
  <2>3. /\ k \in Nat /\ l \in Nat /\ l = k + 1 /\ DOMAIN ws = 1..k /\ DOMAIN t = 1..l /\ t[l] = w
        /\ \A i \in 1..k : i \in 1..l /\ t[i] = ws[i] /\ ws[i] \in S
        /\ l \in 1..l /\ \A i \in 1..l : t[i] \in S
    BY ONLY <1>1, <2>2
  <2> QED BY <2>1, <2>3, Zenon
<1> DEFINE q == [i \in DOMAIN ws |-> PiecesOf(ws[i], i)]
           p == [i \in DOMAIN t |-> PiecesOf(t[i], i)]
<1>3. q \in [1..k -> Seq(Pieces)] /\ p \in [1..l -> Seq(Pieces)]
  <2>1. PICK S : S = Seq(Pieces)
    OBVIOUS
  <2>2. \A x \in WireType : \A n \in Nat : PiecesOf(x, n) \in S
    BY <2>1, PiecesTyped
  <2>3. (\A i \in 1..k : PiecesOf(ws[i], i) \in S) /\ \A i \in 1..l : PiecesOf(t[i], i) \in S
    <3>1. (\A i \in 1..k : i \in Nat) /\ \A i \in 1..l : i \in Nat
      BY ONLY <1>2
    <3> QED BY <1>2, <2>2, <3>1, Zenon
  <2>4. q \in [1..k -> S] /\ p \in [1..l -> S]
    BY ONLY <1>2, <2>3
  <2> QED BY <2>1, <2>4
<1>4. p[l] = PiecesOf(w, l) /\ \A i \in 1..k : p[i] = q[i]
  BY <1>2
<1>5. Said(ws) = FlattenSeq(q) /\ Said(t) = FlattenSeq(p)
  BY DEF Said
<1> HIDE DEF q, p
<1>6. FlattenSeq(q) \in Seq(Pieces) /\ FlattenSeq(p) = FlattenSeq(q) \o p[l]
  <2>1. PICK S : S = Seq(Pieces)
    OBVIOUS
  <2>2. q \in Seq(S) /\ p \in Seq(S) /\ Len(q) = k /\ Len(p) = l
    BY <1>2, <1>3, <2>1, MapTyped
  <2> QED BY <1>2, <1>4, <2>1, <2>2, FlattenMap
<1> QED BY <1>1, <1>4, <1>5, <1>6

-----------------------------------------------------------------------------
(* Beginnings of sequences.                                                *)

LEMMA PrefixIs ==
  ASSUME NEW S, NEW s \in Seq(S), NEW t \in Seq(S)
  PROVE  IsPrefix(s, t) <=> Len(s) <= Len(t) /\ \A i \in 1..Len(s) : s[i] = t[i]
<1>1. SUFFICES ASSUME Len(s) <= Len(t)
               PROVE  SubSeq(s, 1, Len(s)) = SubSeq(t, 1, Len(s)) <=> \A i \in 1..Len(s) : s[i] = t[i]
  BY DEF IsPrefix
<1>2. PICK k, u : k = Len(s) /\ u = SubSeq(t, 1, k)
  OBVIOUS
<1>3. k \in Nat /\ SubSeq(s, 1, k) = s /\ s = [i \in 1..k |-> s[i]]
  BY <1>2, SubSeqFull
<1>4. u = [i \in 1..k |-> t[i]]
  <2>1. u \in Seq(S) /\ Len(u) = k /\ \A i \in 1..k : u[i] = t[i]
    BY <1>1, <1>2, <1>3
  <2>2. u = [i \in 1..k |-> u[i]]
    BY <2>1
  <2> QED BY <2>1, <2>2
<1>5. SubSeq(s, 1, Len(s)) = SubSeq(t, 1, Len(s)) <=> s = u
  BY <1>2, <1>3, Zenon
<1>6. s = u <=> \A i \in 1..k : s[i] = t[i]
  BY <1>3, <1>4
<1> QED BY <1>2, <1>5, <1>6

LEMMA PrefixOfItself ==
  ASSUME NEW S, NEW s \in Seq(S)
  PROVE  IsPrefix(s, s)
BY PrefixIs

LEMMA PrefixOfPrefix ==
  ASSUME NEW S, NEW s \in Seq(S), NEW t \in Seq(S), NEW u \in Seq(S), IsPrefix(s, t), IsPrefix(t, u)
  PROVE  IsPrefix(s, u)
<1>1. PICK k, l, n : k = Len(s) /\ l = Len(t) /\ n = Len(u)
  OBVIOUS
<1>2. /\ k \in Nat /\ l \in Nat /\ n \in Nat /\ k <= l /\ l <= n
      /\ (\A i \in 1..k : s[i] = t[i]) /\ \A i \in 1..l : t[i] = u[i]
  BY <1>1, PrefixIs
<1>3. k <= n /\ \A i \in 1..k : s[i] = u[i]
  BY <1>2
<1>4. IsPrefix(s, u) <=> Len(s) <= Len(u) /\ \A i \in 1..Len(s) : s[i] = u[i]
  BY PrefixIs
<1> QED BY <1>1, <1>3, <1>4

LEMMA PrefixOfMore ==
  ASSUME NEW S, NEW s \in Seq(S), NEW t \in Seq(S)
  PROVE  s \o t \in Seq(S) /\ IsPrefix(s, s \o t)
<1>1. PICK u : u = s \o t
  OBVIOUS
<1>2. u \in Seq(S) /\ Len(s) <= Len(u) /\ \A i \in 1..Len(s) : s[i] = u[i]
  BY <1>1
<1>3. IsPrefix(s, u) <=> Len(s) <= Len(u) /\ \A i \in 1..Len(s) : s[i] = u[i]
  BY <1>2, PrefixIs
<1> QED BY <1>1, <1>2, <1>3

LEMMA PrefixOfNothing ==
  ASSUME NEW S, NEW t \in Seq(S)
  PROVE  <<>> \in Seq(S) /\ IsPrefix(<<>>, t)
<1>1. PICK s : s = <<>>
  OBVIOUS
<1>2. s \in Seq(S) /\ Len(s) = 0 /\ Len(t) \in Nat
  BY <1>1
<1>3. SubSeq(s, 1, Len(s)) = <<>> /\ SubSeq(t, 1, Len(s)) = <<>>
  BY <1>2, SubSeqEmpty
<1> QED BY <1>1, <1>2, <1>3 DEF IsPrefix

\* Stretches of sequences.
LEMMA StretchOfBoth ==
  ASSUME NEW S, NEW u \in Seq(S), NEW v \in Seq(S)
  PROVE  /\ IsStretch(v, u \o v)
         /\ \A s \in Seq(S) : IsStretch(s, u) => IsStretch(s, u \o v)
<1>1. PICK w, k, l : w = u \o v /\ k = Len(u) /\ l = Len(v)
  OBVIOUS
<1>2. /\ k \in Nat /\ l \in Nat /\ Len(w) = k + l /\ DOMAIN v = 1..l
      /\ (\A i \in 1..k : w[i] = u[i]) /\ \A i \in 1..l : w[k + i] = v[i]
  BY <1>1
<1>3. IsStretch(v, w)
  <2>1. k \in 0..(Len(w) - Len(v)) /\ \A i \in DOMAIN v : v[i] = w[k + i]
    BY <1>1, <1>2
  <2> QED BY <2>1 DEF IsStretch
<1>4. ASSUME NEW s \in Seq(S), IsStretch(s, u) PROVE IsStretch(s, w)
  <2>1. PICK n \in 0..(k - Len(s)) : \A i \in DOMAIN s : s[i] = u[n + i]
    BY <1>1, <1>4 DEF IsStretch
  <2>2. Len(s) \in Nat /\ DOMAIN s = 1..Len(s)
    OBVIOUS
  <2>3. n \in 0..(Len(w) - Len(s)) /\ \A i \in DOMAIN s : n + i \in 1..k
    BY <1>2, <2>1, <2>2
  <2>4. \A i \in DOMAIN s : s[i] = w[n + i]
    BY <1>2, <2>1, <2>3
  <2> QED BY <2>3, <2>4 DEF IsStretch
<1> QED BY <1>1, <1>3, <1>4

LEMMA StretchOfPrefix ==
  ASSUME NEW S, NEW s \in Seq(S), NEW t \in Seq(S), NEW u \in Seq(S), IsPrefix(s, t), IsStretch(t, u)
  PROVE  IsStretch(s, u)
<1>1. PICK k, l, m : k = Len(s) /\ l = Len(t) /\ m = Len(u)
  OBVIOUS
<1>2. /\ k \in Nat /\ l \in Nat /\ m \in Nat /\ k <= l /\ \A i \in 1..k : s[i] = t[i]
      /\ DOMAIN s = 1..k /\ DOMAIN t = 1..l
  BY <1>1, PrefixIs
<1>3. PICK n \in 0..(m - l) : \A i \in 1..l : t[i] = u[n + i]
  BY <1>1, <1>2 DEF IsStretch
<1>4. n \in 0..(m - k) /\ \A i \in 1..k : i \in 1..l /\ s[i] = u[n + i]
  BY <1>2, <1>3
<1> QED BY <1>1, <1>2, <1>4 DEF IsStretch

LEMMA AllButLast ==
  ASSUME NEW S, NEW s \in Seq(S), NEW e \in S
  PROVE  SubSeq(Append(s, e), 1, Len(Append(s, e)) - 1) = s
<1>1. PICK t, l : t = Append(s, e) /\ l = Len(s)
  OBVIOUS
<1>2. t \in Seq(S) /\ Len(t) = l + 1 /\ (l + 1) - 1 = l /\ l \in Nat /\ \A i \in 1..l : t[i] = s[i]
  BY <1>1
<1>3. PICK u : u = SubSeq(t, 1, l)
  OBVIOUS
<1>4. u \in Seq(S) /\ Len(u) = l /\ \A i \in 1..l : u[i] = s[i]
  BY <1>2, <1>3
<1>5. u = s
  BY <1>1, <1>4, SeqEqual
<1> QED BY <1>1, <1>2, <1>3, <1>5

\* What every beginning keeps when one element more is appended is kept by all.
LEMMA SequencesIn ==
  ASSUME NEW S, NEW T, <<>> \in T, \A s \in Seq(S), c \in S : s \in T => Append(s, c) \in T
  PROVE  \A s \in Seq(S) : s \in T
<1> DEFINE Good == {n \in Nat : \A s \in Seq(S) : Len(s) = n => s \in T}
<1>1. 0 \in Good
  <2>1. \A s \in Seq(S) : Len(s) = 0 => s = <<>>
    OBVIOUS
  <2> QED BY <2>1
<1>2. ASSUME NEW n \in Nat, n \in Good PROVE n + 1 \in Good
  <2>1. SUFFICES ASSUME NEW s \in Seq(S), Len(s) = n + 1 PROVE s \in T
    OBVIOUS
  <2>2. s # <<>>
    BY <2>1
  <2>3. PICK r \in Seq(S), c \in S : s = Append(r, c)
    BY <2>2, SequenceEmptyOrAppend
  <2>4. Len(r) = n
    <3>1. Len(s) = Len(r) + 1 /\ Len(r) \in Nat
      BY <2>3
    <3> QED BY <2>1, <3>1
  <2>5. r \in T
    BY <1>2, <2>4
  <2> QED BY <2>3, <2>5
<1> HIDE DEF Good
<1>3. \A n \in Nat : n \in Good
  BY <1>1, <1>2, NaturalsIn
<1>4. \A s \in Seq(S) : Len(s) \in Nat
  OBVIOUS
<1> QED BY <1>3, <1>4 DEF Good

-----------------------------------------------------------------------------
(* Chunks behind chunks.                                                   *)

LEMMA UsageTyped == Usage \in Chunks
BY ChunkTypes DEF Chunks

LEMMA AnyPicked ==
  ASSUME NEW C \in Seq(Chunks), NEW x
  PROVE  PiecesIn(C, x) \in Seq(Nat) /\ EndsIn(C) \in Seq(Ends)
BY UsageTyped, ChunksGrow

LEMMA ChunksJoin ==
  ASSUME NEW C \in Seq(Chunks), NEW X \in Seq(Chunks)
  PROVE  /\ C \o X \in Seq(Chunks) /\ EndsIn(C \o X) = EndsIn(C) \o EndsIn(X)
         /\ \A i : PiecesIn(C \o X, i) = PiecesIn(C, i) \o PiecesIn(X, i)
<1> DEFINE T == {s \in Seq(Chunks) : /\ EndsIn(C \o s) = EndsIn(C) \o EndsIn(s)
                                     /\ \A i : PiecesIn(C \o s, i) = PiecesIn(C, i) \o PiecesIn(s, i)}
<1>1. <<>> \in T
  <2>1. C \o <<>> = C /\ <<>> \in Seq(Chunks)
    OBVIOUS
  <2>2. EndsIn(C) \o <<>> = EndsIn(C)
    BY <2>1, AnyPicked, NothingBehind
  <2>3. ASSUME NEW i PROVE PiecesIn(C, i) \o <<>> = PiecesIn(C, i)
    BY <2>1, AnyPicked, NothingBehind
  <2> QED BY <2>1, <2>2, <2>3, PickedFromNothing
<1>2. ASSUME NEW s \in Seq(Chunks), NEW c \in Chunks, s \in T PROVE Append(s, c) \in T
  <2>1. PICK t : t = Append(s, c)
    OBVIOUS
  <2>2. t \in Seq(Chunks) /\ C \o s \in Seq(Chunks) /\ C \o t = Append(C \o s, c)
    BY <2>1, BehindChunks
  <2>3. EndsIn(C \o t) = EndsIn(C) \o EndsIn(t)
    <3>1. PICK e, f, d : e = EndsIn(C) /\ f = EndsIn(s) /\ d = IF c.type = "block-end" THEN <<c>> ELSE <<>>
      OBVIOUS
    <3>2. e \in Seq(Ends) /\ f \in Seq(Ends) /\ d \in Seq(Ends)
      <4>1. c.type = "block-end" => c \in Ends
        BY DEF Chunks, Content, Starts, Deltas, Ends, Usages, Finishes
      <4>2. (c \in Ends => <<c>> \in Seq(Ends)) /\ <<>> \in Seq(Ends)
        OBVIOUS
      <4> QED BY <3>1, <4>1, <4>2, ChunksGrow
    <3>3. EndsIn(C \o t) = (e \o f) \o d /\ EndsIn(t) = f \o d
      <4>1. EndsIn(C \o s) = e \o f
        BY <1>2, <3>1
      <4> QED BY <2>1, <2>2, <3>1, <4>1, ChunksGrow
    <3>4. (e \o f) \o d = e \o (f \o d)
      BY <3>2, ConcatAssociative
    <3> QED BY <3>1, <3>3, <3>4, Zenon
  <2>4. ASSUME NEW i PROVE PiecesIn(C \o t, i) = PiecesIn(C, i) \o PiecesIn(t, i)
    <3>1. PICK e, f, d : /\ e = PiecesIn(C, i) /\ f = PiecesIn(s, i)
                         /\ d = IF c.type = "delta" /\ c.index = i THEN <<c.piece>> ELSE <<>>
      OBVIOUS
    <3>2. e \in Seq(Nat) /\ f \in Seq(Nat) /\ d \in Seq(Nat)
      <4>1. c.type = "delta" => c.piece \in Nat
        BY DEF Chunks, Content, Starts, Deltas, Ends, Usages, Finishes
      <4>2. (c.piece \in Nat => <<c.piece>> \in Seq(Nat)) /\ <<>> \in Seq(Nat)
        OBVIOUS
      <4> QED BY <3>1, <4>1, <4>2, ChunksGrow
    <3>3. PiecesIn(C \o t, i) = (e \o f) \o d /\ PiecesIn(t, i) = f \o d
      <4>1. PiecesIn(C \o s, i) = e \o f
        BY <1>2, <3>1
      <4>2. PiecesIn(Append(C \o s, c), i) = PiecesIn(C \o s, i) \o d /\ PiecesIn(Append(s, c), i) = f \o d
        BY <2>2, <3>1, ChunkForBlock, Zenon
      <4> QED BY <2>1, <2>2, <4>1, <4>2, Zenon
    <3>4. (e \o f) \o d = e \o (f \o d)
      BY <3>2, ConcatAssociative, SMTT(40)
    <3> QED BY <3>1, <3>3, <3>4, Zenon
  <2> QED BY <2>1, <2>2, <2>3, <2>4
<1> HIDE DEF T
<1>3. X \in T
  BY <1>1, <1>2, SequencesIn
<1>4. C \o X \in Seq(Chunks)
  OBVIOUS
<1> QED BY <1>3, <1>4 DEF T

LEMMA NoPieces ==
  ASSUME NEW C \in Seq(Chunks), NEW x, \A k \in DOMAIN C : C[k].type = "delta" => C[k].index # x
  PROVE  PiecesIn(C, x) = <<>>
<1> DEFINE T == {s \in Seq(Chunks) :
                  (\A k \in DOMAIN s : s[k].type = "delta" => s[k].index # x) => PiecesIn(s, x) = <<>>}
<1>1. <<>> \in T
  <2>1. <<>> \in Seq(Chunks)
    OBVIOUS
  <2> QED BY <2>1, PickedFromNothing
<1>2. ASSUME NEW s \in Seq(Chunks), NEW c \in Chunks, s \in T PROVE Append(s, c) \in T
  <2>1. PICK t, l : t = Append(s, c) /\ l = Len(s)
    OBVIOUS
  <2>2. /\ t \in Seq(Chunks) /\ DOMAIN t = 1..(l + 1) /\ DOMAIN s = 1..l /\ l \in Nat /\ t[l + 1] = c
        /\ \A k \in 1..l : t[k] = s[k] /\ k \in 1..(l + 1)
    BY <2>1
  <2>3. SUFFICES ASSUME \A k \in DOMAIN t : t[k].type = "delta" => t[k].index # x PROVE PiecesIn(t, x) = <<>>
    BY <2>1, <2>2
  <2>4. \A k \in DOMAIN s : s[k].type = "delta" => s[k].index # x
    BY <2>2, <2>3
  <2>5. ~(c.type = "delta" /\ c.index = x)
    <3>1. l + 1 \in DOMAIN t
      BY <2>2
    <3> QED BY <2>2, <2>3, <3>1
  <2>6. PiecesIn(s, x) = <<>>
    BY <1>2, <2>4
  <2> QED BY <2>1, <2>5, <2>6, ChunkForBlock
<1> HIDE DEF T
<1>3. C \in T
  BY <1>1, <1>2, SequencesIn
<1> QED BY <1>3 DEF T

\* Chunks that are all ends are the ends among them, and the others have none.
LEMMA EndsAmong ==
  ASSUME NEW C \in Seq(Chunks)
  PROVE  /\ (\A k \in DOMAIN C : C[k].type = "block-end") => EndsIn(C) = C
         /\ (\A k \in DOMAIN C : C[k].type # "block-end") => EndsIn(C) = <<>>
<1> DEFINE T == {s \in Seq(Chunks) :
                  /\ (\A k \in DOMAIN s : s[k].type = "block-end") => EndsIn(s) = s
                  /\ (\A k \in DOMAIN s : s[k].type # "block-end") => EndsIn(s) = <<>>}
<1>1. <<>> \in T
  <2>1. <<>> \in Seq(Chunks)
    OBVIOUS
  <2> QED BY <2>1, PickedFromNothing
<1>2. ASSUME NEW s \in Seq(Chunks), NEW c \in Chunks, s \in T PROVE Append(s, c) \in T
  <2>1. PICK t, l : t = Append(s, c) /\ l = Len(s)
    OBVIOUS
  <2>2. /\ t \in Seq(Chunks) /\ DOMAIN t = 1..(l + 1) /\ DOMAIN s = 1..l /\ l \in Nat /\ t[l + 1] = c
        /\ (\A k \in 1..l : t[k] = s[k] /\ k \in 1..(l + 1)) /\ l + 1 \in 1..(l + 1)
    BY <2>1
  <2>3. ASSUME \A k \in DOMAIN t : t[k].type = "block-end" PROVE EndsIn(t) = t
    <3>1. (\A k \in DOMAIN s : s[k].type = "block-end") /\ c.type = "block-end"
      BY <2>2, <2>3
    <3>2. EndsIn(s) = s
      BY <1>2, <3>1
    <3>3. s \o <<c>> = t
      BY <2>1
    <3> QED BY <2>1, <3>1, <3>2, <3>3, ChunksGrow
  <2>4. ASSUME \A k \in DOMAIN t : t[k].type # "block-end" PROVE EndsIn(t) = <<>>
    <3>1. (\A k \in DOMAIN s : s[k].type # "block-end") /\ c.type # "block-end"
      BY <2>2, <2>4
    <3>2. EndsIn(s) = <<>>
      BY <1>2, <3>1
    <3>3. EndsIn(t) = <<>> \o <<>>
      BY <2>1, <3>1, <3>2, ChunksGrow
    <3> QED BY <3>3
  <2> QED BY <2>1, <2>2, <2>3, <2>4
<1> HIDE DEF T
<1>3. C \in T
  BY <1>1, <1>2, SequencesIn
<1> QED BY <1>3 DEF T

-----------------------------------------------------------------------------
(* Beginnings of an answer, and whole answers.                             *)

LEMMA SomePiece == \E d : d \in Pieces
<1>1. "" \in Names /\ "tool-call" \in {"tool-call"}
  BY DEF Names
<1>2. [kind |-> "tool-call", index |-> 0, piece |-> 0, id |-> ""]
        \in [kind : {"tool-call"}, index : Nat, piece : Nat, id : Names]
  BY <1>1
<1> QED BY <1>2 DEF Pieces

LEMMA NothingIsText == <<>> \in Seq(Nat)
OBVIOUS

LEMMA BlockText ==
  ASSUME NEW m \in Seq(BlockType), NEW i \in DOMAIN m
  PROVE  m[i].kind \in Kinds /\ m[i].buf \in Seq(Nat)
<1>1. PICK b : b = m[i]
  OBVIOUS
<1>2. b \in BlockType
  BY <1>1
<1> QED BY <1>1, <1>2 DEF BlockType

LEMMA BeginningStays ==
  ASSUME NEW m \in Seq(BlockType), NEW D \in Seq(Pieces), NEW d \in Pieces, IsBeginning(m, D)
  PROVE  IsBeginning(m, Append(D, d))
<1>1. PICK E : E = Append(D, d)
  OBVIOUS
<1>2. \A x : SentTo(D, x) \in Seq(Nat) /\ SentTo(E, x) \in Seq(Nat) /\ IsPrefix(SentTo(D, x), SentTo(E, x))
  <2>1. ASSUME NEW x
        PROVE  /\ SentTo(D, x) \in Seq(Nat) /\ SentTo(E, x) \in Seq(Nat)
               /\ IsPrefix(SentTo(D, x), SentTo(E, x))
    <3>1. PICK u : u = IF d.index = x THEN <<d.piece>> ELSE <<>>
      OBVIOUS
    <3>2. u \in Seq(Nat)
      <4>1. <<d.piece>> \in Seq(Nat) /\ <<>> \in Seq(Nat)
        BY NothingIsText, PieceTypes, Zenon
      <4> QED BY <3>1, <4>1
    <3>3. SentTo(D, x) \in Seq(Nat) /\ SentTo(E, x) = SentTo(D, x) \o u
      BY <1>1, <3>1, SentToGrows
    <3> QED BY <3>2, <3>3, PrefixOfMore
  <2> QED BY <2>1
<1>3. \A kind : \A s \in Seq(Nat) : IsStretch(s, SentAs(D, kind)) => IsStretch(s, SentAs(E, kind))
  <2>1. ASSUME NEW kind, NEW s \in Seq(Nat), IsStretch(s, SentAs(D, kind))
        PROVE  IsStretch(s, SentAs(E, kind))
    <3>1. PICK u : u = IF d.kind = kind THEN <<d.piece>> ELSE <<>>
      OBVIOUS
    <3>2. u \in Seq(Nat)
      <4>1. <<d.piece>> \in Seq(Nat) /\ <<>> \in Seq(Nat)
        BY NothingIsText, PieceTypes, Zenon
      <4> QED BY <3>1, <4>1
    <3>3. SentAs(D, kind) \in Seq(Nat) /\ SentAs(E, kind) = SentAs(D, kind) \o u
      BY <1>1, <3>1, SentAsGrows
    <3>4. PICK t : t = SentAs(D, kind)
      OBVIOUS
    <3>5. IsStretch(s, t \o u)
      BY <2>1, <3>2, <3>3, <3>4, StretchOfBoth
    <3> QED BY <3>3, <3>4, <3>5
  <2> QED BY <2>1
<1>4. CallIndexes(D) \subseteq CallIndexes(E)
  BY <1>1, IndexesGrow
<1>5. ASSUME NEW i \in DOMAIN m
      PROVE  IF m[i].kind = "tool-call"
             THEN \E x \in CallIndexes(E) : IsPrefix(m[i].buf, SentTo(E, x))
             ELSE IsStretch(m[i].buf, SentAs(E, m[i].kind))
  <2>1. m[i].buf \in Seq(Nat)
    BY BlockText
  <2>2. CASE m[i].kind = "tool-call"
    <3>1. PICK x \in CallIndexes(D) : IsPrefix(m[i].buf, SentTo(D, x))
      BY <2>2 DEF IsBeginning
    <3>2. IsPrefix(m[i].buf, SentTo(E, x)) /\ x \in CallIndexes(E)
      BY <1>2, <1>4, <2>1, <3>1, PrefixOfPrefix
    <3> QED BY <2>2, <3>2
  <2>3. CASE m[i].kind # "tool-call"
    BY <1>3, <2>1, <2>3 DEF IsBeginning
  <2> QED BY <2>2, <2>3
<1> QED BY <1>1, <1>5 DEF IsBeginning

LEMMA BeginningStaysBehind ==
  ASSUME NEW m \in Seq(BlockType), NEW D \in Seq(Pieces), IsBeginning(m, D), NEW X \in Seq(Pieces)
  PROVE  IsBeginning(m, D \o X)
<1> DEFINE T == {s \in Seq(Pieces) : IsBeginning(m, D \o s)}
<1>1. <<>> \in T
  <2>1. D \o <<>> = D /\ <<>> \in Seq(Pieces)
    OBVIOUS
  <2> QED BY <2>1
<1>2. ASSUME NEW s \in Seq(Pieces), NEW d \in Pieces, s \in T PROVE Append(s, d) \in T
  <2>1. D \o Append(s, d) = Append(D \o s, d) /\ D \o s \in Seq(Pieces) /\ Append(s, d) \in Seq(Pieces)
    OBVIOUS
  <2>2. IsBeginning(m, Append(D \o s, d))
    BY <1>2, <2>1, BeginningStays
  <2> QED BY <2>1, <2>2
<1> HIDE DEF T
<1>3. X \in T
  BY <1>1, <1>2, SequencesIn
<1> QED BY <1>3 DEF T

\* Beginnings of beginnings.
LEMMA BeginningOfParts ==
  ASSUME NEW m \in Seq(BlockType), NEW D \in Seq(Pieces), IsBeginning(m, D), NEW t \in Seq(BlockType),
         \A i \in DOMAIN t : \E j \in DOMAIN m : t[i].kind = m[j].kind /\ IsPrefix(t[i].buf, m[j].buf)
  PROVE  IsBeginning(t, D)
<1>1. \A x : SentTo(D, x) \in Seq(Nat) /\ SentAs(D, x) \in Seq(Nat)
  BY SomePiece, SentToGrows, SentAsGrows
<1>2. ASSUME NEW i \in DOMAIN t
      PROVE  IF t[i].kind = "tool-call"
             THEN \E x \in CallIndexes(D) : IsPrefix(t[i].buf, SentTo(D, x))
             ELSE IsStretch(t[i].buf, SentAs(D, t[i].kind))
  <2>1. PICK j \in DOMAIN m : t[i].kind = m[j].kind /\ IsPrefix(t[i].buf, m[j].buf)
    OBVIOUS
  <2>2. t[i].buf \in Seq(Nat) /\ m[j].buf \in Seq(Nat)
    BY BlockText
  <2>3. CASE t[i].kind = "tool-call"
    <3>1. PICK x \in CallIndexes(D) : IsPrefix(m[j].buf, SentTo(D, x))
      BY <2>1, <2>3 DEF IsBeginning
    <3>2. IsPrefix(t[i].buf, SentTo(D, x))
      BY <1>1, <2>1, <2>2, <3>1, PrefixOfPrefix
    <3> QED BY <2>3, <3>2
  <2>4. CASE t[i].kind # "tool-call"
    <3>1. PICK u : u = SentAs(D, m[j].kind)
      OBVIOUS
    <3>2. IsStretch(m[j].buf, u)
      BY <2>1, <2>4, <3>1 DEF IsBeginning
    <3>3. IsStretch(t[i].buf, u)
      BY <1>1, <2>1, <2>2, <3>1, <3>2, StretchOfPrefix
    <3> QED BY <2>1, <2>4, <3>1, <3>3
  <2> QED BY <2>3, <2>4
<1> QED BY <1>2 DEF IsBeginning

\* The text of a block is a stretch of the text of its kind.
LEMMA BlockInText ==
  ASSUME NEW m \in Seq(BlockType), NEW i \in DOMAIN m
  PROVE  IsStretch(m[i].buf, TextOf(m, m[i].kind))
<1> DEFINE T == {s \in Seq(BlockType) :
                   \A j \in DOMAIN s : IsStretch(s[j].buf, TextOf(s, s[j].kind))}
<1>1. <<>> \in T
  OBVIOUS
<1>2. ASSUME NEW s \in Seq(BlockType), NEW b \in BlockType, s \in T PROVE Append(s, b) \in T
  <2>1. PICK t, l : t = Append(s, b) /\ l = Len(s)
    OBVIOUS
  <2>2. /\ t \in Seq(BlockType) /\ DOMAIN t = 1..(l + 1) /\ DOMAIN s = 1..l /\ l \in Nat /\ t[l + 1] = b
        /\ \A k \in 1..l : t[k] = s[k]
    BY <2>1
  <2>3. ASSUME NEW j \in DOMAIN t PROVE IsStretch(t[j].buf, TextOf(t, t[j].kind))
    <3>1. PICK kind, u, v, w : /\ kind = t[j].kind /\ u = TextOf(s, kind) /\ w = TextOf(t, kind)
                               /\ v = IF b.kind = kind THEN b.buf ELSE <<>>
      OBVIOUS
    <3>2. u \in Seq(Nat) /\ w = u \o v
      BY <2>1, <3>1, TextGrows
    <3>3. v \in Seq(Nat)
      <4>1. b.buf \in Seq(Nat) /\ <<>> \in Seq(Nat)
        BY DEF BlockType
      <4> QED BY <3>1, <4>1
    <3>4. IsStretch(v, w) /\ \A e \in Seq(Nat) : IsStretch(e, u) => IsStretch(e, w)
      BY <3>2, <3>3, StretchOfBoth
    <3>5. CASE j = l + 1
      BY <2>2, <3>1, <3>4, <3>5
    <3>6. CASE j # l + 1
      <4>1. j \in DOMAIN s /\ t[j] = s[j]
        BY <2>2, <3>6
      <4>2. IsStretch(s[j].buf, TextOf(s, s[j].kind)) /\ s[j].buf \in Seq(Nat)
        BY <1>2, <4>1, BlockText
      <4> QED BY <3>1, <3>4, <4>1, <4>2
    <3> QED BY <3>5, <3>6
  <2> QED BY <2>1, <2>2, <2>3
<1> HIDE DEF T
<1>3. m \in T
  BY <1>1, <1>2, SequencesIn
<1> QED BY <1>3 DEF T

LEMMA WrittenBegins ==
  ASSUME NEW tr, TransOK(tr), NEW D \in Seq(Pieces), NEW n, Written(tr, D, n)
  PROVE  IsBeginning(tr.blocks, D)
<1>1. PICK m : m = tr.blocks
  OBVIOUS
<1>2. m \in Seq(BlockType)
  BY <1>1 DEF TransOK, Translations
<1>3. ASSUME NEW i \in DOMAIN m
      PROVE  IF m[i].kind = "tool-call"
             THEN \E x \in CallIndexes(D) : IsPrefix(m[i].buf, SentTo(D, x))
             ELSE IsStretch(m[i].buf, SentAs(D, m[i].kind))
  <2>1. m[i].buf \in Seq(Nat) /\ m[i].kind \in Kinds
    BY <1>2, BlockText
  <2>2. CASE m[i].kind = "tool-call"
    <3>1. tr.wires[i] \in CallIndexes(D) /\ m[i] = SentCall(D, tr.wires[i])
      BY <1>1, <2>2 DEF Written, CallsWritten
    <3>2. m[i].buf = SentTo(D, tr.wires[i])
      <4>1. SentCall(D, tr.wires[i]).buf = SentTo(D, tr.wires[i])
        BY DEF SentCall, Block
      <4> QED BY <3>1, <4>1, Zenon
    <3>3. IsPrefix(m[i].buf, m[i].buf)
      BY <2>1, PrefixOfItself
    <3> QED BY <2>2, <3>1, <3>2, <3>3
  <2>3. CASE m[i].kind # "tool-call"
    <3>1. TextOf(m, m[i].kind) = SentAs(D, m[i].kind)
      BY <1>1, <2>1, <2>3 DEF Written, TextWritten, Kinds
    <3> QED BY <1>2, <2>3, <3>1, BlockInText
  <2> QED BY <2>2, <2>3
<1> QED BY <1>1, <1>3 DEF IsBeginning

LEMMA WrittenIsWhole ==
  ASSUME NEW tr, TransOK(tr), NEW D \in Seq(Pieces), NEW n, Written(tr, D, n)
  PROVE  IsWhole(tr.blocks, D)
<1>1. PICK m, w, S, X : /\ m = tr.blocks /\ w = tr.wires /\ X = CallIndexes(D)
                        /\ S = {i \in DOMAIN m : m[i].kind = "tool-call"}
  OBVIOUS
<1>2. /\ m \in Seq(BlockType) /\ w \in Seq(Int) /\ Len(w) = Len(m)
      /\ DOMAIN m = 1..Len(m) /\ DOMAIN w = DOMAIN m /\ Len(m) \in Nat /\ X \subseteq Nat
  <2>1. m \in Seq(BlockType) /\ w \in Seq(Int) /\ Len(w) = Len(m)
    BY <1>1 DEF TransOK, Translations
  <2>2. X \subseteq Nat
    BY <1>1, SomePiece, IndexesGrow
  <2> QED BY <2>1, <2>2
<1>3. /\ \A i \in DOMAIN m : IF m[i].kind = "tool-call"
                             THEN w[i] \in X /\ m[i] = SentCall(D, w[i]) ELSE w[i] = -1
      /\ \A i, j \in DOMAIN m : m[i].kind = "tool-call" /\ w[i] = w[j] => i = j
      /\ X \subseteq Range(w)
  BY <1>1, Zenon DEF Written, CallsWritten
<1>4. ASSUME NEW x \in X PROVE \E i \in S : w[i] = x
  <2>1. PICK i \in DOMAIN w : w[i] = x
    BY <1>3 DEF Range
  <2>2. i \in DOMAIN m /\ x \in Nat
    BY <1>2
  <2>3. x # -1
    BY <2>2
  <2>4. i \in S
    BY <1>1, <1>3, <2>1, <2>2, <2>3
  <2> QED BY <2>1, <2>4
<1>5. {m[i] : i \in {j \in DOMAIN m : m[j].kind = "tool-call"}} = {SentCall(D, x) : x \in X}
  <2>1. \A i \in S : w[i] \in X /\ m[i] = SentCall(D, w[i])
    BY <1>1, <1>3
  <2>2. {m[i] : i \in S} = {SentCall(D, x) : x \in X}
    BY <1>4, <2>1
  <2> QED BY <1>1, <2>2
<1>6. Cardinality(S) = Cardinality(X)
  <2>1. IsFiniteSet(1..Len(m)) /\ S \in SUBSET (1..Len(m))
    BY <1>1, <1>2, FS_Interval
  <2>2. IsFiniteSet(S)
    BY <2>1, FS_Subset
  <2> DEFINE f == [i \in S |-> w[i]]
  <2>3. f \in [S -> X]
    BY <1>1, <1>3
  <2>4. \A i, j \in S : f[i] = f[j] => i = j
    BY <1>1, <1>3
  <2>5. \A x \in X : \E i \in S : f[i] = x
    BY <1>4
  <2>6. f \in Bijection(S, X)
    BY <2>3, <2>4, <2>5 DEF Bijection, Injection, Surjection, IsInjective
  <2>7. ExistsBijection(S, X)
    BY <2>6 DEF ExistsBijection
  <2> QED BY <2>2, <2>7, FS_Bijection
<1>7. \A kind \in {"text", "reasoning"} : TextOf(m, kind) = SentAs(D, kind)
  BY <1>1 DEF Written, TextWritten
<1>8. \A i, j \in DOMAIN m : i < j => m[i].buf[1] <= m[j].buf[1]
  BY <1>1 DEF Written, InOrder
<1> QED BY <1>1, <1>5, <1>6, <1>7, <1>8 DEF IsWhole

-----------------------------------------------------------------------------
(* Chunks that say part of the blocks.                                     *)

EndsTyped(m) == EndsOf(m) \in Seq(Ends) /\ EndsOf(m) \in Seq(Chunks) /\ Len(EndsOf(m)) = Len(m)

LEMMA EndsOfTyped ==
  ASSUME NEW m \in Seq(BlockType)
  PROVE  /\ EndsTyped(m) /\ DOMAIN EndsOf(m) = DOMAIN m
         /\ \A i \in DOMAIN m : EndsOf(m)[i] = End(i, m[i])
<1>1. PICK e, l : e = EndsOf(m) /\ l = Len(m)
  OBVIOUS
<1>2. l \in Nat /\ DOMAIN m = 1..l /\ e = [i \in 1..l |-> End(i, m[i])]
  BY <1>1 DEF EndsOf
<1>3. \A i \in 1..l : End(i, m[i]) \in Ends
  <2>1. ASSUME NEW i \in 1..l PROVE End(i, m[i]) \in Ends
    <3>1. PICK b : b = m[i]
      OBVIOUS
    <3>2. i \in Nat /\ b \in BlockType
      BY <1>2, <3>1
    <3> QED BY <3>1, <3>2 DEF End, Ends
  <2> QED BY <2>1
<1>4. Ends \subseteq Chunks
  BY DEF Chunks, Content
<1>5. e \in [1..l -> Ends] /\ e \in [1..l -> Chunks]
  BY <1>2, <1>3, <1>4
<1>6. e \in Seq(Ends) /\ e \in Seq(Chunks) /\ Len(e) = l
  BY <1>2, <1>5, MapTyped
<1> QED BY <1>1, <1>2, <1>6 DEF EndsTyped

LEMMA BeginsJoin ==
  ASSUME NEW C \in Seq(Chunks), NEW X \in Seq(Chunks), NEW m
  PROVE  /\ Begins(C \o X, m) => Begins(C, m)
         /\ Begins(C, m) /\ (\A k \in DOMAIN X : X[k].type # "block-start") => Begins(C \o X, m)
<1>1. PICK E, k, l : E = C \o X /\ k = Len(C) /\ l = Len(X)
  OBVIOUS
<1>2. /\ k \in Nat /\ l \in Nat /\ DOMAIN C = 1..k /\ DOMAIN X = 1..l /\ DOMAIN E = 1..(k + l)
      /\ \A i \in 1..(k + l) : IF i <= k THEN i \in 1..k /\ E[i] = C[i] ELSE i - k \in 1..l /\ E[i] = X[i - k]
      /\ \A i \in 1..k : i \in 1..(k + l) /\ E[i] = C[i] /\ \A j \in 1..(i - 1) : E[j] = C[j] /\ j \in 1..k
  BY <1>1
<1>3. ASSUME Begins(E, m) PROVE Begins(C, m)
  BY <1>2, <1>3 DEF Begins
<1>4. ASSUME Begins(C, m), \A i \in DOMAIN X : X[i].type # "block-start" PROVE Begins(E, m)
  <2>1. ASSUME NEW i \in DOMAIN E, E[i].type = "block-start"
        PROVE  i \in DOMAIN C /\ E[i] = C[i] /\ \A j \in 1..(i - 1) : E[j] = C[j]
    BY <1>2, <1>4, <2>1
  <2>2. ASSUME NEW i \in DOMAIN E, E[i].type = "block-start"
        PROVE  /\ E[i].index \in DOMAIN m /\ E[i].kind = m[E[i].index].kind
               /\ \A j \in 1..(i - 1) : /\ E[j].type \in {"block-start", "delta"}
                                        /\ E[j].index # E[i].index
    <3>1. i \in DOMAIN C /\ E[i] = C[i] /\ (\A j \in 1..(i - 1) : E[j] = C[j]) /\ C[i].type = "block-start"
      BY <2>1, <2>2
    <3>2. /\ C[i].index \in DOMAIN m /\ C[i].kind = m[C[i].index].kind
          /\ \A j \in 1..(i - 1) : C[j].type \in {"block-start", "delta"} /\ C[j].index # C[i].index
      BY <1>4, <3>1, Zenon DEF Begins
    <3> QED BY <3>1, <3>2
  <2> QED BY <2>2, Zenon DEF Begins
<1> QED BY <1>1, <1>3, <1>4

LEMMA PartlyShrinks ==
  ASSUME NEW C \in Seq(Chunks), NEW X \in Seq(Chunks), NEW m \in Seq(BlockType), Partly(C \o X, m)
  PROVE  Partly(C, m)
<1>1. Begins(C, m)
  BY BeginsJoin DEF Partly
<1>2. ASSUME NEW i \in DOMAIN m PROVE IsPrefix(PiecesIn(C, i), m[i].buf)
  <2>1. PICK u, v, b : u = PiecesIn(C, i) /\ v = PiecesIn(X, i) /\ b = m[i].buf
    OBVIOUS
  <2>2. u \in Seq(Nat) /\ v \in Seq(Nat) /\ b \in Seq(Nat)
    BY <2>1, AnyPicked, BlockText
  <2>3. PiecesIn(C \o X, i) = u \o v
    BY <2>1, ChunksJoin
  <2>4. IsPrefix(u \o v, b)
    BY <2>1, <2>3 DEF Partly
  <2>5. u \o v \in Seq(Nat) /\ IsPrefix(u, u \o v)
    BY <2>2, PrefixOfMore
  <2> QED BY <2>1, <2>2, <2>4, <2>5, PrefixOfPrefix
<1>3. IsPrefix(EndsIn(C), EndsOf(m))
  <2>1. PICK u, v, b : u = EndsIn(C) /\ v = EndsIn(X) /\ b = EndsOf(m)
    OBVIOUS
  <2>2. u \in Seq(Ends) /\ v \in Seq(Ends) /\ b \in Seq(Ends)
    BY <2>1, AnyPicked, EndsOfTyped DEF EndsTyped
  <2>3. EndsIn(C \o X) = u \o v
    BY <2>1, ChunksJoin
  <2>4. IsPrefix(u \o v, b)
    BY <2>1, <2>3 DEF Partly
  <2>5. u \o v \in Seq(Ends) /\ IsPrefix(u, u \o v)
    BY <2>2, PrefixOfMore
  <2> QED BY <2>1, <2>2, <2>4, <2>5, PrefixOfPrefix
<1> QED BY <1>1, <1>2, <1>3 DEF Partly

\* Usage and finish are part of every answer.
LEMMA PartlyClosed ==
  ASSUME NEW C \in Seq(Chunks), NEW m \in Seq(BlockType), Partly(C, m), NEW c \in Chunks,
         c.type \in {"usage", "finish"}
  PROVE  Partly(Append(C, c), m) /\ EndsIn(Append(C, c)) = EndsIn(C)
<1>1. PICK X : X = <<c>>
  OBVIOUS
<1>2. /\ X \in Seq(Chunks) /\ DOMAIN X = {1} /\ X[1] = c /\ C \o X = Append(C, c)
      /\ c.type # "block-start" /\ c.type # "delta" /\ c.type # "block-end"
  BY <1>1
<1>3. \A k \in DOMAIN X : X[k].type # "block-start" /\ X[k].type # "delta" /\ X[k].type # "block-end"
  BY <1>2
<1>4. Begins(C \o X, m)
  BY <1>2, <1>3, BeginsJoin DEF Partly
<1>5. EndsIn(C \o X) = EndsIn(C)
  <2>1. EndsIn(X) = <<>>
    BY <1>2, <1>3, EndsAmong
  <2>2. EndsIn(C \o X) = EndsIn(C) \o <<>>
    BY <1>2, <2>1, ChunksJoin
  <2>3. EndsIn(C) \in Seq(Ends)
    BY <1>2, AnyPicked
  <2> QED BY <2>2, <2>3, NothingBehind
<1>6. ASSUME NEW i PROVE PiecesIn(C \o X, i) = PiecesIn(C, i)
  <2>1. PiecesIn(X, i) = <<>>
    BY <1>2, <1>3, NoPieces
  <2>2. PiecesIn(C \o X, i) = PiecesIn(C, i) \o <<>>
    <3>1. PiecesIn(C \o X, i) = PiecesIn(C, i) \o PiecesIn(X, i)
      BY <1>2, ChunksJoin, Zenon
    <3> QED BY <2>1, <3>1, Zenon
  <2>3. PiecesIn(C, i) \in Seq(Nat)
    BY <1>2, AnyPicked
  <2> QED BY <2>2, <2>3, NothingBehind
<1> QED BY <1>2, <1>4, <1>5, <1>6 DEF Partly

LEMMA CarriesIsPart ==
  ASSUME NEW C \in Seq(Chunks), NEW m \in Seq(BlockType), Carries(C, m)
  PROVE  Partly(C, m) /\ EndsIn(C) = <<>>
<1>1. EndsIn(C) = <<>>
  <2>1. \A k \in DOMAIN C : C[k].type # "block-end"
    BY DEF Carries
  <2> QED BY <2>1, EndsAmong
<1>2. IsPrefix(EndsIn(C), EndsOf(m))
  BY <1>1, EndsOfTyped, PrefixOfNothing DEF EndsTyped
<1>3. ASSUME NEW i \in DOMAIN m PROVE IsPrefix(PiecesIn(C, i), m[i].buf)
  <2>1. PiecesIn(C, i) = m[i].buf /\ m[i].buf \in Seq(Nat)
    BY BlockText DEF Carries
  <2>2. IsPrefix(m[i].buf, m[i].buf)
    BY <2>1, PrefixOfItself
  <2> QED BY <2>1, <2>2, Zenon
<1> QED BY <1>1, <1>2, <1>3 DEF Carries, Partly

\* What finalize adds ends every block.
LEMMA FinalizeSays ==
  ASSUME NEW tr, TransOK(tr), NEW C \in Seq(Chunks), Carries(C, tr.blocks)
  PROVE  /\ finalize(tr) \in Seq(Chunks)
         /\ Partly(C \o finalize(tr), tr.blocks)
         /\ EndsIn(C \o finalize(tr)) = EndsOf(tr.blocks)
         /\ \A k \in DOMAIN finalize(tr) : finalize(tr)[k].type = "finish"
                                             => finalize(tr)[k].finish # "aborted"
<1>1. PICK m, E : m = tr.blocks /\ E = EndsOf(tr.blocks)
  OBVIOUS
<1>2. /\ m \in Seq(BlockType) /\ E \in Seq(Ends) /\ E \in Seq(Chunks) /\ DOMAIN E = DOMAIN m
      /\ \A i \in DOMAIN m : E[i] = End(i, m[i])
  <2>1. m \in Seq(BlockType)
    BY <1>1 DEF TransOK, Translations
  <2> QED BY <1>1, <2>1, EndsOfTyped DEF EndsTyped
<1>3. \A k \in DOMAIN E : E[k].type = "block-end"
  BY <1>2 DEF End
<1>4. C \o E \in Seq(Chunks) /\ Partly(C \o E, m) /\ EndsIn(C \o E) = E
  <2>1. Partly(C, m) /\ EndsIn(C) = <<>>
    BY <1>1, <1>2, CarriesIsPart
  <2>2. EndsIn(E) = E /\ \A i : PiecesIn(E, i) = <<>>
    BY <1>2, <1>3, EndsAmong, NoPieces
  <2>3. C \o E \in Seq(Chunks)
    BY <1>2
  <2>4. EndsIn(C \o E) = E
    <3>1. EndsIn(C \o E) = <<>> \o E
      BY <1>2, <2>1, <2>2, ChunksJoin
    <3> QED BY <1>2, <3>1
  <2>5. ASSUME NEW i PROVE PiecesIn(C \o E, i) = PiecesIn(C, i)
    <3>1. PiecesIn(C \o E, i) = PiecesIn(C, i) \o <<>>
      <4>1. PiecesIn(C \o E, i) = PiecesIn(C, i) \o PiecesIn(E, i)
        BY <1>2, ChunksJoin, Zenon
      <4> QED BY <2>2, <4>1, Zenon
    <3>2. PiecesIn(C, i) \in Seq(Nat)
      BY AnyPicked
    <3> QED BY <3>1, <3>2, NothingBehind
  <2>6. Begins(C \o E, m)
    <3>1. \A k \in DOMAIN E : E[k].type # "block-start"
      BY <1>3
    <3> QED BY <1>2, <2>1, <3>1, BeginsJoin DEF Partly
  <2>7. IsPrefix(E, E)
    BY <1>2, PrefixOfItself
  <2>8. EndsOf(m) = E
    BY <1>1
  <2>9. \A i \in DOMAIN m : IsPrefix(PiecesIn(C \o E, i), m[i].buf)
    BY <2>1, <2>5 DEF Partly
  <2> QED BY <2>3, <2>4, <2>6, <2>7, <2>8, <2>9, Zenon DEF Partly
<1>5. PICK f : f = IF tr.finish = "none" THEN "stop" ELSE tr.finish
  OBVIOUS
<1>6. PICK r : r = IF tr.blocks = <<>> /\ f = "stop" THEN "error" ELSE f
  OBVIOUS
<1>7. r \in Reasons /\ r # "aborted"
  <2>1. tr.finish \in (Reasons \ {"aborted"}) \cup {"none"}
    BY DEF TransOK, Translations
  <2> QED BY <1>5, <1>6, <2>1 DEF Reasons
<1>8. PICK U, c, u : U = (IF tr.usage THEN <<Usage>> ELSE <<>>) /\ c = Finish(r) /\ u = Usage
  OBVIOUS
<1>9. /\ c \in Chunks /\ c.type = "finish" /\ c.finish = r /\ u \in Chunks /\ u.type = "usage"
  BY <1>7, <1>8, ChunkTypes DEF Chunks, Finish, Usage
<1>10. finalize(tr) = E \o U \o <<c>>
  <2>1. finalize(tr) = EndsOf(tr.blocks) \o U \o <<c>>
    BY <1>5, <1>6, <1>8 DEF finalize, EndsOf
  <2> QED BY <1>1, <2>1
<1>11. /\ U \in Seq(Chunks) /\ (C \o E) \o U \in Seq(Chunks)
       /\ Partly((C \o E) \o U, m) /\ EndsIn((C \o E) \o U) = E
       /\ \A k \in DOMAIN (E \o U) : (E \o U)[k].type # "finish"
  <2>0. PICK B : B = C \o E
    OBVIOUS
  <2>1. CASE tr.usage
    <3>1. U = <<u>> /\ U \in Seq(Chunks) /\ B \o U = Append(B, u) /\ Append(B, u) \in Seq(Chunks)
      BY <1>4, <1>8, <1>9, <2>0, <2>1
    <3>2. Partly(Append(B, u), m) /\ EndsIn(Append(B, u)) = EndsIn(B)
      BY <1>2, <1>4, <1>9, <2>0, PartlyClosed
    <3>3. \A k \in DOMAIN (E \o U) : (E \o U)[k].type # "finish"
      <4>1. \A k \in DOMAIN E : E[k].type # "finish"
        BY <1>3
      <4>2. E \o U = Append(E, u) /\ u.type # "finish"
        BY <1>2, <1>9, <3>1
      <4>3. NoFinish(Append(E, u))
        BY <1>2, <1>9, <4>1, <4>2, FinishAppends DEF NoFinish
      <4> QED BY <4>2, <4>3 DEF NoFinish
    <3> QED BY <1>4, <2>0, <3>1, <3>2, <3>3
  <2>2. CASE ~tr.usage
    <3>1. U = <<>>
      BY <1>8, <2>2
    <3>2. U \in Seq(Chunks) /\ B \o U = B /\ E \o U = E
      BY <1>2, <1>4, <2>0, <3>1
    <3>3. \A k \in DOMAIN (E \o U) : (E \o U)[k].type # "finish"
      BY <1>3, <3>2
    <3> QED BY <1>4, <2>0, <3>2, <3>3
  <2> QED BY <2>1, <2>2
<1>12. /\ C \o (E \o U \o <<c>>) = Append((C \o E) \o U, c) /\ E \o U \o <<c>> = Append(E \o U, c)
       /\ E \o U \o <<c>> \in Seq(Chunks) /\ E \o U \in Seq(Chunks)
  BY <1>2, <1>9, <1>11
<1>13. Partly(Append((C \o E) \o U, c), m) /\ EndsIn(Append((C \o E) \o U, c)) = E
  <2>1. PICK B : B = (C \o E) \o U
    OBVIOUS
  <2> QED BY <1>2, <1>9, <1>11, <2>1, PartlyClosed
<1>14. \A k \in DOMAIN Append(E \o U, c) : Append(E \o U, c)[k].type = "finish"
                                             => Append(E \o U, c)[k].finish # "aborted"
  <2>1. PICK F, G, l : F = E \o U /\ G = Append(F, c) /\ l = Len(F)
    OBVIOUS
  <2>2. /\ F \in Seq(Chunks) /\ l \in Nat /\ DOMAIN F = 1..l /\ DOMAIN G = 1..(l + 1)
        /\ G[l + 1] = c /\ \A k \in 1..l : G[k] = F[k]
    BY <1>9, <1>12, <2>1
  <2>3. \A k \in 1..l : F[k].type # "finish"
    BY <1>11, <2>1, <2>2
  <2>4. \A k \in 1..(l + 1) : k = l + 1 \/ k \in 1..l
    BY <2>2
  <2> QED BY <1>7, <1>9, <2>1, <2>2, <2>3, <2>4
<1> QED BY <1>1, <1>10, <1>12, <1>13, <1>14

-----------------------------------------------------------------------------
(* The assembler gathers what the chunks say.                              *)

LEMMA BegunStays ==
  ASSUME NEW C \in Seq(Chunks), NEW c \in Chunks, NEW o, Begun(o, C),
         c.type \in {"delta", "block-end"} => c.index # o.index
  PROVE  Begun(o, Append(C, c))
<1>1. PICK E, x, l : E = Append(C, c) /\ x = o.index /\ l = Len(C)
  OBVIOUS
<1>2. /\ l \in Nat /\ DOMAIN C = 1..l /\ DOMAIN E = 1..(l + 1)
      /\ \A k \in 1..l : E[k] = C[k] /\ k \in 1..(l + 1)
  BY <1>1
<1>3. \E k \in DOMAIN E : E[k] = Start(o.index, o.block.kind)
  BY <1>2 DEF Begun
<1>4. o.block.buf = PiecesIn(E, x)
  <2>1. o.block.buf = PiecesIn(C, x) /\ ~(c.type = "delta" /\ c.index = x)
    BY <1>1 DEF Begun
  <2>2. PiecesIn(E, x) = PiecesIn(C, x)
    BY <1>1, <2>1, ChunkForBlock
  <2> QED BY <2>1, <2>2
<1>5. ASSUME NEW k \in DOMAIN EndsIn(E) PROVE EndsIn(E)[k].index # x
  <2>1. PICK e, f, n : e = EndsIn(C) /\ f = EndsIn(E) /\ n = Len(e)
    OBVIOUS
  <2>2. e \in Seq(Ends) /\ \A j \in DOMAIN e : e[j].index # x
    BY <1>1, <2>1, AnyPicked DEF Begun
  <2>3. CASE c.type = "block-end"
    <3>1. f = e \o <<c>> /\ c.index # x
      BY <1>1, <2>1, <2>3, ChunksGrow
    <3>2. k \in 1..(n + 1) /\ n \in Nat /\ DOMAIN e = 1..n /\ f[n + 1] = c /\ \A j \in 1..n : f[j] = e[j]
      BY <2>1, <2>2, <3>1
    <3>3. k = n + 1 \/ k \in 1..n
      BY <3>2
    <3> QED BY <2>1, <2>2, <3>1, <3>2, <3>3
  <2>4. CASE c.type # "block-end"
    <3>1. f = e \o <<>>
      BY <1>1, <2>1, <2>4, ChunksGrow
    <3>2. f = e
      BY <2>2, <3>1
    <3> QED BY <2>1, <2>2, <3>2
  <2> QED BY <2>3, <2>4
<1> QED BY <1>1, <1>3, <1>4, <1>5 DEF Begun

LEMMA BegunGrows ==
  ASSUME NEW C \in Seq(Chunks), NEW c \in Deltas, NEW o \in Opens, Begun(o, C), c.index = o.index
  PROVE  Begun(Extended(o, c), Append(C, c))
<1>1. PICK E, x, l, p : E = Append(C, c) /\ x = o.index /\ l = Len(C) /\ p = Extended(o, c)
  OBVIOUS
<1>2. c \in Chunks /\ c.type = "delta" /\ c.piece \in Nat
  BY DEF Deltas, Chunks, Content
<1>3. p.index = x /\ p.block.kind = o.block.kind /\ p.block.buf = Append(o.block.buf, c.piece)
  BY <1>1 DEF Extended, Opens, Block
<1>4. /\ l \in Nat /\ DOMAIN C = 1..l /\ DOMAIN E = 1..(l + 1)
      /\ \A k \in 1..l : E[k] = C[k] /\ k \in 1..(l + 1)
  BY <1>1, <1>2
<1>5. \E k \in DOMAIN E : E[k] = Start(x, o.block.kind)
  BY <1>1, <1>4 DEF Begun
<1>6. p.block.buf = PiecesIn(E, x)
  <2>1. o.block.buf = PiecesIn(C, x)
    BY <1>1 DEF Begun
  <2>2. PiecesIn(E, x) = PiecesIn(C, x) \o <<c.piece>> /\ PiecesIn(C, x) \in Seq(Nat)
    BY <1>1, <1>2, ChunkForBlock
  <2>3. PICK u : u = PiecesIn(C, x)
    OBVIOUS
  <2>4. u \o <<c.piece>> = Append(u, c.piece)
    BY <1>2, <2>2, <2>3
  <2> QED BY <1>3, <2>1, <2>2, <2>3, <2>4, Zenon
<1>7. EndsIn(E) = EndsIn(C)
  <2>1. EndsIn(E) = EndsIn(C) \o <<>> /\ EndsIn(C) \in Seq(Ends)
    BY <1>1, <1>2, ChunksGrow
  <2> QED BY <2>1, NothingBehind
<1>8. \A k \in DOMAIN EndsIn(E) : EndsIn(E)[k].index # x
  BY <1>1, <1>7 DEF Begun
<1> QED BY <1>1, <1>3, <1>5, <1>6, <1>8 DEF Begun

LEMMA BegunAtFirst ==
  ASSUME NEW C \in Seq(Chunks), NEW c \in Starts, NEW m, Begins(Append(C, c), m),
         NEW o, o.index = c.index, o.block.kind = c.kind, o.block.buf = <<>>
  PROVE  Begun(o, Append(C, c))
<1>1. PICK E, x, l : E = Append(C, c) /\ x = c.index /\ l = Len(C)
  OBVIOUS
<1>2. c \in Chunks /\ c.type = "block-start" /\ c = Start(c.index, c.kind)
  BY DEF Starts, Chunks, Content, Start
<1>3. /\ l \in Nat /\ DOMAIN C = 1..l /\ DOMAIN E = 1..(l + 1) /\ E[l + 1] = c /\ (l + 1) - 1 = l
      /\ (\A k \in 1..l : E[k] = C[k]) /\ l + 1 \in 1..(l + 1)
  BY <1>1, <1>2
<1>4. \A k \in 1..l : C[k].type \in {"block-start", "delta"} /\ C[k].index # x
  <2>1. \A k \in 1..((l + 1) - 1) : E[k].type \in {"block-start", "delta"} /\ E[k].index # E[l + 1].index
    BY <1>1, <1>2, <1>3, Zenon DEF Begins
  <2> QED BY <1>1, <1>3, <2>1
<1>5. PiecesIn(E, x) = <<>>
  <2>1. PiecesIn(C, x) = <<>>
    BY <1>3, <1>4, NoPieces
  <2>2. PiecesIn(E, x) = PiecesIn(C, x)
    BY <1>1, <1>2, ChunkForBlock
  <2> QED BY <2>1, <2>2
<1>6. EndsIn(E) = <<>>
  <2>1. \A k \in DOMAIN C : C[k].type # "block-end"
    BY <1>3, <1>4
  <2>2. EndsIn(C) = <<>>
    BY <2>1, EndsAmong
  <2>3. EndsIn(E) = EndsIn(C) \o <<>>
    BY <1>1, <1>2, ChunksGrow
  <2>4. <<>> \o <<>> = <<>>
    OBVIOUS
  <2> QED BY <2>2, <2>3, <2>4, Zenon
<1>7. \A k \in DOMAIN EndsIn(E) : EndsIn(E)[k].index # o.index
  BY <1>6
<1>8. \E k \in DOMAIN E : E[k] = Start(o.index, o.block.kind)
  BY <1>2, <1>3
<1> QED BY <1>1, <1>5, <1>7, <1>8 DEF Begun

\* The content gathered, and the finish, once c is received.
ContentGrown(a, C, c) ==
  /\ c.type # "block-end" => a.content = [k \in DOMAIN EndsIn(Append(C, c)) |-> EndsIn(Append(C, c))[k].block]
  /\ c.type = "block-end" =>
       Append(a.content, c.block) = [k \in DOMAIN EndsIn(Append(C, c)) |-> EndsIn(Append(C, c))[k].block]
  /\ a.finish = "none"
  /\ c.type # "finish" => NoFinish(Append(C, c))
  /\ c.type = "finish" => /\ ~NoFinish(Append(C, c))
                          /\ \A k \in DOMAIN Append(C, c) :
                               Append(C, c)[k].type = "finish" => Append(C, c)[k] = c

LEMMA ContentGrows ==
  ASSUME NEW C \in Seq(Chunks), NEW c \in Chunks, NEW a, Gathered(a, C), a.content \in Seq(BlockType),
         NoFinish(C)
  PROVE  ContentGrown(a, C, c)
<1>1. PICK e, f, E, l, n : e = EndsIn(C) /\ f = EndsIn(E) /\ E = Append(C, c) /\ n = Len(e) /\ l = Len(C)
  OBVIOUS
<1>2. e \in Seq(Ends) /\ a.content = [k \in DOMAIN e |-> e[k].block] /\ a.finish = "none"
  BY <1>1, AnyPicked DEF Gathered
<1>3. c.type # "block-end" => a.content = [k \in DOMAIN f |-> f[k].block]
  <2>1. SUFFICES ASSUME c.type # "block-end" PROVE f = e
    BY <1>2
  <2>2. f = e \o <<>>
    BY <1>1, <2>1, ChunksGrow
  <2> QED BY <1>2, <2>2
<1>4. c.type = "block-end" => Append(a.content, c.block) = [k \in DOMAIN f |-> f[k].block]
  <2>1. SUFFICES ASSUME c.type = "block-end" PROVE Append(a.content, c.block) = [k \in DOMAIN f |-> f[k].block]
    OBVIOUS
  <2>2. f = e \o <<c>> /\ c \in Ends
    BY <1>1, <2>1, ChunksGrow DEF Chunks, Content, Starts, Deltas, Ends, Usages, Finishes
  <2>3. n \in Nat /\ DOMAIN e = 1..n /\ DOMAIN f = 1..(n + 1) /\ f[n + 1] = c /\ \A k \in 1..n : f[k] = e[k]
    BY <1>1, <1>2, <2>2
  <2>4. PICK b, u : b = c.block /\ u = a.content
    OBVIOUS
  <2>5. u \in Seq(BlockType) /\ u = [k \in 1..n |-> e[k].block] /\ Len(u) = n /\ b \in BlockType
    BY <1>2, <2>2, <2>3, <2>4 DEF Ends
  <2>6. Append(u, b) = [k \in 1..(n + 1) |-> IF k = n + 1 THEN b ELSE u[k]]
    <3>1. PICK v : v = Append(u, b)
      OBVIOUS
    <3>2. v \in Seq(BlockType) /\ Len(v) = n + 1 /\ \A k \in 1..(n + 1) : v[k] = IF k = n + 1 THEN b ELSE u[k]
      BY <2>3, <2>5, <3>1
    <3>3. v = [k \in 1..(n + 1) |-> v[k]]
      BY <3>2
    <3> QED BY <3>1, <3>2, <3>3
  <2>7. ASSUME NEW k \in 1..(n + 1) PROVE f[k].block = IF k = n + 1 THEN b ELSE u[k]
    <3>1. k = n + 1 \/ k \in 1..n
      BY <2>3
    <3> QED BY <2>3, <2>4, <2>5, <3>1
  <2> QED BY <2>3, <2>4, <2>6, <2>7
<1>5. c.type # "finish" => NoFinish(E)
  BY <1>1, FinishAppends
<1>6. c.type = "finish" => ~NoFinish(E) /\ \A k \in DOMAIN E : E[k].type = "finish" => E[k] = c
  <2>1. SUFFICES ASSUME c.type = "finish"
                 PROVE  ~NoFinish(E) /\ \A k \in DOMAIN E : E[k].type = "finish" => E[k] = c
    OBVIOUS
  <2>2. OneFinish(E)
    BY <1>1, <2>1, FinishAppends
  <2>3. Len(E) = l + 1 /\ E[l + 1] = c /\ DOMAIN E = 1..(l + 1) /\ l \in Nat /\ l + 1 \in 1..(l + 1)
    BY <1>1
  <2> QED BY <2>1, <2>2, <2>3 DEF OneFinish, NoFinish
<1> QED BY <1>1, <1>2, <1>3, <1>4, <1>5, <1>6, Zenon DEF ContentGrown

LEMMA AssembleGathers ==
  ASSUME NEW a \in Assemblies, NEW C \in Seq(Chunks), NEW c \in Chunks, Gathered(a, C), NoFinish(C),
         NEW m, Begins(Append(C, c), m)
  PROVE  Gathered(Assemble(a, c), Append(C, c))
<1>1. PICK E, b : E = Append(C, c) /\ b = Assemble(a, c)
  OBVIOUS
<1>2. /\ a.content \in Seq(BlockType) /\ a.open \in Seq(Opens)
      /\ a = [content |-> a.content, open |-> a.open, finish |-> a.finish]
  BY DEF Assemblies
<1>3. /\ c.type # "block-end" => a.content = [k \in DOMAIN EndsIn(E) |-> EndsIn(E)[k].block]
      /\ c.type = "block-end" => Append(a.content, c.block) = [k \in DOMAIN EndsIn(E) |-> EndsIn(E)[k].block]
      /\ a.finish = "none"
      /\ c.type # "finish" => NoFinish(E)
      /\ c.type = "finish" => ~NoFinish(E) /\ \A k \in DOMAIN E : E[k].type = "finish" => E[k] = c
  <2>1. ContentGrown(a, C, c)
    BY <1>2, ContentGrows
  <2> QED BY <1>1, <2>1, Zenon DEF ContentGrown
<1>4. \A i \in DOMAIN a.open : a.open[i] \in Opens /\ Begun(a.open[i], C)
  BY <1>2 DEF Gathered
<1>5. ASSUME NEW o, Begun(o, C), c.type \in {"delta", "block-end"} => c.index # o.index
      PROVE  Begun(o, E)
  BY <1>1, <1>5, BegunStays
<1>6. CASE c \in Starts
  <2>1. c.type = "block-start"
    BY <1>6 DEF Starts
  <2>2. PICK d, o : d = Block(c.kind, "", <<>>) /\ o = [index |-> c.index, block |-> d]
    OBVIOUS
  <2>3. b = [a EXCEPT !.open = Append(a.open, o)]
    BY <1>1, <2>1, <2>2 DEF Assemble
  <2>4. b.content = a.content /\ b.finish = a.finish /\ b.open = Append(a.open, o)
    BY <1>2, <2>3
  <2>5. Begun(o, E)
    <3>1. o.index = c.index /\ o.block.kind = c.kind /\ o.block.buf = <<>>
      BY <2>2 DEF Block
    <3> QED BY <1>1, <1>6, <3>1, BegunAtFirst
  <2>6. \A i \in DOMAIN a.open : Begun(a.open[i], E)
    BY <1>4, <1>5, <2>1
  <2>7. ASSUME NEW i \in DOMAIN b.open PROVE Begun(b.open[i], E)
    <3>1. PICK u, v, n : u = a.open /\ v = b.open /\ n = Len(u)
      OBVIOUS
    <3>2. u \in Seq(Opens) /\ v = Append(u, o) /\ i \in DOMAIN v
      BY <1>2, <2>4, <3>1
    <3>3. n \in Nat /\ DOMAIN u = 1..n /\ v[n + 1] = o /\ (i = n + 1 \/ (i \in 1..n /\ v[i] = u[i]))
      BY ONLY <3>1, <3>2
    <3> QED BY <2>5, <2>6, <3>1, <3>3
  <2> QED BY <1>1, <1>3, <2>1, <2>4, <2>7, Zenon DEF Gathered, NoFinish
<1>7. CASE c \in Deltas
  <2>1. c.type = "delta"
    BY <1>7 DEF Deltas
  <2>2. PICK v : v = [i \in DOMAIN a.open |->
                        IF a.open[i].index = c.index THEN Extended(a.open[i], c) ELSE a.open[i]]
    OBVIOUS
  <2>3. b = [a EXCEPT !.open = v]
    BY <1>1, <2>1, <2>2 DEF Assemble
  <2>4. b.content = a.content /\ b.finish = a.finish /\ b.open = v
    BY <1>2, <2>3
  <2>5. ASSUME NEW i \in DOMAIN b.open PROVE Begun(b.open[i], E)
    <3>1. i \in DOMAIN a.open /\ b.open[i] = IF a.open[i].index = c.index THEN Extended(a.open[i], c) ELSE a.open[i]
      BY <2>2, <2>4
    <3>2. CASE a.open[i].index = c.index
      <4>1. Begun(Extended(a.open[i], c), E)
        BY <1>1, <1>4, <1>7, <3>1, <3>2, BegunGrows
      <4> QED BY <3>1, <3>2, <4>1
    <3>3. CASE a.open[i].index # c.index
      BY <1>4, <1>5, <3>1, <3>3
    <3> QED BY <3>2, <3>3
  <2>6. c.type # "block-end" /\ c.type # "finish"
    BY <2>1
  <2> QED BY <1>1, <1>3, <2>4, <2>5, <2>6, Zenon DEF Gathered, NoFinish
<1>8. CASE c \in Ends
  <2>1. c.type = "block-end" /\ c.type # "finish"
    BY <1>8 DEF Ends
  <2>2. PICK v : v = Without(a.open, c.index)
    OBVIOUS
  <2>3. b = [a EXCEPT !.content = Append(a.content, c.block), !.open = v]
    BY <1>1, <2>1, <2>2 DEF Assemble
  <2>4. b.content = Append(a.content, c.block) /\ b.finish = a.finish /\ b.open = v
    BY <1>2, <2>3
  <2>5. ASSUME NEW i \in DOMAIN v PROVE Begun(v[i], E)
    <3>1. PICK T, U : T = ToSet(a.open) /\ U = {o \in T : o.index # c.index}
      OBVIOUS
    <3>2. a.open \in Seq(T)
      BY <1>2, <3>1 DEF ToSet
    <3>3. v \in Seq(U)
      BY <2>2, <3>1, <3>2, WithoutThins
    <3>4. v[i] \in U
      BY <3>3
    <3>5. Begun(v[i], C) /\ v[i].index # c.index
      BY <1>4, <3>1, <3>4 DEF ToSet
    <3> QED BY <1>5, <3>5
  <2> QED BY <1>1, <1>3, <2>1, <2>4, <2>5, Zenon DEF Gathered, NoFinish
<1>9. CASE c \in Usages
  <2>1. c.type = "usage" /\ c.type # "block-end" /\ c.type # "finish"
    BY <1>9 DEF Usages
  <2>2. b = a
    BY <1>1, <2>1 DEF Assemble
  <2>3. \A i \in DOMAIN a.open : Begun(a.open[i], E)
    BY <1>4, <1>5, <2>1
  <2> QED BY <1>1, <1>3, <2>1, <2>2, <2>3, Zenon DEF Gathered, NoFinish
<1>10. CASE c \in Finishes
  <2>1. c.type = "finish" /\ c.type # "block-end"
    BY <1>10 DEF Finishes
  <2>2. b = [a EXCEPT !.finish = c.finish]
    BY <1>1, <2>1 DEF Assemble
  <2>3. b.content = a.content /\ b.open = a.open /\ b.finish = c.finish
    BY <1>2, <2>2
  <2>4. \A i \in DOMAIN a.open : Begun(a.open[i], E)
    BY <1>4, <1>5, <2>1
  <2> QED BY <1>1, <1>3, <2>1, <2>3, <2>4, Zenon DEF Gathered
<1> QED BY <1>6, <1>7, <1>8, <1>9, <1>10 DEF Chunks, Content

-----------------------------------------------------------------------------
(* What the step keeps.                                                    *)

\* The blocks kept are those gathered: the content, or open blocks.
KeptOf(a, t) ==
  /\ t \in Seq(BlockType)
  /\ a.open = <<>> => t = a.content
  /\ \A i \in DOMAIN t : \/ i \in DOMAIN a.content /\ t[i] = a.content[i]
                         \/ \E j \in DOMAIN a.open : t[i] = a.open[j].block

LEMMA KeptIs ==
  ASSUME NEW a \in Assemblies, NEW t \in blocks(a)
  PROVE  KeptOf(a, t)
<1>1. PICK u, v, B : /\ u = a.content /\ v = a.open
                     /\ B = {i \in DOMAIN v : v[i].block.buf # <<>>}
  OBVIOUS
<1>2. u \in Seq(BlockType) /\ v \in Seq(Opens) /\ DOMAIN v = 1..Len(v) /\ Len(v) \in Nat
  BY <1>1 DEF Assemblies
<1>3. PICK p \in SetToSeqs(B) : t = u \o [n \in DOMAIN p |-> v[p[n]].block]
  BY <1>1 DEF blocks
<1>4. PICK k : k = Cardinality(B)
  OBVIOUS
<1>5. k \in Nat /\ (B = {} => k = 0)
  <2>1. IsFiniteSet(1..Len(v)) /\ B \in SUBSET (1..Len(v))
    BY <1>1, <1>2, FS_Interval
  <2>2. IsFiniteSet(B)
    BY <2>1, FS_Subset
  <2> QED BY <1>4, <2>2, FS_CardinalityType, FS_EmptySet
<1>6. p \in [1..k -> B]
  BY <1>3, <1>4 DEF SetToSeqs
<1>7. PICK q : q = [n \in DOMAIN p |-> v[p[n]].block]
  OBVIOUS
<1>8. q \in Seq(BlockType) /\ Len(q) = k /\ \A n \in 1..k : \E j \in DOMAIN v : q[n] = v[j].block
  <2>1. \A n \in 1..k : p[n] \in DOMAIN v /\ q[n] = v[p[n]].block /\ v[p[n]] \in Opens
    BY <1>1, <1>2, <1>6, <1>7
  <2>2. q \in [1..k -> BlockType]
    <3>1. \A o \in Opens : o.block \in BlockType
      BY DEF Opens
    <3>2. \A n \in 1..k : q[n] \in BlockType
      BY <2>1, <3>1
    <3>3. DOMAIN p = 1..k
      BY <1>6
    <3> QED BY <1>7, <3>2, <3>3
  <2>3. q \in Seq(BlockType) /\ Len(q) = k
    BY <1>5, <2>2, MapTyped
  <2> QED BY <2>1, <2>3
<1>9. t = u \o q
  BY <1>3, <1>7
<1>10. t \in Seq(BlockType)
  BY <1>2, <1>8, <1>9
<1>11. v = <<>> => t = u
  <2>1. SUFFICES ASSUME v = <<>> PROVE t = u
    OBVIOUS
  <2>2. k = 0
    BY <1>1, <1>5, <2>1
  <2>3. q = <<>>
    BY <1>8, <2>2
  <2> QED BY <1>2, <1>9, <2>3
<1>12. ASSUME NEW i \in DOMAIN t
       PROVE  (i \in DOMAIN u /\ t[i] = u[i]) \/ \E j \in DOMAIN v : t[i] = v[j].block
  <2>1. PICK l : l = Len(u)
    OBVIOUS
  <2>2. l \in Nat /\ DOMAIN u = 1..l /\ ((i \in 1..l /\ t[i] = u[i]) \/ (i - l \in 1..k /\ t[i] = q[i - l]))
    <3>1. u \in Seq(BlockType) /\ q \in Seq(BlockType) /\ t = u \o q /\ i \in DOMAIN t /\ l = Len(u) /\ k = Len(q)
      BY <1>2, <1>8, <1>9, <1>12, <2>1
    <3>2. l \in Nat /\ k \in Nat /\ DOMAIN u = 1..l /\ i \in 1..(l + k)
      BY ONLY <3>1
    <3>3. t[i] = IF i <= l THEN u[i] ELSE q[i - l]
      BY ONLY <3>1, <3>2
    <3>4. CASE i <= l
      <4>1. i \in 1..l /\ t[i] = u[i]
        BY <3>2, <3>3, <3>4
      <4> QED BY <3>2, <4>1
    <3>5. CASE ~(i <= l)
      <4>1. i - l \in 1..k
        BY <3>2, <3>5
      <4>2. t[i] = q[i - l]
        BY <3>3, <3>5, Zenon
      <4> QED BY <3>2, <4>1, <4>2
    <3> QED BY <3>4, <3>5
  <2> QED BY <1>8, <2>2
<1> QED BY <1>1, <1>10, <1>11, <1>12 DEF KeptOf

\* What is kept of part of the chunks is a beginning of what the blocks begin.
LEMMA KeptBegins ==
  ASSUME NEW a \in Assemblies, NEW C \in Seq(Chunks), Gathered(a, C), NEW m \in Seq(BlockType),
         Partly(C, m), NEW D \in Seq(Pieces), IsBeginning(m, D), NEW t \in blocks(a)
  PROVE  IsBeginning(t, D)
<1>1. KeptOf(a, t)
  BY KeptIs
<1>2. PICK e, b : e = EndsIn(C) /\ b = EndsOf(m)
  OBVIOUS
<1>3. /\ e \in Seq(Ends) /\ b \in Seq(Ends) /\ DOMAIN b = DOMAIN m
      /\ \A i \in DOMAIN m : b[i] = End(i, m[i])
  BY <1>2, AnyPicked, EndsOfTyped DEF EndsTyped
<1>4. \A i \in DOMAIN e : i \in DOMAIN m /\ e[i] = End(i, m[i])
  <2>1. IsPrefix(e, b)
    BY <1>2 DEF Partly
  <2>2. Len(e) <= Len(b) /\ \A i \in 1..Len(e) : e[i] = b[i]
    BY <1>3, <2>1, PrefixIs
  <2>3. DOMAIN e = 1..Len(e) /\ DOMAIN b = 1..Len(b) /\ Len(e) \in Nat /\ Len(b) \in Nat
    BY <1>3
  <2> QED BY <1>3, <2>2, <2>3
<1>5. \A i \in DOMAIN a.content : i \in DOMAIN m /\ a.content[i] = m[i]
  <2>1. a.content = [k \in DOMAIN e |-> e[k].block]
    BY <1>2 DEF Gathered
  <2> QED BY <1>4, <2>1 DEF End
<1>6. ASSUME NEW i \in DOMAIN t
      PROVE  \E j \in DOMAIN m : t[i].kind = m[j].kind /\ IsPrefix(t[i].buf, m[j].buf)
  <2>1. CASE i \in DOMAIN a.content /\ t[i] = a.content[i]
    <3>1. i \in DOMAIN m /\ t[i] = m[i]
      BY <1>5, <2>1
    <3>2. IsPrefix(m[i].buf, m[i].buf)
      BY <3>1, BlockText, PrefixOfItself
    <3> QED BY <3>1, <3>2
  <2>2. ASSUME NEW j \in DOMAIN a.open, t[i] = a.open[j].block
        PROVE  \E n \in DOMAIN m : t[i].kind = m[n].kind /\ IsPrefix(t[i].buf, m[n].buf)
    <3>1. PICK o, x : o = a.open[j] /\ x = o.index
      OBVIOUS
    <3>2. Begun(o, C)
      BY <3>1 DEF Gathered
    <3>3. PICK k \in DOMAIN C : C[k] = Start(x, o.block.kind)
      BY <3>1, <3>2 DEF Begun
    <3>4. x \in DOMAIN m /\ o.block.kind = m[x].kind
      <4>1. C[k].type = "block-start" /\ C[k].index = x /\ C[k].kind = o.block.kind
        BY <3>3 DEF Start
      <4>2. Begins(C, m)
        BY DEF Partly
      <4> QED BY <4>1, <4>2 DEF Begins
    <3>5. IsPrefix(o.block.buf, m[x].buf)
      BY <3>1, <3>2, <3>4 DEF Begun, Partly
    <3> QED BY <2>2, <3>1, <3>4, <3>5
  <2> QED BY <1>1, <2>1, <2>2 DEF KeptOf
<1>7. t \in Seq(BlockType)
  BY <1>1 DEF KeptOf
<1> QED BY <1>6, <1>7, BeginningOfParts

\* When every block has its end, what is kept is the blocks.
LEMMA KeptIsAll ==
  ASSUME NEW a \in Assemblies, NEW C \in Seq(Chunks), Gathered(a, C), NEW m \in Seq(BlockType),
         Begins(C, m), EndsIn(C) = EndsOf(m), NEW t \in blocks(a)
  PROVE  t = m
<1>1. KeptOf(a, t)
  BY KeptIs
<1>2. DOMAIN EndsIn(C) = DOMAIN m /\ \A i \in DOMAIN m : EndsIn(C)[i] = End(i, m[i])
  BY EndsOfTyped
<1>3. a.open = <<>>
  <2>1. SUFFICES ASSUME NEW j \in DOMAIN a.open PROVE FALSE
    <3>1. a.open \in Seq(Opens)
      BY DEF Assemblies
    <3>2. \A v \in Seq(Opens) : DOMAIN v = {} => v = <<>>
      OBVIOUS
    <3> QED BY <3>1, <3>2
  <2>2. PICK o, x : o = a.open[j] /\ x = o.index
    OBVIOUS
  <2>3. Begun(o, C)
    BY <2>2 DEF Gathered
  <2>4. PICK k \in DOMAIN C : C[k] = Start(x, o.block.kind)
    BY <2>2, <2>3 DEF Begun
  <2>5. x \in DOMAIN m
    <3>1. C[k].type = "block-start" /\ C[k].index = x
      BY <2>4 DEF Start
    <3> QED BY <3>1 DEF Begins
  <2>6. EndsIn(C)[x].index = x
    BY <1>2, <2>5 DEF End
  <2> QED BY <1>2, <2>2, <2>3, <2>5, <2>6 DEF Begun
<1>4. a.content = m
  <2>1. a.content = [i \in DOMAIN EndsIn(C) |-> EndsIn(C)[i].block]
    BY DEF Gathered
  <2>2. \A i \in DOMAIN m : EndsIn(C)[i].block = m[i]
    BY <1>2 DEF End
  <2>3. m = [i \in DOMAIN m |-> m[i]]
    OBVIOUS
  <2> QED BY <1>2, <2>1, <2>2, <2>3
<1> QED BY <1>1, <1>3, <1>4 DEF KeptOf

LEMMA SaidTyped ==
  ASSUME NEW ws \in Seq(WireType)
  PROVE  Said(ws) \in Seq(Pieces)
<1>1. CASE ws = <<>>
  <2>1. <<>> \in Seq(Pieces)
    OBVIOUS
  <2> QED BY <1>1, <2>1, SaidNothing
<1>2. CASE ws # <<>>
  <2>1. PICK w \in WireType : TRUE
    <3>1. PICK S : S = WireType
      OBVIOUS
    <3>2. ws[1] \in S
      BY <1>2, <3>1
    <3> QED BY <3>1, <3>2
  <2> QED BY <2>1, SaidGrows
<1> QED BY <1>1, <1>2

-----------------------------------------------------------------------------
(* Every step keeps the invariant of an answer.                            *)

LEMMA AnswerTyped ==
  ASSUME Streamed
  PROVE  /\ Made \in Seq(Chunks) /\ got \in Seq(Chunks) /\ out \in Seq(Chunks) /\ todo \in Seq(Chunks)
         /\ got \o out \in Seq(Chunks) /\ wire \in Seq(WireType)
         /\ Sent = Said(wire) /\ Sent \in Seq(Pieces)
         /\ TransOK(st) /\ st.blocks \in Seq(BlockType)
<1>1. got \in Seq(Chunks) /\ out \in Seq(Chunks) /\ todo \in Seq(Chunks)
  BY DEF Streamed, ChunksTyped
<1>2. got \o out \in Seq(Chunks) /\ Made \in Seq(Chunks)
  BY <1>1 DEF Made
<1>3. wire \in Seq(WireType)
  <2>1. PICK S : S = WireType
    OBVIOUS
  <2>2. WireChunks \subseteq S /\ wire \in Seq(WireChunks)
    BY <2>1, WireTyped DEF Streamed, ProviderTyped
  <2>3. wire \in Seq(S)
    BY <2>2, SeqMonotonic
  <2> QED BY <2>1, <2>3, Zenon
<1>4. Sent = Said(wire)
  BY DEF Sent, Said
<1>5. TransOK(st) /\ st.blocks \in Seq(BlockType)
  BY DEF Streamed, ChunksTyped, TransOK, Translations
<1> QED BY <1>1, <1>2, <1>3, <1>4, <1>5, SaidTyped

LEMMA AnsweringAtFirst == Init => Answers
<1> SUFFICES ASSUME Init PROVE Answers
  OBVIOUS
<1>1. /\ wire = <<>> /\ scan = "off" /\ event = NoEvent /\ pump = "request" /\ st = NoTranslation
      /\ got = <<>> /\ out = <<>> /\ todo = <<>> /\ asm = NoAssembly /\ outcome = "none"
  BY DEF Init
<1>2. Made = <<>> /\ Translated = <<>> /\ Sent = <<>>
  <2>1. Sent = Said(wire)
    BY DEF Sent, Said
  <2> QED BY <1>1, <2>1, SaidNothing DEF Made, Translated, NoEvent
<1>3. TransOK(st) /\ st.blocks = <<>> /\ Written(st, <<>>, 0) /\ Carries(<<>>, st.blocks)
  BY <1>1, NothingWritten
<1>4. DOMAIN <<>> = {} /\ Len(<<>>) = 0 /\ <<>> \in Seq(Chunks) /\ <<>> \in Seq(Pieces)
      /\ <<>> \in Seq(BlockType)
  OBVIOUS
<1>5. TranslatorIsAhead
  BY <1>1, <1>2, <1>3, <1>4, SaidNothing DEF TranslatorIsAhead
<1>6. ChunksArePart
  BY <1>2, <1>3, <1>4, CarriesIsPart DEF ChunksArePart
<1>7. StepIsBehind
  <2>1. EndsIn(<<>>) = <<>> /\ asm.content = <<>> /\ asm.open = <<>> /\ asm.finish = "none"
    BY <1>1, PickedFromNothing DEF NoAssembly
  <2>2. <<>> = [k \in DOMAIN EndsIn(<<>>) |-> EndsIn(<<>>)[k].block]
    BY <2>1
  <2> QED BY <1>1, <1>4, <2>1, <2>2 DEF StepIsBehind, Gathered
<1>8. BlocksBegan
  BY <1>2, <1>3, <1>4, WrittenBegins DEF BlocksBegan
<1>9. FinishIsHonest
  BY <1>2, <1>4 DEF FinishIsHonest
<1>10. Concluded /\ AnswerIsWhole
  BY <1>1 DEF Concluded, AnswerIsWhole
<1> QED BY <1>5, <1>6, <1>7, <1>8, <1>9, <1>10 DEF Answers, Answering

LEMMA RequestAnswers ==
  ASSUME Streamed, Answering, Request \/ Cancel
  PROVE  Answering'
<1>1. /\ UNCHANGED <<wire, event, todo, st, out, got, asm>>
      /\ pump = "request" \/ (UNCHANGED <<pump, scan>>)
      /\ cancelled => cancelled'
      /\ (pump = "request" => pump' = "wait" /\ scan' = "read") \/ UNCHANGED <<pump, scan>>
  BY DEF Request, Cancel
<1>2. /\ Made' = Made /\ Translated' = Translated /\ Sent' = Sent
  BY <1>1 DEF Made, Translated, Sent
<1>3. TranslatorIsAhead'
  BY <1>1, <1>2, Zenon DEF Answering, TranslatorIsAhead
<1>4. ChunksArePart' /\ StepIsBehind' /\ BlocksBegan'
  BY <1>1, <1>2 DEF Answering, ChunksArePart, StepIsBehind, BlocksBegan
<1>5. FinishIsHonest'
  <2>1. scan = "ended" => scan' = "ended"
    BY <1>1 DEF Answering, TranslatorIsAhead
  <2> QED BY <1>1, <1>2, <2>1, Zenon DEF Answering, FinishIsHonest
<1> QED BY <1>3, <1>4, <1>5 DEF Answering

LEMMA LineAnswers ==
  ASSUME Streamed, Answering, ScanHears \/ ScanRenews
  PROVE  Answering'
<1>1. /\ UNCHANGED <<wire, event, pump, todo, st, out, cancelled, got, asm>>
      /\ scan \in {"read", "line"} /\ scan' \in {"read", "line"}
  BY DEF ScanHears, ScanRenews
<1>2. Made' = Made /\ Translated' = Translated /\ Sent' = Sent
  BY <1>1 DEF Made, Translated, Sent
<1>3. TranslatorIsAhead'
  <2>1. event = NoEvent /\ pump # "request"
    BY <1>1 DEF Answering, TranslatorIsAhead
  <2> QED BY <1>1, <1>2, <2>1 DEF Answering, TranslatorIsAhead
<1>4. ChunksArePart' /\ StepIsBehind' /\ BlocksBegan'
  BY <1>1, <1>2 DEF Answering, ChunksArePart, StepIsBehind, BlocksBegan
<1>5. FinishIsHonest'
  <2>1. scan # "ended"
    BY <1>1
  <2> QED BY <1>1, <1>2, <2>1, Zenon DEF Answering, FinishIsHonest
<1> QED BY <1>3, <1>4, <1>5 DEF Answering

LEMMA ScanAnswers ==
  ASSUME Streamed, Answering, ScanReads \/ ScanBreaks \/ ScanIdles
  PROVE  Answering'
<1>1. /\ UNCHANGED <<pump, todo, st, out, cancelled, got, asm>>
      /\ scan = "read" /\ scan' = "offer" /\ pump # "request"
  BY DEF ScanReads, ScanBreaks, ScanIdles, Offer, Answering, TranslatorIsAhead
<1>2. \/ \E w \in WireChunks : wire' = Append(wire, w) /\ event'.kind = "data"
      \/ wire' = wire /\ event'.kind # "data"
  <2>1. CASE ScanReads
    <3>1. CASE \E w \in WireChunks : wire' = Append(wire, w) /\ Offer([kind |-> "data"])
      BY <3>1 DEF Offer
    <3>2. CASE \E kind \in {"done", "eof", "junk"} : Offer([kind |-> kind]) /\ UNCHANGED wire
      BY <3>2 DEF Offer
    <3> QED BY <2>1, <3>1, <3>2, Zenon DEF ScanReads
  <2>2. CASE ScanBreaks \/ ScanIdles
    BY <2>2 DEF ScanBreaks, ScanIdles, Offer
  <2> QED BY <2>1, <2>2
<1>3. Made' = Made
  BY <1>1 DEF Made
<1>4. Translated' = Translated
  <2>1. Translated = wire
    BY <1>1 DEF Answering, TranslatorIsAhead, Translated, NoEvent
  <2>2. CASE \E w \in WireChunks : wire' = Append(wire, w) /\ event'.kind = "data"
    <3>1. PICK w \in WireChunks : wire' = Append(wire, w)
      BY <2>2
    <3>2. wire \in Seq(WireChunks)
      BY DEF Streamed, ProviderTyped
    <3>3. SubSeq(wire', 1, Len(wire') - 1) = wire
      BY <3>1, <3>2, AllButLast
    <3> QED BY <2>1, <2>2, <3>3 DEF Translated
  <2>3. CASE wire' = wire /\ event'.kind # "data"
    BY <2>1, <2>3 DEF Translated
  <2> QED BY <1>2, <2>2, <2>3
<1>5. TranslatorIsAhead'
  BY <1>1, <1>3, <1>4, Zenon DEF Answering, TranslatorIsAhead
<1>6. ChunksArePart' /\ StepIsBehind'
  BY <1>1, <1>3 DEF Answering, ChunksArePart, StepIsBehind
<1>7. BlocksBegan'
  <2>1. IsBeginning(st.blocks, Sent')
    <3>1. CASE \E w \in WireChunks : wire' = Append(wire, w) /\ event'.kind = "data"
      <4>1. PICK w \in WireChunks : wire' = Append(wire, w)
        BY <3>1
      <4>2. /\ wire \in Seq(WireType) /\ w \in WireType /\ Sent = Said(wire) /\ Sent \in Seq(Pieces)
            /\ st.blocks \in Seq(BlockType) /\ Len(wire) + 1 \in Nat
        <5>1. Len(wire) + 1 \in Nat
          BY DEF Streamed, ProviderTyped
        <5> QED BY <5>1, AnswerTyped, WireTyped
      <4>3. Sent' = Said(wire')
        BY DEF Sent, Said
      <4>4. Sent' = Sent \o PiecesOf(w, Len(wire) + 1) /\ PiecesOf(w, Len(wire) + 1) \in Seq(Pieces)
        BY <4>1, <4>2, <4>3, SaidGrows, PiecesTyped
      <4> QED BY <4>2, <4>4, BeginningStaysBehind DEF Answering, BlocksBegan
    <3>2. CASE wire' = wire /\ event'.kind # "data"
      <4>1. Sent' = Sent
        BY <3>2 DEF Sent
      <4> QED BY <4>1 DEF Answering, BlocksBegan
    <3> QED BY <1>2, <3>1, <3>2
  <2> QED BY <1>1, <2>1 DEF BlocksBegan
<1>8. FinishIsHonest'
  BY <1>1, <1>3, Zenon DEF Answering, FinishIsHonest
<1> QED BY <1>5, <1>6, <1>7, <1>8 DEF Answering

\* A chunk that only ends the stream.
LEMMA LastChunk ==
  ASSUME Streamed, Answering, pump = "wait", NEW c \in Chunks, c.type = "finish"
  PROVE  /\ NoFinish(Made) /\ Made = got \o out /\ todo = <<>>
         /\ Partly(Append(Made, c), st.blocks)
         /\ got \o out \o <<c>> = Append(Made, c)
         /\ \A k \in DOMAIN Append(Made, c) : Append(Made, c)[k].type = "finish" => Append(Made, c)[k] = c
<1>1. todo = <<>> /\ got \o out \in Seq(Chunks) /\ Made \in Seq(Chunks) /\ st.blocks \in Seq(BlockType)
  BY AnswerTyped DEF Streamed, FinishIsLast
<1>2. Made = got \o out
  BY <1>1 DEF Made
<1>3. Carries(Made, st.blocks) /\ Partly(Made, st.blocks)
  BY DEF Answering, TranslatorIsAhead, ChunksArePart
<1>4. NoFinish(Made)
  BY <1>3 DEF Carries, NoFinish
<1>5. Partly(Append(Made, c), st.blocks)
  BY <1>1, <1>3, PartlyClosed
<1>6. OneFinish(Append(Made, c))
  BY <1>1, <1>4, FinishAppends
<1>7. /\ Len(Append(Made, c)) = Len(Made) + 1 /\ Append(Made, c)[Len(Made) + 1] = c
      /\ got \o out \o <<c>> = Append(Made, c)
  BY <1>1, <1>2
<1>8. \A k \in DOMAIN Append(Made, c) : Append(Made, c)[k].type = "finish" => Append(Made, c)[k] = c
  BY <1>6, <1>7 DEF OneFinish
<1> QED BY <1>1, <1>2, <1>4, <1>5, <1>7, <1>8

LEMMA TakesDataAnswers ==
  ASSUME Streamed, Answering, PumpTakes, event.kind = "data"
  PROVE  Answering'
<1>1. PICK w, n, s, base : /\ w = Last(wire) /\ n = Len(wire) /\ s = push(st, w, n) /\ base = got \o out
  OBVIOUS
<1>2. /\ pump = "wait" /\ event' = NoEvent /\ scan' = "read" /\ UNCHANGED <<wire, out, got, asm, cancelled>>
      /\ st' = s.tr /\ todo' = s.out /\ pump' \in {"wait", "send"} /\ todo = <<>>
  BY <1>1 DEF PumpTakes, Streamed, FinishIsLast
<1>3. /\ wire \in Seq(WireType) /\ Sent = Said(wire) /\ TransOK(st) /\ base \in Seq(Chunks) /\ Made = base
  <2>1. Made = base \o <<>>
    BY <1>1, <1>2 DEF Made
  <2> QED BY <1>1, <2>1, AnswerTyped
<1>4. PICK ws \in Seq(WireType), v \in WireType : wire = Append(ws, v)
  <2>1. wire # <<>>
    BY DEF Streamed, ProviderTyped
  <2> QED BY <1>3, <2>1, SequenceEmptyOrAppend
<1>5. v = w /\ n = Len(ws) + 1 /\ Len(ws) \in Nat /\ Len(ws) <= n /\ n \in Nat /\ Translated = ws
  <2>1. SubSeq(wire, 1, Len(wire) - 1) = ws
    BY <1>4, AllButLast
  <2>2. Last(wire) = v /\ Len(wire) = Len(ws) + 1 /\ Len(ws) \in Nat
    BY <1>4 DEF Last
  <2> QED BY <1>1, <2>1, <2>2 DEF Translated
<1>6. PICK D : D = Said(ws)
  OBVIOUS
<1>7. D \in Seq(Pieces) /\ Written(st, D, Len(ws)) /\ Carries(base, st.blocks)
  BY <1>2, <1>3, <1>4, <1>5, <1>6, SaidTyped DEF Answering, TranslatorIsAhead
<1>8. Says(s, base, D \o PiecesOf(w, n), n) /\ Said(wire) = D \o PiecesOf(w, n)
  <2>1. Says(push(st, v, n), base, D \o PiecesOf(v, n), n)
    BY <1>3, <1>5, <1>7, PushSays
  <2>2. Said(wire) = D \o PiecesOf(v, n)
    BY <1>4, <1>5, <1>6, SaidGrows
  <2> QED BY <1>1, <1>5, <2>1, <2>2
<1>9. Pushed(s) /\ Written(st', Said(wire), n) /\ Carries(base \o todo', st'.blocks)
  BY <1>2, <1>8 DEF Says
<1>10. /\ Made' = base \o todo' /\ Translated' = wire /\ Sent' = Said(wire) /\ Said(wire) \in Seq(Pieces)
       /\ TransOK(st') /\ st'.blocks \in Seq(BlockType) /\ Made' \in Seq(Chunks)
  <2>1. Sent' = Sent
    BY <1>2 DEF Sent
  <2>2. Streamed'
    BY PumpTakesKeeps
  <2>3. TransOK(st') /\ st'.blocks \in Seq(BlockType)
    BY <1>2, <1>9 DEF Pushed, TransOK, Translations
  <2>4. Made' = base \o todo' /\ Translated' = wire
    BY <1>1, <1>2 DEF Made, Translated, NoEvent
  <2>5. todo' \in Seq(Chunks)
    <3>1. s.out \in Seq(Content) /\ Content \subseteq Chunks
      BY <1>9 DEF Pushed, Chunks
    <3> QED BY <1>2, <3>1, SeqMonotonic
  <2>6. base \o todo' \in Seq(Chunks)
    BY <1>3, <2>5
  <2> QED BY <1>3, <2>1, <2>3, <2>4, <2>6, SaidTyped
<1>11. TranslatorIsAhead'
  <2>1. Written(st', Said(Translated'), Len(Translated')) /\ Carries(Made', st'.blocks)
    BY <1>1, <1>9, <1>10
  <2> QED BY <1>2, <2>1 DEF TranslatorIsAhead
<1>12. ChunksArePart'
  <2>1. Partly(Made', st'.blocks)
    BY <1>9, <1>10, CarriesIsPart
  <2> QED BY <2>1 DEF ChunksArePart
<1>13. StepIsBehind'
  BY <1>2 DEF Answering, StepIsBehind
<1>14. BlocksBegan'
  <2>1. IsBeginning(st'.blocks, Sent')
    BY <1>9, <1>10, WrittenBegins
  <2> QED BY <2>1 DEF BlocksBegan
<1>15. FinishIsHonest'
  <2>1. \A k \in DOMAIN Made' : Made'[k].type # "finish"
    BY <1>9, <1>10 DEF Carries
  <2> QED BY <2>1 DEF FinishIsHonest
<1> QED BY <1>11, <1>12, <1>13, <1>14, <1>15 DEF Answering

LEMMA TakesDoneAnswers ==
  ASSUME Streamed, Answering, PumpTakes, event.kind = "done"
  PROVE  Answering'
<1>1. PICK base, F, m : base = got \o out /\ F = finalize(st) /\ m = st.blocks
  OBVIOUS
<1>2. /\ pump = "wait" /\ event' = NoEvent /\ scan' = "ended" /\ todo' = F /\ pump' = "last" /\ todo = <<>>
      /\ UNCHANGED <<wire, st, out, got, asm, cancelled>>
  BY <1>1 DEF PumpTakes, Streamed, FinishIsLast
<1>3. /\ Sent = Said(wire) /\ Sent \in Seq(Pieces) /\ TransOK(st) /\ base \in Seq(Chunks) /\ Made = base
      /\ Translated = wire /\ m \in Seq(BlockType)
  <2>1. Made = base \o <<>>
    BY <1>1, <1>2 DEF Made
  <2> QED BY <1>1, <2>1, AnswerTyped DEF Translated
<1>4. Written(st, Sent, Len(wire)) /\ Carries(base, m)
  BY <1>1, <1>2, <1>3 DEF Answering, TranslatorIsAhead
<1>5. /\ F \in Seq(Chunks) /\ Partly(base \o F, m) /\ EndsIn(base \o F) = EndsOf(m)
      /\ \A k \in DOMAIN F : F[k].type = "finish" => F[k].finish # "aborted"
  BY <1>1, <1>3, <1>4, FinalizeSays
<1>6. Made' = base \o F /\ Sent' = Sent /\ st'.blocks = m
  BY <1>1, <1>2 DEF Made, Sent
<1>7. TranslatorIsAhead'
  BY <1>2 DEF TranslatorIsAhead
<1>8. ChunksArePart'
  BY <1>5, <1>6 DEF ChunksArePart
<1>9. StepIsBehind'
  BY <1>2 DEF Answering, StepIsBehind
<1>10. BlocksBegan'
  BY <1>1, <1>6 DEF Answering, BlocksBegan
<1>11. FinishIsHonest'
  <2>1. IsWhole(m, Sent)
    BY <1>1, <1>3, <1>4, WrittenIsWhole
  <2>2. ASSUME NEW k \in DOMAIN (base \o F), (base \o F)[k].type = "finish"
        PROVE  (base \o F)[k].finish # "aborted"
    <3>1. \A i \in DOMAIN base : base[i].type # "finish"
      BY <1>4 DEF Carries
    <3>2. PICK l : l = Len(base)
      OBVIOUS
    <3>3. /\ DOMAIN base = 1..l
          /\ (k \in 1..l /\ (base \o F)[k] = base[k]) \/ (k - l \in DOMAIN F /\ (base \o F)[k] = F[k - l])
      BY <1>3, <1>5, <2>2, <3>2
    <3> QED BY <1>5, <2>2, <3>1, <3>3
  <2> QED BY <1>2, <1>5, <1>6, <2>1, <2>2 DEF FinishIsHonest
<1> QED BY <1>7, <1>8, <1>9, <1>10, <1>11 DEF Answering

LEMMA StopsAnswers ==
  ASSUME Streamed, Answering, (PumpTakes /\ event.kind \notin {"data", "done"}) \/ PumpSeesCancel
  PROVE  Answering'
<1>1. PICK r \in {"error", "aborted"} :
        /\ pump = "wait" /\ todo' = <<Finish(r)>> /\ pump' = "last"
        /\ UNCHANGED <<wire, st, out, got, asm, cancelled>>
        /\ (r = "aborted" => cancelled)
        /\ \/ event' = NoEvent
           \/ UNCHANGED <<event, scan>>
  <2>1. CASE PumpSeesCancel
    BY <2>1 DEF PumpSeesCancel
  <2>2. CASE PumpTakes /\ event.kind \notin {"data", "done"}
    BY <2>2 DEF PumpTakes
  <2> QED BY <2>1, <2>2
<1>2. PICK c : c = Finish(r)
  OBVIOUS
<1>3. c \in Chunks /\ c.type = "finish" /\ c.finish = r
  <2>1. r \in Reasons
    BY DEF Reasons
  <2> QED BY <1>2, <2>1, ChunkTypes DEF Chunks, Finish
<1>4. /\ NoFinish(Made) /\ Partly(Append(Made, c), st.blocks) /\ got \o out \o <<c>> = Append(Made, c)
      /\ \A k \in DOMAIN Append(Made, c) : Append(Made, c)[k].type = "finish" => Append(Made, c)[k] = c
  BY <1>1, <1>3, LastChunk, Zenon
<1>5. Made' = Append(Made, c) /\ Sent' = Sent
  <2>1. Made' = got \o out \o <<c>>
    BY <1>1, <1>2 DEF Made
  <2> QED BY <1>1, <1>4, <2>1 DEF Sent
<1>6. TranslatorIsAhead'
  BY <1>1 DEF Answering, TranslatorIsAhead
<1>7. ChunksArePart'
  BY <1>1, <1>4, <1>5 DEF ChunksArePart
<1>8. StepIsBehind' /\ BlocksBegan'
  BY <1>1, <1>5 DEF Answering, StepIsBehind, BlocksBegan
<1>9. FinishIsHonest'
  <2>1. \A k \in DOMAIN Made' : Made'[k].type = "finish" => Made'[k].finish = r
    BY <1>3, <1>4, <1>5
  <2> QED BY <1>1, <2>1, Zenon DEF FinishIsHonest
<1> QED BY <1>6, <1>7, <1>8, <1>9 DEF Answering

LEMMA SendsAnswers ==
  ASSUME Streamed, Answering, PumpSends
  PROVE  Answering'
<1>1. PICK c, t : c = Head(todo) /\ t = Tail(todo)
  OBVIOUS
<1>2. /\ out' = Append(out, c) /\ todo' = t /\ todo # <<>>
      /\ UNCHANGED <<wire, scan, event, st, cancelled, got, asm>>
      /\ pump' \in {"wait", "send"} => pump = "send"
      /\ pump' # "request"
  BY <1>1 DEF PumpSends, Streamed, ChunksTyped, FinishIsLast
<1>3. Made' = Made
  <2>1. got \in Seq(Chunks) /\ out \in Seq(Chunks) /\ todo \in Seq(Chunks) /\ todo # <<>>
    BY <1>2, AnswerTyped
  <2>2. c \in Chunks /\ t \in Seq(Chunks) /\ todo = <<c>> \o t
    BY <1>1, <2>1
  <2>3. got \o Append(out, c) = (got \o out) \o <<c>> /\ got \o out \in Seq(Chunks)
    BY <2>1, <2>2
  <2>4. \A s \in Seq(Chunks) : (s \o <<c>>) \o t = s \o (<<c>> \o t)
    BY ONLY <2>2
  <2>5. got \o Append(out, c) \o t = got \o out \o todo
    BY <2>2, <2>3, <2>4, Zenon
  <2> QED BY <1>2, <2>5, Zenon DEF Made
<1>4. Translated' = Translated /\ Sent' = Sent
  BY <1>2 DEF Translated, Sent
<1>5. TranslatorIsAhead'
  BY <1>2, <1>3, <1>4, Zenon DEF Answering, TranslatorIsAhead
<1>6. ChunksArePart' /\ StepIsBehind' /\ BlocksBegan'
  BY <1>2, <1>3, <1>4 DEF Answering, ChunksArePart, StepIsBehind, BlocksBegan
<1>7. FinishIsHonest'
  BY <1>2, <1>3, <1>4, Zenon DEF Answering, FinishIsHonest
<1> QED BY <1>5, <1>6, <1>7 DEF Answering

LEMMA GivesUpAnswers ==
  ASSUME Streamed, Answering, PumpGivesUp
  PROVE  Answering'
<1>1. /\ todo' = <<>> /\ pump' = "closed" /\ todo # <<>>
      /\ UNCHANGED <<wire, scan, event, st, out, cancelled, got, asm>>
  BY DEF PumpGivesUp
<1>2. /\ got \in Seq(Chunks) /\ out \in Seq(Chunks) /\ todo \in Seq(Chunks)
      /\ got \o out \in Seq(Chunks) /\ st.blocks \in Seq(BlockType)
  BY AnswerTyped
<1>3. Made = (got \o out) \o todo /\ Made' = got \o out /\ Sent' = Sent
  BY <1>1, <1>2 DEF Made, Sent
<1>4. TranslatorIsAhead'
  BY <1>1 DEF Answering, TranslatorIsAhead
<1>5. ChunksArePart'
  <2>1. Partly((got \o out) \o todo, st.blocks)
    BY <1>3 DEF Answering, ChunksArePart
  <2>2. Partly(got \o out, st.blocks)
    BY <1>2, <2>1, PartlyShrinks
  <2> QED BY <1>1, <1>3, <2>2 DEF ChunksArePart
<1>6. StepIsBehind' /\ BlocksBegan'
  BY <1>1, <1>3 DEF Answering, StepIsBehind, BlocksBegan
<1>7. FinishIsHonest'
  <2>1. NoFinish(got) /\ NoFinish(out)
    BY <1>1 DEF Streamed, FinishIsLast
  <2>2. ASSUME NEW k \in DOMAIN (got \o out) PROVE (got \o out)[k].type # "finish"
    <3>1. PICK l : l = Len(got)
      OBVIOUS
    <3>2. /\ DOMAIN got = 1..l
          /\ (k \in 1..l /\ (got \o out)[k] = got[k]) \/ (k - l \in DOMAIN out /\ (got \o out)[k] = out[k - l])
      BY <1>2, <3>1
    <3> QED BY <2>1, <3>2 DEF NoFinish
  <2> QED BY <1>3, <2>2 DEF FinishIsHonest
<1> QED BY <1>4, <1>5, <1>6, <1>7 DEF Answering

LEMMA ReceivesAnswers ==
  ASSUME Streamed, Replays, Answering, StepReceives
  PROVE  Answering'
<1>1. PICK c, t : c = Head(out) /\ t = Tail(out)
  OBVIOUS
<1>2. /\ got' = Append(got, c) /\ asm' = Assemble(asm, c) /\ out' = t /\ out # <<>> /\ outcome = "none"
      /\ UNCHANGED <<wire, scan, event, pump, todo, st, cancelled>>
  BY <1>1 DEF StepReceives
<1>3. /\ got \in Seq(Chunks) /\ out \in Seq(Chunks) /\ todo \in Seq(Chunks)
      /\ c \in Chunks /\ t \in Seq(Chunks) /\ out = <<c>> \o t
  <2>1. got \in Seq(Chunks) /\ out \in Seq(Chunks) /\ todo \in Seq(Chunks) /\ out # <<>>
    BY <1>2, AnswerTyped
  <2> QED BY <1>1, <2>1
<1>4. Made = Append(got, c) \o (t \o todo) /\ Made' = Made /\ t \o todo \in Seq(Chunks)
      /\ Append(got, c) \in Seq(Chunks)
  <2>1. got \o (<<c>> \o t) \o todo = Append(got, c) \o t \o todo
    BY <1>3
  <2>2. Append(got, c) \o t \o todo = Append(got, c) \o (t \o todo)
    BY <1>3
  <2>3. t \o todo \in Seq(Chunks) /\ Append(got, c) \in Seq(Chunks)
    BY <1>3
  <2> QED BY <1>2, <1>3, <2>1, <2>2, <2>3 DEF Made
<1>5. Translated' = Translated /\ Sent' = Sent
  BY <1>2 DEF Translated, Sent
<1>6. TranslatorIsAhead'
  BY <1>2, <1>4, <1>5, Zenon DEF Answering, TranslatorIsAhead
<1>7. ChunksArePart' /\ BlocksBegan'
  BY <1>2, <1>4, <1>5 DEF Answering, ChunksArePart, BlocksBegan
<1>8. StepIsBehind'
  <2>1. asm \in Assemblies
    BY ExpandTyped, AssembledTyped DEF Replays, Records
  <2>2. NoFinish(got)
    BY <1>2 DEF Streamed, ChunksTyped, FinishIsLast
  <2>3. Begins(Append(got, c), st.blocks)
    <3>1. Begins(Append(got, c) \o (t \o todo), st.blocks)
      BY <1>4 DEF Answering, ChunksArePart, Partly
    <3> QED BY <1>4, <3>1, BeginsJoin
  <2>4. Gathered(asm, got)
    BY DEF Answering, StepIsBehind
  <2>5. Gathered(Assemble(asm, c), Append(got, c))
    BY <1>3, <2>1, <2>2, <2>3, <2>4, AssembleGathers
  <2> QED BY <1>2, <2>5 DEF StepIsBehind
<1>9. FinishIsHonest'
  BY <1>2, <1>4, <1>5, Zenon DEF Answering, FinishIsHonest
<1> QED BY <1>6, <1>7, <1>8, <1>9 DEF Answering

-----------------------------------------------------------------------------
(* An answer is made once, of all the step received.                       *)

LEMMA StaysConcluded ==
  ASSUME Streamed, Concluded, AnswerIsWhole, [Next]_vars, ~StepConcludes
  PROVE  Concluded' /\ AnswerIsWhole'
<1>1. CASE outcome \in {"none", "error"}
  <2>1. outcome' \in {"none", "error"}
    BY <1>1 DEF Next, vars, Request, ScanReads, ScanHears, ScanAlone, ScanRenews, ScanBreaks, ScanIdles, PumpStep,
       PumpTakes, PumpSeesCancel, PumpSends, PumpGivesUp, StepStep, StepReceives, Cancel
  <2> QED BY <2>1 DEF Concluded, AnswerIsWhole
<1>2. CASE outcome \notin {"none", "error"}
  <2>1. pump = "closed" /\ todo = <<>>
    BY <1>2 DEF Concluded, Streamed, FinishIsLast
  <2>2. UNCHANGED <<wire, pump, cancelled, got, outcome, kept>>
    BY <1>2, <2>1 DEF Next, vars, Request, ScanReads, ScanHears, ScanAlone, ScanRenews, ScanBreaks, ScanIdles, PumpStep,
       PumpTakes, PumpSeesCancel, PumpSends, PumpGivesUp, StepStep, StepReceives, Cancel
  <2>3. Sent' = Sent
    BY <2>2 DEF Sent
  <2>4. Concluded'
    BY <2>2 DEF Concluded
  <2>5. AnswerIsWhole'
    BY <2>2, <2>3, Zenon DEF AnswerIsWhole
  <2> QED BY <2>4, <2>5
<1> QED BY <1>1, <1>2

LEMMA ConcludesAnswers ==
  ASSUME Streamed, Replays, Answering, StepConcludes
  PROVE  Answers'
<1>1. /\ pump = "closed" /\ out = <<>> /\ todo = <<>> /\ kept' \in blocks(asm)
      /\ UNCHANGED <<wire, scan, event, pump, todo, st, out, cancelled, got, asm>>
  BY DEF StepConcludes, Streamed, FinishIsLast
<1>2. /\ got \in Seq(Chunks) /\ Sent \in Seq(Pieces) /\ st.blocks \in Seq(BlockType) /\ asm \in Assemblies
  BY AnswerTyped, ExpandTyped, AssembledTyped DEF Replays, Records
<1>3. Made = got
  <2>1. Made = got \o <<>> \o <<>>
    BY <1>1 DEF Made
  <2> QED BY <1>2, <2>1
<1>4. Made' = Made /\ Translated' = Translated /\ Sent' = Sent
  BY <1>1 DEF Made, Translated, Sent
<1>5. Answering'
  <2>1. TranslatorIsAhead'
    BY <1>1, <1>4, Zenon DEF Answering, TranslatorIsAhead
  <2>2. ChunksArePart' /\ StepIsBehind' /\ BlocksBegan'
    BY <1>1, <1>4 DEF Answering, ChunksArePart, StepIsBehind, BlocksBegan
  <2>3. FinishIsHonest'
    BY <1>1, <1>4, Zenon DEF Answering, FinishIsHonest
  <2> QED BY <2>1, <2>2, <2>3 DEF Answering
<1>6. Gathered(asm, got) /\ Partly(got, st.blocks) /\ IsBeginning(st.blocks, Sent)
  BY <1>3 DEF Answering, StepIsBehind, ChunksArePart, BlocksBegan
<1>7. IsBeginning(kept', Sent)
  BY <1>1, <1>2, <1>6, KeptBegins
\* The step tells an error and a cut stream by the finish.
<1>8. /\ asm.finish = "error" => outcome' = "error"
      /\ asm.finish = "aborted" => outcome' \in {"interrupted", "aborted"}
      /\ outcome' = "interrupted" => asm.finish = "aborted"
  BY DEF StepConcludes
<1>9. AnswerIsWhole'
  <2>1. SUFFICES ASSUME outcome' \in {"completed", "tools", "max-tokens", "interrupted"}
                 PROVE  IF HasFinish(got) /\ outcome' # "interrupted" THEN IsWhole(kept', Sent)
                        ELSE cancelled /\ IsBeginning(kept', Sent)
    BY <1>1, <1>4, Zenon DEF AnswerIsWhole
  <2>2. CASE ~HasFinish(got)
    <3>1. \A k \in DOMAIN got : got[k].type # "finish"
      BY <2>2 DEF HasFinish
    <3>2. NoFinish(got) /\ ~OneFinish(got) /\ ~OneFinish(out)
      BY <1>1, <3>1 DEF NoFinish, OneFinish, HasFinish
    <3>3. cancelled
      BY <1>1, <3>2 DEF Streamed, FinishIsLast
    <3> QED BY <1>7, <2>2, <3>3
  <2>3. CASE HasFinish(got)
    <3>1. PICK k \in DOMAIN got : got[k].type = "finish"
      BY <2>3 DEF HasFinish
    <3>2. asm.finish = got[k].finish /\ got[k].finish # "error"
      BY <1>6, <1>8, <2>1, <3>1 DEF Gathered
    <3>3. \/ got[k].finish = "aborted" /\ cancelled
          \/ /\ got[k].finish # "aborted"
             /\ IsWhole(st.blocks, Sent) /\ EndsIn(got) = EndsOf(st.blocks)
      BY <1>3, <3>1, <3>2 DEF Answering, FinishIsHonest
    <3>4. CASE got[k].finish = "aborted" /\ cancelled
      <4>1. outcome' = "interrupted"
        BY <1>8, <2>1, <3>2, <3>4
      <4> QED BY <1>7, <3>4, <4>1
    <3>5. CASE /\ got[k].finish # "aborted"
               /\ IsWhole(st.blocks, Sent) /\ EndsIn(got) = EndsOf(st.blocks)
      <4>1. outcome' # "interrupted"
        BY <1>8, <3>2, <3>5
      <4>2. kept' = st.blocks
        BY <1>1, <1>2, <1>6, <3>5, KeptIsAll DEF Partly
      <4> QED BY <2>3, <3>5, <4>1, <4>2
    <3> QED BY <3>3, <3>4, <3>5
  <2> QED BY <2>2, <2>3
<1>10. Concluded'
  BY <1>1 DEF Concluded
<1> QED BY <1>5, <1>9, <1>10 DEF Answers

LEMMA NextAnswers ==
  ASSUME Streamed, Replays, Answers, [Next]_vars
  PROVE  Answers'
<1> USE DEF Answers
<1>1. CASE StepConcludes
  BY <1>1, ConcludesAnswers
<1>2. CASE ~StepConcludes
  <2>1. Concluded' /\ AnswerIsWhole'
    BY <1>2, StaysConcluded
  <2>2. CASE Request \/ Cancel
    BY <2>1, <2>2, RequestAnswers
  <2>3. CASE ScanReads \/ ScanHears \/ ScanAlone
    BY <2>1, <2>3, ScanAnswers, LineAnswers DEF ScanAlone
  <2>4. CASE PumpStep
    <3>1. CASE PumpTakes
      BY <2>1, <3>1, TakesDataAnswers, TakesDoneAnswers, StopsAnswers
    <3> QED BY <2>1, <2>4, <3>1, StopsAnswers, SendsAnswers, GivesUpAnswers DEF PumpStep
  <2>5. CASE StepReceives
    BY <2>1, <2>5, ReceivesAnswers
  <2>6. CASE UNCHANGED vars
    <3>1. UNCHANGED <<wire, scan, event, pump, todo, st, out, cancelled, got, asm>>
      BY <2>6 DEF vars
    <3>2. Made' = Made /\ Translated' = Translated /\ Sent' = Sent
      BY <3>1 DEF Made, Translated, Sent
    <3>3. TranslatorIsAhead' /\ FinishIsHonest'
      BY <3>1, <3>2, Zenon DEF Answering, TranslatorIsAhead, FinishIsHonest
    <3>4. ChunksArePart' /\ StepIsBehind' /\ BlocksBegan'
      BY <3>1, <3>2 DEF Answering, ChunksArePart, StepIsBehind, BlocksBegan
    <3> QED BY <2>1, <3>3, <3>4 DEF Answering
  <2> QED BY <1>2, <2>2, <2>3, <2>4, <2>5, <2>6 DEF Next, StepStep
<1> QED BY <1>1, <1>2

\* An answer the step takes for complete says all the provider sent and nothing
\* else, of a cut one a beginning is kept, and without a finish only a cancel
\* passes for one (openai.go:646-836, assembler.go:51-156, agent.go:246-307).
THEOREM AnswersAreWhole == Spec => []AnswerIsWhole
<1>1. Answers => AnswerIsWhole
  BY DEF Answers
<1>2. Streamed /\ Replays /\ Answers /\ [Next]_vars => Answers'
  BY NextAnswers
<1> QED BY <1>1, <1>2, AnsweringAtFirst, ReplaysThroughout, PTL DEF Spec
=============================================================================
