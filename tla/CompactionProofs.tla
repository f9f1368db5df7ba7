--------------------------- MODULE CompactionProofs ---------------------------
(***************************************************************************)
(* Theorems about Compaction, for logs of every length and any number of   *)
(* turns, calls, commands and crashes.                                     *)
(***************************************************************************)
EXTENDS Compaction, WellFoundedInduction, TLAPS

LP == INSTANCE SessionLogProofs WITH firstLiveSeq <- 0

-----------------------------------------------------------------------------
(* The calls of the open turn are collected by recursion along the log.    *)

Collects(events, from, k, f) ==
  f = [i \in 0..k |-> IF i < from THEN <<>> ELSE f[i - 1] \o events[i].calls]

LEMMA CollectionsExist ==
  ASSUME NEW events, NEW k \in Nat, NEW from \in Nat \ {0}
  PROVE  \E f : Collects(events, from, k, f)
<1> DEFINE Good == {n \in Nat : \E f : Collects(events, from, n, f)}
<1>1. 0 \in Good
  <2> DEFINE f == [i \in 0..0 |-> <<>>]
  <2>1. Collects(events, from, 0, f)
    BY DEF Collects
  <2> QED BY <2>1
<1>2. ASSUME NEW n \in Nat, n \in Good PROVE n + 1 \in Good
  <2>1. PICK f : Collects(events, from, n, f)
    BY <1>2
  <2> DEFINE last == IF n + 1 < from THEN <<>> ELSE f[n] \o events[n + 1].calls
             g == [i \in 0..(n + 1) |-> IF i = n + 1 THEN last ELSE f[i]]
  <2>2. \A i \in 0..n : g[i] = f[i]
    OBVIOUS
  <2>3. \A i \in 0..n : f[i] = IF i < from THEN <<>> ELSE f[i - 1] \o events[i].calls
    BY <2>1 DEF Collects
  <2>4. ASSUME NEW i \in 0..(n + 1)
        PROVE  g[i] = IF i < from THEN <<>> ELSE g[i - 1] \o events[i].calls
    <3>1. CASE i = n + 1
      BY <3>1, <2>2
    <3>2. CASE i # n + 1
      <4>1. i \in 0..n /\ (~(i < from) => i - 1 \in 0..n)
        BY <3>2
      <4> QED BY <4>1, <2>2, <2>3
    <3> QED BY <3>1, <3>2
  <2>5. Collects(events, from, n + 1, g)
    BY <2>4 DEF Collects
  <2> QED BY <2>5
<1> HIDE DEF Good
<1>3. k \in Good
  BY <1>1, <1>2, CompactionAssumption, LP!NaturalsIn
<1> QED BY <1>3 DEF Good

LEMMA CollectionsTyped ==
  ASSUME NEW events, NEW k \in Nat, NEW from \in Nat \ {0}, NEW f, Collects(events, from, k, f),
         \A i \in 1..k : events[i].calls \in Seq(Nat)
  PROVE  f[k] \in Seq(Nat)
<1> DEFINE Good == {n \in Nat : n <= k => f[n] \in Seq(Nat)}
<1>1. ASSUME NEW i \in 0..k
      PROVE  f[i] = IF i < from THEN <<>> ELSE f[i - 1] \o events[i].calls
  BY DEF Collects
<1>2. 0 \in Good
  <2>1. 0 \in 0..k /\ 0 < from
    OBVIOUS
  <2>2. f[0] = <<>>
    BY <1>1, <2>1, Zenon
  <2>3. <<>> \in Seq(Nat)
    OBVIOUS
  <2> QED BY <2>2, <2>3
<1>3. ASSUME NEW n \in Nat, n \in Good PROVE n + 1 \in Good
  <2>1. SUFFICES ASSUME n + 1 <= k PROVE f[n + 1] \in Seq(Nat)
    OBVIOUS
  <2>2. n + 1 \in 0..k /\ n + 1 \in 1..k /\ (n + 1) - 1 = n /\ f[n] \in Seq(Nat)
    BY <1>3, <2>1
  <2>3. f[n + 1] = IF n + 1 < from THEN <<>> ELSE f[(n + 1) - 1] \o events[n + 1].calls
    BY <1>1, <2>2, Zenon
  <2> QED BY <2>2, <2>3
<1> HIDE DEF Good
<1>4. k \in Good
  BY <1>2, <1>3, CompactionAssumption, LP!NaturalsIn
<1> QED BY <1>4 DEF Good

\* What is collected was at its place or behind from.
LEMMA CollectionsHold ==
  ASSUME NEW events, NEW k \in Nat, NEW from \in Nat \ {0}, NEW f, Collects(events, from, k, f),
         \A i \in 1..k : events[i].calls \in Seq(Nat)
  PROVE  \A c \in ToSet(f[k]) : \E i \in 1..k : i >= from /\ c \in ToSet(events[i].calls)
<1> DEFINE Held(c, n) == \E i \in 1..n : i >= from /\ c \in ToSet(events[i].calls)
           Good == {n \in Nat : n <= k => \A c \in ToSet(f[n]) : Held(c, n)}
<1>1. ASSUME NEW i \in 0..k
      PROVE  f[i] = IF i < from THEN <<>> ELSE f[i - 1] \o events[i].calls
  BY DEF Collects
<1>2. 0 \in Good
  <2>1. f[0] = <<>>
    <3>1. 0 \in 0..k /\ 0 < from
      OBVIOUS
    <3> QED BY <1>1, <3>1, Zenon
  <2>2. ToSet(f[0]) = {}
    BY <2>1 DEF ToSet
  <2> QED BY <2>2
<1>3. ASSUME NEW n \in Nat, n \in Good PROVE n + 1 \in Good
  <2>1. SUFFICES ASSUME n + 1 <= k, NEW c \in ToSet(f[n + 1]) PROVE Held(c, n + 1)
    OBVIOUS
  <2>2. n + 1 \in 0..k /\ n + 1 \in 1..k /\ (n + 1) - 1 = n /\ n <= k
    BY <2>1
  <2>3. f[n + 1] = IF n + 1 < from THEN <<>> ELSE f[(n + 1) - 1] \o events[n + 1].calls
    BY <1>1, <2>2, Zenon
  <2>4. ~(n + 1 < from)
    <3>1. SUFFICES ASSUME n + 1 < from PROVE FALSE
      OBVIOUS
    <3>2. f[n + 1] = <<>>
      BY <2>3, <3>1
    <3> QED BY <2>1, <3>2 DEF ToSet
  <2>5. PICK left \in Seq(Nat) : left = f[n]
    <3>1. Collects(events, from, n, [i \in 0..n |-> f[i]])
      <4> DEFINE g == [i \in 0..n |-> f[i]]
      <4>1. ASSUME NEW i \in 0..n
            PROVE  g[i] = IF i < from THEN <<>> ELSE g[i - 1] \o events[i].calls
        <5>1. i \in 0..k /\ (~(i < from) => i - 1 \in 0..n)
          BY <2>2
        <5> QED BY <1>1, <5>1
      <4> QED BY <4>1 DEF Collects
    <3>2. \A i \in 1..n : events[i].calls \in Seq(Nat)
      BY <2>2
    <3>3. [i \in 0..n |-> f[i]][n] \in Seq(Nat)
      BY <3>1, <3>2, CollectionsTyped
    <3> QED BY <3>3
  <2>6. PICK right \in Seq(Nat) : right = events[n + 1].calls
    BY <2>2
  <2>7. f[n + 1] = left \o right
    BY <2>2, <2>3, <2>4, <2>5, <2>6
  <2>8. PICK x \in 1..(Len(left) + Len(right)) : c = (left \o right)[x]
    <3>1. DOMAIN (left \o right) = 1..(Len(left) + Len(right))
      OBVIOUS
    <3> QED BY <2>1, <2>7, <3>1 DEF ToSet
  <2>9. CASE x <= Len(left)
    <3>1. c = left[x] /\ x \in DOMAIN left
      BY <2>8, <2>9
    <3>2. Held(c, n)
      BY <1>3, <2>2, <2>5, <3>1 DEF ToSet
    <3>3. \A i \in 1..n : i \in 1..(n + 1)
      OBVIOUS
    <3> QED BY <3>2, <3>3
  <2>10. CASE x > Len(left)
    <3>1. c = right[x - Len(left)] /\ x - Len(left) \in DOMAIN right
      BY <2>8, <2>10
    <3>2. c \in ToSet(events[n + 1].calls) /\ n + 1 \in 1..(n + 1) /\ n + 1 >= from
      BY <2>4, <2>6, <3>1 DEF ToSet
    <3> QED BY <3>2
  <2> QED BY <2>8, <2>9, <2>10
<1> HIDE DEF Good
<1>4. k \in Good
  BY <1>2, <1>3, CompactionAssumption, LP!NaturalsIn
<1> QED BY <1>4 DEF Good

LEMMA MaxIsIn ==
  ASSUME NEW n \in Nat, NEW S, S \subseteq 1..n, S # {}
  PROVE  Max(S) \in S /\ \A x \in S : x <= Max(S)
<1> DEFINE Gaps == {n - x : x \in S}
<1>1. PICK g \in Gaps : \A h \in Gaps : g <= h
  <2>1. Gaps \subseteq Nat
    <3>1. ASSUME NEW x \in S PROVE n - x \in Nat
      <4>1. x \in 1..n
        OBVIOUS
      <4> QED BY <4>1
    <3> QED BY <3>1
  <2>2. Gaps # {}
    OBVIOUS
  <2> HIDE DEF Gaps
  <2> QED BY <2>1, <2>2, CompactionAssumption, LP!LeastNatural
<1>2. PICK m \in S : g = n - m
  BY <1>1
<1>3. \A x \in S : m >= x
  BY <1>1, <1>2
<1> QED BY <1>3 DEF Max

LEMMA OpenCallsTyped ==
  ASSUME Len(log) \in Nat, \A i \in 1..Len(log) : log[i].calls \in Seq(Nat),
         DOMAIN log = 1..Len(log)
  PROVE  /\ OpenCalls \in Seq(Nat)
         /\ \A c \in ToSet(OpenCalls) : \E i \in 1..Len(log) :
              /\ c \in ToSet(log[i].calls)
              /\ \A j \in (i + 1)..Len(log) : log[j].type # "turn/end"
<1> DEFINE before == {i \in DOMAIN log : log[i].type = "turn/end"}
           from == IF before = {} THEN 1 ELSE Max(before) + 1
           ids == CHOOSE f : f = [i \in 0..Len(log) |->
                    IF i < from THEN <<>> ELSE f[i - 1] \o log[i].calls]
<1>1. from \in Nat \ {0}
  <2>1. CASE before = {}
    BY <2>1
  <2>2. CASE before # {}
    <3>1. before \subseteq 1..Len(log)
      OBVIOUS
    <3> HIDE DEF before
    <3>2. Max(before) \in before
      BY <2>2, <3>1, MaxIsIn
    <3>3. Max(before) \in 1..Len(log) /\ from = Max(before) + 1
      BY <2>2, <3>1, <3>2
    <3> QED BY <3>3
  <2> QED BY <2>1, <2>2
<1>6. \A i \in 1..Len(log) : i >= from => \A j \in (i + 1)..Len(log) : log[j].type # "turn/end"
  <2>1. SUFFICES ASSUME NEW i \in 1..Len(log), i >= from, NEW j \in (i + 1)..Len(log),
                        log[j].type = "turn/end"
                 PROVE  FALSE
    OBVIOUS
  <2>2. j \in before /\ before # {} /\ before \subseteq 1..Len(log)
    BY <2>1
  <2>3. from = Max(before) + 1
    BY <2>2
  <2> HIDE DEF before, from
  <2>4. Max(before) \in before /\ j <= Max(before)
    BY <2>2, MaxIsIn
  <2>5. Max(before) \in 1..Len(log)
    BY <2>2, <2>4, Zenon
  <2>6. PICK m \in 1..Len(log) : m = Max(before)
    BY <2>5
  <2>7. j > i /\ i >= m + 1 /\ j <= m
    BY <2>1, <2>3, <2>4, <2>6
  <2>8. i \in Int /\ j \in Int /\ m \in Int
    BY <2>1, <2>6
  <2> QED BY <2>7, <2>8
<1>2. OpenCalls = ids[Len(log)]
  BY DEF OpenCalls
<1> HIDE DEF from
<1>3. \E f : f = [i \in 0..Len(log) |-> IF i < from THEN <<>> ELSE f[i - 1] \o log[i].calls]
  BY <1>1, CollectionsExist DEF Collects
<1>4. ids = [i \in 0..Len(log) |-> IF i < from THEN <<>> ELSE ids[i - 1] \o log[i].calls]
  BY <1>3
<1>5. Collects(log, from, Len(log), ids)
  BY <1>4 DEF Collects
<1> HIDE DEF ids
<1>7. OpenCalls \in Seq(Nat)
  BY <1>1, <1>2, <1>5, CollectionsTyped
<1>8. \A c \in ToSet(OpenCalls) : \E i \in 1..Len(log) : i >= from /\ c \in ToSet(log[i].calls)
  BY <1>1, <1>2, <1>5, CollectionsHold
<1> QED BY <1>6, <1>7, <1>8

-----------------------------------------------------------------------------
(* The invariant, part by part.                                            *)

Ops == [op : {"none", "append", "replace"}, start : Int, end : Int]
Types == {"system/message", "user/message", "assistant/message", "tool/result", "turn/start",
          "turn/end", "compaction/start", "compaction/summary", "compaction/end"}
Entries == [kind : {"log", "message"}, op : Ops, type : Types, calls : Seq(Nat), call : Nat,
            covers : SUBSET Nat]

LogTyped ==
  /\ log \in Seq(Entries) /\ Len(log) <= MaxEvents
  /\ surface \in Seq(Nat) /\ LP!Distinct(surface)
  /\ \A i \in DOMAIN surface : surface[i] < Len(log)

TurnPlaces == {"off", "system", "start", "claim", "loop", "pressure", "overflow", "compacting",
               "stream", "tools", "ended", "end"}
Turns == [pc : TurnPlaces, step : 0..MaxSteps, todo : Seq(Nat), overflows : 0..2,
          started : BOOLEAN]
Engines == [by : {"none", "turn", "manual"}, stage : Stages,
            trigger : {"none", "pressure", "overflow", "manual"},
            region : Seq(Nat), pre : Seq(Nat), attempts : 0..1]

ControlTyped ==
  /\ turn \in Turns /\ engine \in Engines
  /\ command \in {"off", "asked", "compacting", "notice"}
  /\ spent \in [turns : Nat, calls : Nat, commands : Nat, crashes : Nat]

\* The engine is held by the goroutine that is in it, for what it came for.
Holders ==
  /\ engine.by = "turn" <=> turn.pc = "compacting"
  /\ engine.by = "manual" <=> command = "compacting"
  /\ engine.by = "none" <=> engine.stage = "off"
  /\ engine.by = "none" => engine.trigger = "none"
  /\ engine.by = "turn" => engine.trigger \in {"pressure", "overflow"}
  /\ engine.by = "manual" => engine.trigger = "manual"
  /\ turn.pc = "pressure" \/ engine.trigger = "pressure" => turn.step < MaxSteps

\* From its claim to its end a turn is open in the log.
InTurn == {"claim", "loop", "pressure", "overflow", "compacting", "stream", "tools", "ended"}
TurnIsOpen == turn.pc \in InTurn => OpenTurn

\* A command that found no turn open keeps the turn from its next step.
CommandApart ==
  engine.by = "manual" /\ engine.stage \notin {"enter", "begin"} =>
    turn.pc \notin {"stream", "tools", "overflow"}

\* The region is still what lies on the surface between its ends.
Lies(region, nodes) ==
  /\ region # <<>>
  /\ \E p \in DOMAIN nodes :
       /\ p + Len(region) - 1 <= Len(nodes)
       /\ \A k \in DOMAIN region : nodes[p + k - 1] = region[k]
RegionLies == engine.stage \notin {"off", "enter", "end"} => Lies(engine.region, surface)

\* A system message at the head of the surface is in no region.
Spares(region) == FirstCompactable = 2 => surface[1] \notin ToSet(region)
HeadApart == engine.stage \notin {"off", "enter", "end"} => Spares(engine.region)

Covered(seqs) == \E j \in DOMAIN log : log[j].type = "compaction/summary" /\ log[j].covers = seqs
SummaryFirst == engine.stage = "replace" => Covered(ToSet(engine.region))

IInv ==
  /\ LogTyped /\ ControlTyped /\ Holders
  /\ TurnIsOpen /\ CommandApart /\ ActiveIsInEngine
  /\ RegionLies /\ HeadApart /\ SummaryFirst /\ HiddenWasSummarized

-----------------------------------------------------------------------------
(* What a step does to log and surface.                                    *)

Quiet == log' = log /\ surface' = surface

Adds(e) ==
  /\ log' = Append(log, e)
  /\ surface' = IF e.kind = "message" THEN Append(surface, Len(log)) ELSE surface

\* No call and no answer to one.
Bare(e) == e.calls = <<>> /\ e.call = 0
Neutral(e) == Bare(e) /\ e.type \notin {"assistant/message", "tool/result"}

LEMMA EntriesTyped ==
  /\ \A t \in Types : /\ Record(t) \in Entries /\ Record(t).kind = "log"
                       /\ Record(t).op.op = "none" /\ Record(t).type = t
                       /\ Message(t) \in Entries /\ Message(t).kind = "message"
                       /\ Message(t).op.op = "append" /\ Message(t).type = t
                       /\ Bare(Record(t)) /\ Bare(Message(t))
  /\ \A ids \in Seq(Nat) : /\ AssistantMessage(ids) \in Entries
                           /\ AssistantMessage(ids).kind = "message"
                           /\ AssistantMessage(ids).op.op = "append"
                           /\ AssistantMessage(ids).type = "assistant/message"
                           /\ AssistantMessage(ids).calls = ids /\ AssistantMessage(ids).call = 0
  /\ \A id \in Nat : /\ ToolResult(id) \in Entries /\ ToolResult(id).kind = "message"
                     /\ ToolResult(id).op.op = "append" /\ ToolResult(id).type = "tool/result"
                     /\ ToolResult(id).calls = <<>> /\ ToolResult(id).call = id
<1>1. ASSUME NEW t \in Types
      PROVE  /\ Record(t) \in Entries /\ Record(t).kind = "log"
             /\ Record(t).op.op = "none" /\ Record(t).type = t /\ Bare(Record(t))
  BY DEF Record, Sess!NoOp, Entries, Ops, Bare
<1>2. ASSUME NEW t \in Types
      PROVE  /\ Message(t) \in Entries /\ Message(t).kind = "message"
             /\ Message(t).op.op = "append" /\ Message(t).type = t /\ Bare(Message(t))
  <2> DEFINE r == Record(t)
             a == Sess!AppendOp
  <2>1. a \in Ops /\ a.op = "append"
    BY DEF Sess!AppendOp, Ops
  <2>2. r \in Entries /\ r.type = t /\ Bare(r)
    BY <1>1
  <2>3. Message(t) = [[r EXCEPT !.kind = "message"] EXCEPT !.op = a]
    BY DEF Message
  <2> HIDE DEF r, a
  <2>4. [r EXCEPT !.kind = "message"] \in Entries
    BY <2>2 DEF Entries
  <2> QED BY <2>1, <2>2, <2>3, <2>4 DEF Entries, Bare
<1>3. ASSUME NEW ids \in Seq(Nat)
      PROVE  /\ AssistantMessage(ids) \in Entries /\ AssistantMessage(ids).kind = "message"
             /\ AssistantMessage(ids).op.op = "append"
             /\ AssistantMessage(ids).type = "assistant/message"
             /\ AssistantMessage(ids).calls = ids /\ AssistantMessage(ids).call = 0
  <2> DEFINE m == Message("assistant/message")
  <2>1. /\ m \in Entries /\ m.kind = "message" /\ m.op.op = "append"
        /\ m.type = "assistant/message" /\ Bare(m)
    BY <1>2 DEF Types
  <2>2. AssistantMessage(ids) = [m EXCEPT !.calls = ids]
    BY DEF AssistantMessage
  <2> HIDE DEF m
  <2> QED BY <2>1, <2>2 DEF Entries, Bare
<1>4. ASSUME NEW id \in Nat
      PROVE  /\ ToolResult(id) \in Entries /\ ToolResult(id).kind = "message"
             /\ ToolResult(id).op.op = "append" /\ ToolResult(id).type = "tool/result"
             /\ ToolResult(id).calls = <<>> /\ ToolResult(id).call = id
  <2> DEFINE m == Message("tool/result")
  <2>1. /\ m \in Entries /\ m.kind = "message" /\ m.op.op = "append"
        /\ m.type = "tool/result" /\ Bare(m)
    BY <1>2 DEF Types
  <2>2. ToolResult(id) = [m EXCEPT !.call = id]
    BY DEF ToolResult
  <2> HIDE DEF m
  <2> QED BY <2>1, <2>2 DEF Entries, Bare
<1> QED BY <1>1, <1>2, <1>3, <1>4

LEMMA Appended ==
  ASSUME NEW e \in Entries, e.op.op # "replace", AppendEvent(e)
  PROVE  Adds(e) /\ Len(log) < MaxEvents
BY DEF AppendEvent, Sess!AppendEvent, Sess!applySurface, Sess!HasMessage, Adds

LEMMA AddsKeepsTypes ==
  ASSUME LogTyped, NEW e \in Entries, Adds(e), Len(log) < MaxEvents
  PROVE  LogTyped'
<1>0. MaxEvents \in Nat
  BY CompactionAssumption
<1>1. /\ log' \in Seq(Entries) /\ Len(log') = Len(log) + 1 /\ Len(log) \in Nat
      /\ surface \in Seq(Nat) /\ LP!Distinct(surface)
      /\ \A i \in DOMAIN surface : surface[i] < Len(log)
  BY DEF LogTyped, Adds
<1>2. CASE surface' = surface
  BY <1>0, <1>1, <1>2 DEF LogTyped, LP!Distinct
<1>3. CASE surface' = Append(surface, Len(log))
  <2>1. surface' \in Seq(Nat) /\ LP!Distinct(surface')
    BY <1>0, <1>1, <1>3, LP!AppendThins
  <2>2. \A i \in DOMAIN surface' : surface'[i] < Len(log')
    BY <1>1, <1>3
  <2> QED BY <1>0, <1>1, <2>1, <2>2 DEF LogTyped, LP!Distinct
<1> QED BY <1>2, <1>3 DEF Adds

-----------------------------------------------------------------------------
(* Control: who is where.                                                  *)

LEMMA Unlocks == Unlocked \in Engines /\ Unlocked.by = "none" /\ Unlocked.stage = "off"
                 /\ Unlocked.trigger = "none"
<1>1. <<>> \in Seq(Nat)
  OBVIOUS
<1> QED BY <1>1 DEF Unlocked, Engines, Stages

LEMMA TurnMoves ==
  ASSUME turn \in Turns, NEW pc \in TurnPlaces, Turn(pc)
  PROVE  /\ turn' \in Turns /\ turn'.pc = pc /\ turn'.step = turn.step
BY DEF Turn, Turns

Reset(t, pc) == [t EXCEPT !.pc = pc, !.overflows = 0]

LEMMA TurnResets ==
  ASSUME NEW t \in Turns, NEW pc \in TurnPlaces, NEW u, u = Reset(t, pc)
  PROVE  u \in Turns /\ u.pc = pc /\ u.step = t.step /\ u.todo = t.todo
<1> DEFINE v == [t EXCEPT !.overflows = 0]
<1>1. v \in Turns /\ v.step = t.step /\ v.todo = t.todo
  <2>1. 0 \in 0..2
    OBVIOUS
  <2> QED BY <2>1 DEF Turns
<1>2. u = [v EXCEPT !.pc = pc]
  BY DEF Turns, Reset
<1> HIDE DEF v
<1> QED BY <1>1, <1>2 DEF Turns

LEMMA LeavesTo ==
  ASSUME ControlTyped, Holders, engine.stage # "off", NEW done \in BOOLEAN, Leaves(done)
  PROVE  /\ engine' = Unlocked /\ turn' \in Turns
         /\ \/ engine.by = "manual" /\ command' = "notice" /\ turn' = turn
            \/ /\ engine.by = "turn" /\ command' = command
               /\ turn'.pc \in {"stream", "loop", "ended"}
<1>1. turn \in Turns /\ engine.by \in {"manual", "turn"} /\ MaxSteps \in Nat
  BY CompactionAssumption DEF ControlTyped, Holders, Engines
<1>2. CASE engine.by = "manual"
  BY <1>1, <1>2 DEF Leaves
<1>3. CASE engine.by = "turn"
  <2>1. /\ engine' = Unlocked /\ command' = command
        /\ turn' = IF engine.trigger = "pressure" THEN [turn EXCEPT !.pc = "stream", !.step = @ + 1]
                   ELSE [turn EXCEPT !.pc = IF done THEN "loop" ELSE "ended"]
    BY <1>3 DEF Leaves
  <2>2. CASE engine.trigger = "pressure"
    <3>1. turn' = [turn EXCEPT !.pc = "stream", !.step = @ + 1]
      BY <2>1, <2>2
    <3>2. turn.step \in Nat /\ turn.step < MaxSteps
      BY <1>1, <2>2 DEF Holders, Turns
    <3>3. turn.step + 1 \in 0..MaxSteps
      BY <1>1, <3>2
    <3> QED BY <1>1, <1>3, <2>1, <3>1, <3>3 DEF Turns, TurnPlaces
  <2>3. CASE engine.trigger # "pressure"
    <3>1. turn' \in {[turn EXCEPT !.pc = "loop"], [turn EXCEPT !.pc = "ended"]}
      BY <2>1, <2>3
    <3> QED BY <1>1, <1>3, <2>1, <3>1 DEF Turns, TurnPlaces
  <2> QED BY <2>2, <2>3
<1> QED BY <1>1, <1>2, <1>3

LEMMA LeavesKeepsControl ==
  ASSUME ControlTyped, Holders, engine.stage # "off", NEW done \in BOOLEAN, Leaves(done),
         spent' = spent
  PROVE  ControlTyped' /\ Holders'
<1>1. /\ engine' = Unlocked /\ turn' \in Turns
      /\ \/ engine.by = "manual" /\ command' = "notice" /\ turn' = turn
         \/ /\ engine.by = "turn" /\ command' = command
            /\ turn'.pc \in {"stream", "loop", "ended"}
  BY LeavesTo
<1> QED BY <1>1, Unlocks DEF ControlTyped, Holders

\* The turn goes on outside the engine.
LEMMA TurnKeepsControl ==
  ASSUME ControlTyped, Holders, engine' = engine, command' = command,
         turn' \in Turns, turn.pc # "compacting", turn'.pc # "compacting",
         turn'.pc = "pressure" => turn'.step < MaxSteps,
         engine.trigger = "pressure" => turn'.step = turn.step,
         spent' \in [turns : Nat, calls : Nat, commands : Nat, crashes : Nat]
  PROVE  ControlTyped' /\ Holders'
BY DEF ControlTyped, Holders

\* The holder goes on inside the engine.
LEMMA EngineKeepsControl ==
  ASSUME ControlTyped, Holders, turn' = turn, command' = command, spent' = spent,
         engine' \in Engines, engine.stage # "off", engine'.stage # "off",
         engine'.by = engine.by, engine'.trigger = engine.trigger
  PROVE  ControlTyped' /\ Holders'
BY DEF ControlTyped, Holders

LEMMA TurnControl ==
  ASSUME LogTyped, ControlTyped, Holders, TurnStep \/ Prompt
  PROVE  ControlTyped' /\ Holders'
<1>1. /\ turn \in Turns /\ MaxSteps \in Nat
      /\ spent \in [turns : Nat, calls : Nat, commands : Nat, crashes : Nat]
  BY CompactionAssumption DEF ControlTyped
<1>2. engine.trigger = "pressure" => turn.pc = "compacting"
  BY DEF ControlTyped, Holders, Engines
<1>3. CASE Prompt
  <2>1. \E pc \in {"start", "system"} : turn' = [turn EXCEPT !.pc = pc, !.step = 0]
    BY <1>3 DEF Prompt
  <2>2. 0 \in 0..MaxSteps
    BY <1>1
  <2>3. turn' \in Turns /\ turn'.pc \notin {"compacting", "pressure"}
    BY <1>1, <2>1, <2>2 DEF Turns, TurnPlaces
  <2>4. /\ engine' = engine /\ command' = command /\ turn.pc = "off"
        /\ spent' = [spent EXCEPT !.turns = @ + 1]
    BY <1>3 DEF Prompt
  <2>5. spent' \in [turns : Nat, calls : Nat, commands : Nat, crashes : Nat]
    BY <1>1, <2>4
  <2> QED BY <1>2, <2>3, <2>4, <2>5, TurnKeepsControl
<1>4. CASE InjectSystem \/ TurnStart \/ ClaimMessage
  <2>1. /\ engine' = engine /\ command' = command /\ spent' = spent
        /\ turn.pc # "compacting" /\ turn' \in Turns /\ turn'.pc \notin {"compacting", "pressure"}
    BY <1>1, <1>4 DEF InjectSystem, TurnStart, ClaimMessage, Turn, Turns, TurnPlaces
  <2> QED BY <1>1, <1>2, <2>1, TurnKeepsControl
<1>5. CASE Loop
  <2>1. /\ engine' = engine /\ command' = command /\ spent' = spent
        /\ turn.pc # "compacting" /\ turn' \in Turns /\ turn'.pc # "compacting"
        /\ turn'.pc = "pressure" => turn'.step < MaxSteps
    BY <1>1, <1>5 DEF Loop, Turn, Turns, TurnPlaces
  <2> QED BY <1>1, <1>2, <2>1, TurnKeepsControl
<1>6. CASE StreamAnswers
  <2>1. PICK n \in 0..2 :
          LET ids == [i \in 1..n |-> spent.calls + i] IN
          /\ spent' = [spent EXCEPT !.calls = @ + n]
          /\ \/ \E pc \in {"end", "ended"} : turn' = [turn EXCEPT !.pc = pc, !.overflows = 0]
             \/ turn' = [turn EXCEPT !.pc = "tools", !.todo = ids, !.overflows = 0]
    BY <1>6 DEF StreamAnswers
  <2>2. [i \in 1..n |-> spent.calls + i] \in Seq(Nat)
    BY <1>1
  <2>3. turn' \in Turns /\ turn'.pc \notin {"compacting", "pressure"} /\ turn'.step = turn.step
    <3>1. ASSUME NEW pc \in {"end", "ended"}, turn' = [turn EXCEPT !.pc = pc, !.overflows = 0]
          PROVE  turn' \in Turns /\ turn'.pc = pc /\ turn'.step = turn.step
      <4>1. turn' = Reset(turn, pc)
        BY <3>1 DEF Reset
      <4> QED BY <1>1, <4>1, TurnResets DEF TurnPlaces
    <3>2. ASSUME NEW ids \in Seq(Nat),
                 turn' = [turn EXCEPT !.pc = "tools", !.todo = ids, !.overflows = 0]
          PROVE  turn' \in Turns /\ turn'.pc = "tools" /\ turn'.step = turn.step
      <4> DEFINE t == [turn EXCEPT !.todo = ids]
      <4>1. t \in Turns /\ t.step = turn.step
        BY <1>1 DEF Turns
      <4>2. turn' = Reset(t, "tools")
        BY <1>1, <3>2 DEF Turns, Reset
      <4> HIDE DEF t
      <4> QED BY <4>1, <4>2, TurnResets DEF TurnPlaces
    <3> QED BY <2>1, <2>2, <3>1, <3>2
  <2>4. spent' \in [turns : Nat, calls : Nat, commands : Nat, crashes : Nat]
    BY <1>1, <2>1
  <2>5. engine' = engine /\ command' = command /\ turn.pc = "stream"
    BY <1>6 DEF StreamAnswers
  <2> QED BY <1>2, <2>3, <2>4, <2>5, TurnKeepsControl
<1>7. CASE StreamFails
  <2>1. /\ engine' = engine /\ command' = command /\ spent' = spent
        /\ turn.pc # "compacting" /\ turn' \in Turns /\ turn'.pc \notin {"compacting", "pressure"}
    <3>1. \/ Turn("end") \/ Turn("ended")
          \/ turn.overflows < 2 /\ turn' = [turn EXCEPT !.pc = "overflow", !.overflows = @ + 1]
      BY <1>7 DEF StreamFails
    <3>2. CASE Turn("end") \/ Turn("ended")
      BY <1>1, <1>7, <3>2, TurnMoves DEF StreamFails, TurnPlaces
    <3>3. CASE turn.overflows < 2 /\ turn' = [turn EXCEPT !.pc = "overflow", !.overflows = @ + 1]
      <4>1. turn.overflows + 1 \in 0..2
        BY <1>1, <3>3 DEF Turns
      <4> QED BY <1>1, <1>7, <3>3, <4>1 DEF StreamFails, Turns, TurnPlaces
    <3> QED BY <3>1, <3>2, <3>3
  <2> QED BY <1>1, <1>2, <2>1, TurnKeepsControl
<1>8. CASE ToolReturns
  <2>1. Tail(turn.todo) \in Seq(Nat)
    BY <1>1, <1>8 DEF ToolReturns, Turns
  <2>2. /\ engine' = engine /\ command' = command /\ spent' = spent
        /\ turn.pc # "compacting" /\ turn' \in Turns /\ turn'.pc \notin {"compacting", "pressure"}
    BY <1>1, <1>8, <2>1 DEF ToolReturns, Turns, TurnPlaces
  <2> QED BY <1>1, <1>2, <2>2, TurnKeepsControl
<1>9. CASE ToolsDone
  <2>1. \E pc \in {"loop", "end"} : turn' \in Turns /\ turn'.pc = pc
    BY <1>1, <1>9, TurnMoves DEF ToolsDone, TurnPlaces
  <2>2. engine' = engine /\ command' = command /\ spent' = spent /\ turn.pc = "tools"
    BY <1>9 DEF ToolsDone
  <2> QED BY <1>1, <1>2, <2>1, <2>2, TurnKeepsControl
<1>10. CASE TurnEnd
  <2>1. /\ engine' = engine /\ command' = command /\ spent' = spent
        /\ turn.pc # "compacting" /\ turn' \in Turns /\ turn'.pc \notin {"compacting", "pressure"}
    <3>1. CASE Turn("end")
      BY <1>1, <1>10, <3>1, TurnMoves DEF TurnEnd, TurnPlaces
    <3>2. CASE turn' = [turn EXCEPT !.pc = "off", !.overflows = 0]
      <4>1. turn' = Reset(turn, "off")
        BY <3>2 DEF Reset
      <4> QED BY <1>1, <1>10, <4>1, TurnResets DEF TurnEnd, TurnPlaces
    <3> QED BY <1>10, <3>1, <3>2 DEF TurnEnd
  <2> QED BY <1>1, <1>2, <2>1, TurnKeepsControl
<1> QED BY <1>3, <1>4, <1>5, <1>6, <1>7, <1>8, <1>9, <1>10 DEF TurnStep

LEMMA CommandControl ==
  ASSUME LogTyped, ControlTyped, Holders, Compact \/ Notice \/ TurnLocks \/ CommandLocks \/ Resume
  PROVE  ControlTyped' /\ Holders'
<1>1. /\ turn \in Turns /\ engine \in Engines /\ MaxSteps \in Nat
      /\ spent \in [turns : Nat, calls : Nat, commands : Nat, crashes : Nat]
  BY CompactionAssumption DEF ControlTyped
<1>2. CASE Compact \/ Notice
  <2>1. /\ engine' = engine /\ turn' = turn /\ command # "compacting"
        /\ command' \in {"off", "asked"}
        /\ spent' \in [turns : Nat, calls : Nat, commands : Nat, crashes : Nat]
    BY <1>1, <1>2 DEF Compact, Notice
  <2> QED BY <2>1 DEF ControlTyped, Holders
<1>3. ASSUME NEW by \in {"turn", "manual"}, NEW trigger \in {"pressure", "overflow", "manual"},
             Locks(by, trigger)
      PROVE  /\ engine' \in Engines /\ engine'.by = by /\ engine'.trigger = trigger
             /\ engine'.stage = "enter"
  BY <1>3, Unlocks DEF Locks, Engines, Stages
<1>4. CASE TurnLocks
  <2>1. /\ engine' \in Engines /\ engine'.by = "turn" /\ engine'.trigger = turn.pc
        /\ engine'.stage = "enter"
    BY <1>3, <1>4 DEF TurnLocks
  <2>2. turn' \in Turns /\ turn'.pc = "compacting" /\ turn'.step = turn.step
    BY <1>1, <1>4, TurnMoves DEF TurnLocks, TurnPlaces
  <2>3. /\ turn.pc \in {"pressure", "overflow"} /\ engine.by = "none"
        /\ command' = command /\ spent' = spent
    BY <1>4 DEF TurnLocks
  <2> QED BY <2>1, <2>2, <2>3 DEF ControlTyped, Holders
<1>5. CASE CommandLocks
  <2>1. /\ engine' \in Engines /\ engine'.by = "manual" /\ engine'.trigger = "manual"
        /\ engine'.stage = "enter"
    BY <1>3, <1>5 DEF CommandLocks
  <2>2. /\ turn' = turn /\ engine.by = "none" /\ command' = "compacting" /\ spent' = spent
    BY <1>5 DEF CommandLocks
  <2> QED BY <2>1, <2>2 DEF ControlTyped, Holders
<1>6. CASE Resume
  <2>1. <<>> \in Seq(Nat)
    OBVIOUS
  <2>2. NoTurn \in Turns /\ NoTurn.pc = "off"
    BY <1>1, <2>1 DEF NoTurn, Turns, TurnPlaces
  <2>3. /\ turn' = [NoTurn EXCEPT !.started = TRUE] /\ command' = "off" /\ engine' = Unlocked
        /\ spent' = [spent EXCEPT !.crashes = @ + 1]
    BY <1>6 DEF Resume
  <2>4. turn' \in Turns /\ turn'.pc = "off"
    BY <2>2, <2>3 DEF Turns
  <2>5. spent' \in [turns : Nat, calls : Nat, commands : Nat, crashes : Nat]
    BY <1>1, <2>3
  <2> QED BY <2>3, <2>4, <2>5, Unlocks DEF ControlTyped, Holders
<1> QED BY <1>2, <1>4, <1>5, <1>6

\* What is chosen for compaction lies on the surface in one piece.
LEMMA RangeLies ==
  ASSUME LogTyped, NEW k \in DOMAIN surface, selectCompactableRange(k) # <<>>
  PROVE  /\ selectCompactableRange(k) \in Seq(Nat) /\ Lies(selectCompactableRange(k), surface)
         /\ Spares(selectCompactableRange(k))
<1> DEFINE first == FirstCompactable
           cuts == {i \in (first + 1)..k : balancedBefore(i)}
           region == SubSeq(surface, first, Max(cuts) - 1)
<1>1. surface \in Seq(Nat) /\ Len(surface) \in Nat /\ k \in 1..Len(surface)
  BY DEF LogTyped
<1>2. first \in {1, 2}
  BY DEF FirstCompactable
<1>3. selectCompactableRange(k) = IF cuts = {} THEN <<>> ELSE region
  BY DEF selectCompactableRange
<1> HIDE DEF first
<1>4. cuts # {} /\ selectCompactableRange(k) = region
  BY <1>3
<1>5. cuts \subseteq 1..Len(surface) /\ cuts \subseteq (first + 1)..k
  BY <1>1, <1>2
<1> HIDE DEF cuts
<1>6. PICK m : m = Max(cuts)
  OBVIOUS
<1>7. m \in (first + 1)..k
  BY <1>1, <1>4, <1>5, <1>6, MaxIsIn
<1>8. /\ region \in Seq(Nat) /\ Len(region) = m - first
      /\ \A i \in 1..(m - first) : region[i] = surface[first + i - 1]
  <2>1. first \in Int /\ m - 1 \in Int /\ \A i \in first..(m - 1) : surface[i] \in Nat
    BY <1>1, <1>2, <1>7
  <2>2. /\ region \in Seq(Nat)
        /\ Len(region) = IF first <= m - 1 THEN (m - 1) - first + 1 ELSE 0
        /\ \A i \in 1..((m - 1) - first + 1) : region[i] = surface[first + i - 1]
    BY <1>6, <2>1, CompactionAssumption, LP!SubSeqProperties
  <2> HIDE DEF region
  <2>3. first <= m - 1 /\ (m - 1) - first + 1 = m - first
    BY <1>2, <1>7, <1>1
  <2> QED BY <2>2, <2>3
<1> HIDE DEF region
<1>9. region # <<>> /\ first \in DOMAIN surface /\ first + Len(region) - 1 <= Len(surface)
  BY <1>1, <1>2, <1>7, <1>8
<1>10. \A i \in DOMAIN region : surface[first + i - 1] = region[i]
  BY <1>8
<1>11. ASSUME FirstCompactable = 2 PROVE surface[1] \notin ToSet(region)
  <2>1. first = 2
    BY <1>11 DEF first
  <2>2. SUFFICES ASSUME NEW i \in DOMAIN region, region[i] = surface[1] PROVE FALSE
    BY DEF ToSet
  <2>3. surface[first + i - 1] = surface[1]
    BY <1>10, <2>2
  <2>4. i \in 1..(m - first) /\ first + i - 1 \in DOMAIN surface /\ 1 \in DOMAIN surface
    <3>1. i \in 1..(m - first)
      <4>1. DOMAIN region = 1..(m - first)
        BY <1>8
      <4> QED BY <2>2, <4>1
    <3>2. Len(surface) \in Nat /\ DOMAIN surface = 1..Len(surface) /\ k \in 1..Len(surface)
      BY <1>1
    <3>3. m <= k /\ m \in Int /\ k \in Int
      BY <1>1, <1>7, <2>1, <3>2
    <3>4. first + i - 1 \in 1..Len(surface) /\ 1 \in 1..Len(surface)
      BY <2>1, <3>1, <3>2, <3>3
    <3> QED BY <3>1, <3>2, <3>4
  <2>5. first + i - 1 = 1
    BY <2>3, <2>4 DEF LogTyped, LP!Distinct
  <2> QED BY <1>7, <2>1, <2>4, <2>5
<1> QED BY <1>4, <1>8, <1>9, <1>10, <1>11 DEF Lies, Spares

\* The holder takes its next place, or returns.
Onward(stage) ==
  /\ engine' = [engine EXCEPT !.stage = stage] /\ turn' = turn /\ command' = command

LEMMA EnterTo ==
  ASSUME LogTyped, ControlTyped, Enter
  PROVE  /\ engine.stage = "enter" /\ Quiet /\ spent' = spent
         /\ \/ Leaves(FALSE)
            \/ /\ engine.trigger = "overflow" \/ ~Busy
               /\ \E region \in Seq(Nat) :
                    /\ Lies(region, surface) /\ Spares(region)
                    /\ turn' = turn /\ command' = command
                    /\ engine' = [engine EXCEPT !.stage = "begin", !.region = region]
<1>1. engine.stage = "enter" /\ Quiet /\ spent' = spent
  BY DEF Enter, Quiet
<1>2. CASE Leaves(FALSE)
  BY <1>1, <1>2
<1>3. ASSUME ~Leaves(FALSE)
      PROVE  /\ engine.trigger = "overflow" \/ ~Busy
             /\ \E k \in TailStarts(engine.trigger) :
                  /\ selectCompactableRange(k) # <<>> /\ turn' = turn /\ command' = command
                  /\ engine' = [engine EXCEPT !.stage = "begin",
                                              !.region = selectCompactableRange(k)]
  BY <1>3 DEF Enter
<1>4. TailStarts(engine.trigger) \subseteq DOMAIN surface
  <2>1. surface \in Seq(Nat) /\ Len(surface) \in Nat /\ DOMAIN surface = 1..Len(surface)
    BY DEF LogTyped
  <2> QED BY <2>1 DEF TailStarts
<1>5. ASSUME ~Leaves(FALSE)
      PROVE  \E region \in Seq(Nat) :
               /\ Lies(region, surface) /\ Spares(region)
               /\ turn' = turn /\ command' = command
               /\ engine' = [engine EXCEPT !.stage = "begin", !.region = region]
  <2>1. PICK k \in DOMAIN surface :
               /\ selectCompactableRange(k) # <<>> /\ turn' = turn /\ command' = command
               /\ engine' = [engine EXCEPT !.stage = "begin",
                                           !.region = selectCompactableRange(k)]
    BY <1>3, <1>4, <1>5
  <2>2. /\ selectCompactableRange(k) \in Seq(Nat) /\ Lies(selectCompactableRange(k), surface)
        /\ Spares(selectCompactableRange(k))
    BY <2>1, RangeLies
  <2> QED BY <2>1, <2>2
<1> QED BY <1>1, <1>2, <1>3, <1>5

LEMMA OnwardKeepsControl ==
  ASSUME ControlTyped, Holders, engine.stage # "off", NEW stage \in Stages \ {"off"},
         Onward(stage), spent' = spent
  PROVE  ControlTyped' /\ Holders'
<1>1. engine \in Engines
  BY DEF ControlTyped
<1>2. /\ engine' \in Engines /\ engine'.stage = stage /\ engine'.by = engine.by
      /\ engine'.trigger = engine.trigger
  BY <1>1 DEF Onward, Engines
<1> QED BY <1>2, EngineKeepsControl DEF Onward

LEMMA EngineControl ==
  ASSUME LogTyped, ControlTyped, Holders,
         \/ Enter \/ Begin \/ CompactionStart \/ Snapshot \/ Summarize \/ Fail
         \/ CommitSummary \/ CommitReplace \/ CommitEnd
  PROVE  ControlTyped' /\ Holders'
<1>1. engine \in Engines
  BY DEF ControlTyped
<1>2. CASE Enter
  <2>1. CASE Leaves(FALSE)
    BY <1>2, <2>1, EnterTo, LeavesKeepsControl
  <2>2. ASSUME NEW region \in Seq(Nat), turn' = turn, command' = command,
               engine' = [engine EXCEPT !.stage = "begin", !.region = region]
        PROVE  ControlTyped' /\ Holders'
    <3>1. /\ engine' \in Engines /\ engine'.stage = "begin" /\ engine'.by = engine.by
          /\ engine'.trigger = engine.trigger
      BY <1>1, <2>2 DEF Engines, Stages
    <3> QED BY <1>2, <2>2, <3>1, EnterTo, EngineKeepsControl
  <2> QED BY <1>2, <2>1, <2>2, EnterTo
<1>3. CASE Begin
  <2>1. CASE Leaves(FALSE)
    BY <1>3, <2>1, LeavesKeepsControl DEF Begin
  <2>2. CASE Onward("start")
    BY <1>3, <2>2, OnwardKeepsControl DEF Begin, Stages
  <2> QED BY <1>3, <2>1, <2>2 DEF Begin, Onward
<1>4. CASE CompactionStart
  <2>1. Onward("snapshot") /\ engine.stage = "start" /\ spent' = spent
    BY <1>4 DEF CompactionStart, Onward
  <2> QED BY <2>1, OnwardKeepsControl DEF Stages
<1>5. CASE Snapshot
  <2>1. surface \in Seq(Nat)
    BY DEF LogTyped
  <2>2. /\ engine' \in Engines /\ engine'.stage = "summarize" /\ engine'.by = engine.by
        /\ engine'.trigger = engine.trigger
    BY <1>1, <1>5, <2>1 DEF Snapshot, Engines, Stages
  <2> QED BY <1>5, <2>2, EngineKeepsControl DEF Snapshot
<1>6. CASE Summarize
  <2>1. PICK next \in {"commit", "fail"} : Onward(next)
    BY <1>6 DEF Summarize, Onward
  <2> QED BY <1>6, <2>1, OnwardKeepsControl DEF Summarize, Stages
<1>7. CASE Fail
  BY <1>7, LeavesKeepsControl DEF Fail
<1>8. CASE CommitSummary
  <2>1. Onward("replace") /\ engine.stage = "commit" /\ spent' = spent
    BY <1>8 DEF CommitSummary, Onward
  <2> QED BY <2>1, OnwardKeepsControl DEF Stages
<1>9. CASE CommitReplace
  <2>1. Onward("end") /\ engine.stage = "replace" /\ spent' = spent
    BY <1>9 DEF CommitReplace, Onward
  <2> QED BY <2>1, OnwardKeepsControl DEF Stages
<1>10. CASE CommitEnd
  <2>1. CASE Leaves(TRUE)
    BY <1>10, <2>1, LeavesKeepsControl DEF CommitEnd
  <2>2. CASE ~Leaves(TRUE)
    <3>1. /\ engine' = [engine EXCEPT !.stage = "enter", !.attempts = 1]
          /\ engine.stage = "end" /\ turn' = turn /\ command' = command /\ spent' = spent
      BY <1>10, <2>2 DEF CommitEnd
    <3>2. /\ engine' \in Engines /\ engine'.stage = "enter" /\ engine'.by = engine.by
          /\ engine'.trigger = engine.trigger
      <4> DEFINE again == [engine EXCEPT !.attempts = 1]
      <4>1. again \in Engines /\ again.by = engine.by /\ again.trigger = engine.trigger
        <5>1. 1 \in 0..1
          OBVIOUS
        <5> QED BY <1>1, <5>1 DEF Engines
      <4>2. engine' = [again EXCEPT !.stage = "enter"]
        BY <1>1, <3>1 DEF Engines
      <4> HIDE DEF again
      <4> QED BY <4>1, <4>2 DEF Engines, Stages
    <3> QED BY <3>1, <3>2, EngineKeepsControl
  <2> QED BY <2>1, <2>2
<1> QED BY <1>2, <1>3, <1>4, <1>5, <1>6, <1>7, <1>8, <1>9, <1>10

LEMMA ControlKept ==
  ASSUME LogTyped, ControlTyped, Holders, Next
  PROVE  ControlTyped' /\ Holders'
BY TurnControl, CommandControl, EngineControl DEF Next, EngineStep

-----------------------------------------------------------------------------
(* Open turns and active compactions in the log.                           *)

UnmatchedIn(events, type, end) ==
  \E i \in DOMAIN events :
    events[i].type = type /\ \A j \in (i + 1)..Len(events) : events[j].type \notin {type, end}

LEMMA UnmatchedAfter ==
  ASSUME NEW events \in Seq(Entries), NEW e \in Entries, NEW type, NEW end, type # end,
         NEW more, more = Append(events, e)
  PROVE  /\ e.type = type => UnmatchedIn(more, type, end)
         /\ e.type = end => ~UnmatchedIn(more, type, end)
         /\ e.type \notin {type, end} =>
              (UnmatchedIn(more, type, end) <=> UnmatchedIn(events, type, end))
<1> DEFINE n == Len(events)
<1>1. /\ n \in Nat /\ Len(more) = n + 1 /\ DOMAIN more = 1..(n + 1) /\ DOMAIN events = 1..n
      /\ more[n + 1] = e /\ \A i \in 1..n : more[i] = events[i]
  OBVIOUS
<1> HIDE DEF n
<1>2. Len(events) = n
  BY DEF n
<1>3. ASSUME e.type = type PROVE UnmatchedIn(more, type, end)
  <2>1. n + 1 \in DOMAIN more /\ (n + 1 + 1)..Len(more) = {}
    BY <1>1
  <2> QED BY <1>1, <1>3, <2>1 DEF UnmatchedIn
<1>4. ASSUME e.type = end PROVE ~UnmatchedIn(more, type, end)
  <2>1. SUFFICES ASSUME NEW i \in DOMAIN more, more[i].type = type,
                        \A j \in (i + 1)..Len(more) : more[j].type \notin {type, end}
                 PROVE  FALSE
    BY DEF UnmatchedIn
  <2>2. i # n + 1
    BY <1>1, <1>4, <2>1
  <2>3. n + 1 \in (i + 1)..Len(more)
    BY <1>1, <2>2
  <2> QED BY <1>1, <1>4, <2>1, <2>3
<1>5. ASSUME e.type \notin {type, end}, UnmatchedIn(more, type, end)
      PROVE  UnmatchedIn(events, type, end)
  <2>1. PICK i \in DOMAIN more :
          more[i].type = type /\ \A j \in (i + 1)..Len(more) : more[j].type \notin {type, end}
    BY <1>5 DEF UnmatchedIn
  <2>2. i \in 1..n
    BY <1>1, <1>5, <2>1
  <2>3. \A j \in (i + 1)..n : j \in (i + 1)..Len(more) /\ events[j] = more[j]
    BY <1>1, <2>2
  <2> QED BY <1>1, <1>2, <2>1, <2>2, <2>3 DEF UnmatchedIn
<1>6. ASSUME e.type \notin {type, end}, UnmatchedIn(events, type, end)
      PROVE  UnmatchedIn(more, type, end)
  <2>1. PICK i \in 1..n :
          events[i].type = type /\ \A j \in (i + 1)..n : events[j].type \notin {type, end}
    BY <1>1, <1>2, <1>6 DEF UnmatchedIn
  <2>2. ASSUME NEW j \in (i + 1)..Len(more) PROVE more[j].type \notin {type, end}
    <3>1. j = n + 1 \/ (j \in (i + 1)..n /\ j \in 1..n)
      BY <1>1, <2>1
    <3> QED BY <1>1, <1>6, <2>1, <3>1
  <2> QED BY <1>1, <2>1, <2>2 DEF UnmatchedIn
<1> QED BY <1>3, <1>4, <1>5, <1>6

LEMMA LogAfter ==
  ASSUME LogTyped, NEW e \in Entries, log' = Append(log, e)
  PROVE  /\ e.type = "turn/start" => OpenTurn'
         /\ e.type \notin {"turn/start", "turn/end"} => (OpenTurn' <=> OpenTurn)
         /\ e.type = "compaction/start" => CompactionActive'
         /\ e.type = "compaction/end" => ~CompactionActive'
         /\ e.type \notin {"compaction/start", "compaction/end"} =>
              (CompactionActive' <=> CompactionActive)
<1>1. log \in Seq(Entries)
  BY DEF LogTyped
<1>2. /\ OpenTurn <=> UnmatchedIn(log, "turn/start", "turn/end")
      /\ OpenTurn' <=> UnmatchedIn(log', "turn/start", "turn/end")
      /\ CompactionActive <=> UnmatchedIn(log, "compaction/start", "compaction/end")
      /\ CompactionActive' <=> UnmatchedIn(log', "compaction/start", "compaction/end")
  BY DEF OpenTurn, CompactionActive, Unmatched, UnmatchedIn
<1>3. "turn/start" # "turn/end" /\ "compaction/start" # "compaction/end"
  OBVIOUS
<1> QED BY <1>1, <1>2, <1>3, UnmatchedAfter

\* An entry that is no replace is a message to append or not on the surface.
Plain(e) == (e.op.op = "append" /\ e.kind = "message") \/ (e.op.op = "none" /\ e.kind = "log")

\* What each step of the turn appends.
LEMMA TurnAppends ==
  ASSUME LogTyped, ControlTyped, TurnStep
  PROVE  \/ Quiet
         \/ \E e \in Entries :
              /\ Plain(e)
              /\ AppendEvent(e)
              /\ e.type \notin {"compaction/start", "compaction/summary", "compaction/end"}
              /\ e.type = "turn/start" => TurnStart
              /\ e.type = "turn/end" => turn'.pc \in {"off", "end"}
              /\ Neutral(e) \/ StreamAnswers \/ ToolReturns
<1> DEFINE Good(e) ==
      /\ Plain(e)
      /\ AppendEvent(e)
      /\ e.type \notin {"compaction/start", "compaction/summary", "compaction/end"}
      /\ e.type = "turn/start" => TurnStart
      /\ e.type = "turn/end" => turn'.pc \in {"off", "end"}
      /\ Neutral(e) \/ StreamAnswers \/ ToolReturns
<1>0. turn \in Turns /\ spent.calls \in Nat
  BY DEF ControlTyped
<1>1. ASSUME InjectSystem PROVE \E e \in Entries : Good(e)
  <2> DEFINE e == Message("system/message")
  <2>1. "system/message" \in Types /\ AppendEvent(e)
    BY <1>1 DEF InjectSystem, Types
  <2>2. e \in Entries /\ e.kind = "message" /\ e.op.op = "append" /\ e.type = "system/message"
        /\ Bare(e)
    BY <2>1, EntriesTyped
  <2> HIDE DEF e
  <2> QED BY <2>1, <2>2 DEF Plain, Neutral
<1>2. ASSUME TurnStart PROVE \E e \in Entries : Good(e)
  <2>1. "turn/start" \in Types /\ AppendEvent(Record("turn/start"))
    BY <1>2 DEF TurnStart, Types
  <2> QED BY <1>2, <2>1, EntriesTyped DEF Plain, Neutral
<1>3. ASSUME ClaimMessage PROVE \E e \in Entries : Good(e)
  <2>1. "user/message" \in Types /\ "turn/end" \in Types
    BY DEF Types
  <2>2. CASE AppendEvent(Message("user/message"))
    <3> DEFINE e == Message("user/message")
    <3>1. e \in Entries /\ e.kind = "message" /\ e.op.op = "append" /\ e.type = "user/message"
          /\ Bare(e)
      BY <2>1, EntriesTyped
    <3>2. AppendEvent(e)
      BY <2>2
    <3> HIDE DEF e
    <3> QED BY <3>1, <3>2 DEF Plain, Neutral
  <2>3. CASE AppendEvent(Record("turn/end")) /\ Turn("off")
    <3>1. turn'.pc = "off"
      BY <1>0, <2>3, TurnMoves DEF TurnPlaces
    <3> QED BY <2>1, <2>3, <3>1, EntriesTyped DEF Plain, Neutral
  <2> QED BY <1>3, <2>2, <2>3 DEF ClaimMessage
<1>4. ASSUME StreamAnswers PROVE \E e \in Entries : Good(e)
  <2>1. PICK n \in 0..2 : AppendEvent(AssistantMessage([i \in 1..n |-> spent.calls + i]))
    BY <1>4 DEF StreamAnswers
  <2>2. [i \in 1..n |-> spent.calls + i] \in Seq(Nat)
    BY <1>0
  <2> DEFINE e == AssistantMessage([i \in 1..n |-> spent.calls + i])
  <2>3. e \in Entries /\ e.kind = "message" /\ e.op.op = "append" /\ e.type = "assistant/message"
    BY <2>2, EntriesTyped
  <2> HIDE DEF e
  <2>4. AppendEvent(e)
    BY <2>1 DEF e
  <2> QED BY <1>4, <2>3, <2>4 DEF Plain, Neutral
<1>5. ASSUME ToolReturns PROVE \E e \in Entries : Good(e)
  <2>1. Head(turn.todo) \in Nat /\ AppendEvent(ToolResult(Head(turn.todo)))
    BY <1>0, <1>5 DEF ToolReturns, Turns
  <2> DEFINE e == ToolResult(Head(turn.todo))
  <2>2. e \in Entries /\ e.kind = "message" /\ e.op.op = "append" /\ e.type = "tool/result"
    BY <2>1, EntriesTyped
  <2> HIDE DEF e
  <2>3. AppendEvent(e)
    BY <2>1 DEF e
  <2> QED BY <1>5, <2>2, <2>3 DEF Plain, Neutral
<1>6. ASSUME TurnEnd PROVE \E e \in Entries : Good(e)
  <2>1. "turn/end" \in Types /\ AppendEvent(Record("turn/end"))
    BY <1>6 DEF TurnEnd, Types
  <2>2. turn'.pc \in {"off", "end"}
    <3>1. CASE Turn("end")
      BY <1>0, <3>1, TurnMoves DEF TurnPlaces
    <3>2. CASE turn' = [turn EXCEPT !.pc = "off", !.overflows = 0]
      BY <1>0, <3>2 DEF Turns
    <3> QED BY <1>6, <3>1, <3>2 DEF TurnEnd
  <2> QED BY <2>1, <2>2, EntriesTyped DEF Plain, Neutral
<1>7. ASSUME Loop \/ StreamFails \/ ToolsDone PROVE Quiet
  BY <1>7 DEF Loop, StreamFails, ToolsDone, Quiet
<1> QED BY <1>1, <1>2, <1>3, <1>4, <1>5, <1>6, <1>7 DEF TurnStep

\* What each step of the engine and the command appends, but for the replace.
LEMMA EngineAppends ==
  ASSUME LogTyped, ControlTyped,
         \/ Prompt \/ Compact \/ Notice \/ TurnLocks \/ CommandLocks
         \/ Enter \/ Begin \/ CompactionStart \/ Snapshot \/ Summarize \/ Fail
         \/ CommitSummary \/ CommitEnd
  PROVE  \/ Quiet /\ ~(CompactionStart \/ Fail \/ CommitSummary \/ CommitEnd)
         \/ \E e \in Entries :
              /\ Plain(e)
              /\ AppendEvent(e)
              /\ e.type \notin {"turn/start", "turn/end"}
              /\ e.type = "compaction/start" <=> CompactionStart
              /\ e.type = "compaction/end" <=> Fail \/ CommitEnd
              /\ CommitSummary => /\ e.type = "compaction/summary"
                                  /\ e.covers = ToSet(engine.region)
              /\ Neutral(e)
<1> DEFINE Good(e) ==
      /\ Plain(e)
      /\ AppendEvent(e)
      /\ e.type \notin {"turn/start", "turn/end"}
      /\ e.type = "compaction/start" <=> CompactionStart
      /\ e.type = "compaction/end" <=> Fail \/ CommitEnd
      /\ CommitSummary => e.type = "compaction/summary" /\ e.covers = ToSet(engine.region)
      /\ Neutral(e)
<1>1. /\ CompactionStart => engine.stage = "start" /\ command' = command
      /\ Fail => engine.stage = "fail"
      /\ CommitSummary => engine.stage = "commit" /\ command' = command
      /\ CommitEnd => engine.stage = "end"
      /\ CompactionStart \/ Fail \/ CommitSummary \/ CommitEnd => engine' # engine
      /\ Notice => engine' = engine
  <2>1. engine \in Engines
    BY DEF ControlTyped
  <2>2. ASSUME CompactionStart \/ Fail \/ CommitSummary \/ CommitEnd PROVE engine' # engine
    <3>1. CASE CompactionStart
      BY <2>1, <3>1 DEF CompactionStart, Engines
    <3>2. CASE Fail
      BY <2>1, <3>2, Unlocks DEF Fail, Leaves
    <3>3. CASE CommitSummary
      BY <2>1, <3>3 DEF CommitSummary, Engines
    <3>4. CASE CommitEnd
      BY <2>1, <3>4, Unlocks DEF CommitEnd, Leaves, Engines
    <3> QED BY <2>2, <3>1, <3>2, <3>3, <3>4
  <2> QED BY <2>2 DEF CompactionStart, Fail, CommitSummary, CommitEnd, Notice
<1>2. ASSUME Notice PROVE \E e \in Entries : Good(e)
  <2>1. "user/message" \in Types /\ AppendEvent(Message("user/message"))
    BY <1>2 DEF Notice, Types
  <2> DEFINE e == Message("user/message")
  <2>2. e \in Entries /\ e.kind = "message" /\ e.op.op = "append" /\ e.type = "user/message"
        /\ Bare(e)
    BY <2>1, EntriesTyped
  <2>3. AppendEvent(e)
    BY <2>1
  <2> HIDE DEF e
  <2> QED BY <1>1, <1>2, <2>2, <2>3 DEF Plain, Neutral
<1>3. ASSUME CompactionStart PROVE \E e \in Entries : Good(e)
  <2>1. "compaction/start" \in Types /\ AppendEvent(Record("compaction/start"))
    BY <1>3 DEF CompactionStart, Types
  <2> QED BY <1>1, <1>3, <2>1, EntriesTyped DEF Plain, Neutral
<1>4. ASSUME Fail \/ CommitEnd PROVE \E e \in Entries : Good(e)
  <2>1. "compaction/end" \in Types /\ AppendEvent(Record("compaction/end"))
    BY <1>4 DEF Fail, CommitEnd, Types
  <2> QED BY <1>1, <1>4, <2>1, EntriesTyped DEF Plain, Neutral
<1>5. ASSUME CommitSummary PROVE \E e \in Entries : Good(e)
  <2> DEFINE r == Record("compaction/summary")
             e == [r EXCEPT !.covers = ToSet(engine.region)]
  <2>1. r \in Entries /\ r.kind = "log" /\ r.op.op = "none" /\ r.type = "compaction/summary"
        /\ Bare(r)
    BY EntriesTyped DEF Types
  <2>2. ToSet(engine.region) \in SUBSET Nat
    BY DEF ControlTyped, Engines, ToSet
  <2>3. AppendEvent(e)
    BY <1>5 DEF CommitSummary
  <2> HIDE DEF r
  <2>4. /\ e \in Entries /\ e.kind = "log" /\ e.op.op = "none" /\ e.type = "compaction/summary"
        /\ e.covers = ToSet(engine.region) /\ Bare(e)
    BY <2>1, <2>2 DEF Entries, Bare
  <2> HIDE DEF e
  <2> QED BY <1>1, <1>5, <2>3, <2>4 DEF Plain, Neutral
<1>6. ASSUME Prompt \/ Compact \/ TurnLocks \/ CommandLocks \/ Enter \/ Begin \/ Snapshot \/ Summarize
      PROVE  Quiet
  BY <1>6 DEF Prompt, Compact, TurnLocks, CommandLocks, Enter, Begin, Snapshot, Summarize, Quiet
<1> QED BY <1>2, <1>3, <1>4, <1>5, <1>6

-----------------------------------------------------------------------------
(* The replace.                                                            *)

LEMMA CheckpointTyped ==
  ASSUME NEW seqs \in Seq(Nat), seqs # <<>>
  PROVE  /\ Checkpoint(seqs) \in Entries /\ Checkpoint(seqs).type = "user/message"
         /\ Checkpoint(seqs).kind = "message"
         /\ Checkpoint(seqs).op = Sess!ReplaceOp(seqs[1], Last(seqs))
         /\ Bare(Checkpoint(seqs))
<1> DEFINE m == Message("user/message")
           o == Sess!ReplaceOp(seqs[1], Last(seqs))
           t == ToSet(seqs)
<1>1. m \in Entries /\ m.kind = "message" /\ m.type = "user/message" /\ Bare(m)
  BY EntriesTyped DEF Types
<1>2. seqs[1] \in Nat /\ Last(seqs) \in Nat
  BY DEF Last
<1>3. o \in Ops
  BY <1>2 DEF Sess!ReplaceOp, Ops
<1>4. t \in SUBSET Nat
  BY DEF ToSet
<1>5. Checkpoint(seqs) = [[m EXCEPT !.op = o] EXCEPT !.covers = t]
  BY DEF Checkpoint
<1> HIDE DEF m, o, t
<1>6. [m EXCEPT !.op = o] \in Entries /\ [m EXCEPT !.op = o].op = o
  BY <1>1, <1>3 DEF Entries
<1>7. Checkpoint(seqs).op = o
  BY <1>1, <1>5, <1>6 DEF Entries
<1> QED BY <1>1, <1>4, <1>5, <1>6, <1>7 DEF o, Entries, Bare

\* The nodes of the region, where they lie now, give way to the checkpoint.
LEMMA ReplaceTo ==
  ASSUME LogTyped, NEW region \in Seq(Nat), Lies(region, surface), AppendEvent(Checkpoint(region))
  PROVE  /\ Len(log) < MaxEvents /\ log' = Append(log, Checkpoint(region))
         /\ LP!Distinct(surface') /\ \A i \in DOMAIN surface' : surface'[i] <= Len(log)
         /\ \E p \in DOMAIN surface, q \in DOMAIN surface :
              /\ p <= q
              /\ \A i \in p..q : surface[i] \in ToSet(region)
              /\ \A i \in DOMAIN surface : surface[i] \in ToSet(region) => i \in p..q
              /\ LP!Covers(surface, p, q, Len(log), surface')
<1>1. /\ surface \in Seq(Nat) /\ LP!Distinct(surface) /\ Len(log) \in Nat
      /\ \A i \in DOMAIN surface : surface[i] < Len(log)
  BY DEF LogTyped
<1>2. PICK p \in DOMAIN surface :
        /\ region # <<>> /\ p + Len(region) - 1 <= Len(surface)
        /\ \A k \in DOMAIN region : surface[p + k - 1] = region[k]
  BY DEF Lies
<1>3. PICK q : q = p + Len(region) - 1
  OBVIOUS
<1>4. q \in DOMAIN surface /\ p <= q
  BY <1>1, <1>2, <1>3
<1>5. /\ surface[p] = region[1] /\ surface[q] = Last(region)
      /\ \A i \in p..q : surface[i] \in ToSet(region)
  <2>1. 1 \in DOMAIN region /\ Len(region) \in DOMAIN region
    BY <1>2
  <2>2. surface[p + 1 - 1] = region[1] /\ surface[p + Len(region) - 1] = region[Len(region)]
    BY <1>2, <2>1
  <2>3. p + 1 - 1 = p
    BY <1>1
  <2>4. ASSUME NEW i \in p..q PROVE surface[i] \in ToSet(region)
    <3>1. i - p + 1 \in DOMAIN region /\ p + (i - p + 1) - 1 = i
      BY <1>1, <1>2, <1>3
    <3>2. surface[p + (i - p + 1) - 1] = region[i - p + 1]
      BY <1>2, <3>1
    <3> QED BY <3>1, <3>2 DEF ToSet
  <2> QED BY <1>3, <2>2, <2>3, <2>4 DEF Last
<1>51. ASSUME NEW i \in DOMAIN surface, surface[i] \in ToSet(region) PROVE i \in p..q
  <2>1. PICK k \in DOMAIN region : region[k] = surface[i]
    BY <1>51 DEF ToSet
  <2>2. k \in 1..Len(region) /\ surface[p + k - 1] = surface[i]
    BY <1>2, <2>1
  <2>3. p + k - 1 \in DOMAIN surface /\ p + k - 1 \in p..q
    BY <1>1, <1>2, <1>3, <2>2, SMTT(40)
  <2> QED BY <1>1, <2>2, <2>3 DEF LP!Distinct
<1>6. /\ LP!positionOf(surface, region[1]) = p
      /\ LP!positionOf(surface, Last(region)) = q
  BY <1>1, <1>4, <1>5, CompactionAssumption, LP!PositionOfNode
<1>7. /\ Checkpoint(region).kind = "message" /\ Checkpoint(region).op.op = "replace"
      /\ Checkpoint(region).op.start = region[1] /\ Checkpoint(region).op.end = Last(region)
  <2>1. /\ Checkpoint(region).kind = "message"
        /\ Checkpoint(region).op = Sess!ReplaceOp(region[1], Last(region))
    BY <1>2, CheckpointTyped
  <2> QED BY <2>1 DEF Sess!ReplaceOp
<1>8. /\ Len(log) < MaxEvents /\ log' = Append(log, Checkpoint(region))
      /\ surface' = LP!Cover(surface, p, q, Len(log))
  <2>1. /\ Len(log) < MaxEvents /\ log' = Append(log, Checkpoint(region))
        /\ surface' = Sess!Cover(surface, Sess!positionOf(surface, region[1]),
                                 Sess!positionOf(surface, Last(region)), Len(log))
    BY <1>7 DEF AppendEvent, Sess!AppendEvent, Sess!applySurface, Sess!HasMessage
  <2>2. /\ Sess!positionOf(surface, region[1]) = p /\ Sess!positionOf(surface, Last(region)) = q
    BY <1>6 DEF LP!positionOf, Sess!positionOf
  <2>3. Sess!Cover(surface, p, q, Len(log)) = LP!Cover(surface, p, q, Len(log))
    BY DEF LP!Cover, Sess!Cover, LP!Lower, Sess!Lower, LP!Upper, Sess!Upper
  <2> QED BY <2>1, <2>2, <2>3
<1>9. LP!Lower(p, q) = p /\ LP!Upper(p, q) = q
  BY <1>4 DEF LP!Lower, LP!Upper
<1>10. LP!Covers(surface, p, q, Len(log), surface')
  BY <1>1, <1>4, <1>8, <1>9, CompactionAssumption, LP!CoverShape
<1>11. LP!Distinct(surface') /\ LP!Thins(surface, surface', Len(log))
  BY <1>1, <1>4, <1>8, CompactionAssumption, LP!CoverThins
<1>12. \A i \in DOMAIN surface' : surface'[i] <= Len(log)
  BY <1>1, <1>11 DEF LP!Thins
<1> QED BY <1>4, <1>5, <1>51, <1>8, <1>10, <1>11, <1>12

LEMMA ReplaceKeepsTypes ==
  ASSUME LogTyped, NEW region \in Seq(Nat), Lies(region, surface), AppendEvent(Checkpoint(region))
  PROVE  LogTyped'
<1>1. Checkpoint(region) \in Entries
  BY CheckpointTyped DEF Lies
<1>2. /\ Len(log) < MaxEvents /\ log' = Append(log, Checkpoint(region))
      /\ LP!Distinct(surface') /\ \A i \in DOMAIN surface' : surface'[i] <= Len(log)
      /\ surface' \in Seq(Nat)
  BY ReplaceTo DEF LP!Covers
<1>3. /\ log' \in Seq(Entries) /\ Len(log') = Len(log) + 1 /\ Len(log) \in Nat
  BY <1>1, <1>2 DEF LogTyped
<1>4. MaxEvents \in Nat
  BY CompactionAssumption
<1>5. \A i \in DOMAIN surface' : surface'[i] < Len(log')
  BY <1>2, <1>3
<1>6. LP!Distinct(surface)'
  BY <1>2 DEF LP!Distinct
<1> QED BY <1>2, <1>3, <1>4, <1>5, <1>6 DEF LogTyped

-----------------------------------------------------------------------------
(* The repair after a crash.                                               *)

\* events grow by n results and, where a turn was open, its end.
Repairs(n, events, nodes) ==
  /\ events \in Seq(Entries) /\ Len(events) <= MaxEvents /\ Len(log) + n <= Len(events)
  /\ \A i \in 1..Len(log) : events[i] = log[i]
  /\ \A i \in 1..Len(events) : i > Len(log) + n => events[i].kind = "log"
  /\ nodes \in Seq(Nat) /\ Len(nodes) = Len(surface) + n
  /\ \A i \in 1..Len(surface) : nodes[i] = surface[i]
  /\ \A i \in 1..n : nodes[Len(surface) + i] = Len(log) + i - 1

\* The results answer the calls of the open turn.
Settled(n, events) ==
  /\ \A i \in 1..n : \E c \in ToSet(OpenCalls) : events[Len(log) + i] = ToolResult(c)
  /\ \A i \in 1..Len(events) : i > Len(log) + n => events[i] = Record("turn/end")
  /\ OpenTurn => Len(events) = Len(log) + n + 1

LEMMA ResumeTo ==
  ASSUME LogTyped, Resume
  PROVE  \E n \in Nat : Repairs(n, log', surface') /\ Settled(n, log')
<1>1. /\ log \in Seq(Entries) /\ Len(log) \in Nat /\ DOMAIN log = 1..Len(log)
      /\ surface \in Seq(Nat) /\ Len(surface) \in Nat /\ MaxEvents \in Nat
  BY CompactionAssumption DEF LogTyped
<1>2. OpenCalls \in Seq(Nat)
  <2>1. \A i \in 1..Len(log) : log[i].calls \in Seq(Nat)
    <3>1. \A i \in 1..Len(log) : log[i] \in Entries
      BY <1>1
    <3> QED BY <3>1 DEF Entries
  <2> QED BY <1>1, <2>1, OpenCallsTyped
<1>3. PICK calls : calls = OpenCalls
  OBVIOUS
<1>4. PICK n \in Nat : n = Len(calls)
  BY <1>2, <1>3
<1> DEFINE results == [i \in 1..n |-> ToolResult(calls[i])]
           close == IF OpenTurn THEN <<Record("turn/end")>> ELSE <<>>
           nodes == [i \in 1..n |-> Len(log) + i - 1]
<1>5. /\ results \in Seq(Entries) /\ Len(results) = n
      /\ \A i \in 1..n : calls[i] \in Nat
  <2>1. \A i \in 1..n : calls[i] \in Nat
    BY <1>2, <1>3, <1>4
  <2>2. \A i \in 1..n : ToolResult(calls[i]) \in Entries
    BY <2>1, EntriesTyped
  <2>3. results \in [1..n -> Entries]
    BY <2>2
  <2> HIDE DEF results
  <2>4. results \in Seq(Entries)
    BY <2>3
  <2> QED BY <2>1, <2>3, <2>4
<1>6. /\ close \in Seq(Entries) /\ Len(close) \in 0..1
      /\ \A i \in 1..Len(close) : close[i].kind = "log" /\ close[i] = Record("turn/end")
      /\ OpenTurn => Len(close) = 1
  <2> DEFINE r == Record("turn/end")
  <2>1. r \in Entries /\ r.kind = "log"
    BY EntriesTyped DEF Types
  <2>2. close = IF OpenTurn THEN <<r>> ELSE <<>>
    OBVIOUS
  <2> HIDE DEF r, close
  <2>3. CASE OpenTurn
    <3>1. close = <<r>>
      BY <2>2, <2>3
    <3> QED BY <2>1, <3>1 DEF r
  <2>4. CASE ~OpenTurn
    BY <2>2, <2>4
  <2> QED BY <2>3, <2>4
<1>7. nodes \in Seq(Nat) /\ Len(nodes) = n /\ \A i \in 1..n : nodes[i] = Len(log) + i - 1
  BY <1>1
<1>8. DOMAIN calls = 1..n
  BY <1>2, <1>3, <1>4
<1>9. /\ Len(log) + n < MaxEvents
      /\ log' = (log \o results) \o close
      /\ surface' = surface \o nodes
  BY <1>3, <1>4, <1>8 DEF Resume
<1>91. \A i \in 1..n : \E c \in ToSet(OpenCalls) : results[i] = ToolResult(c)
  BY <1>3, <1>8 DEF ToSet
<1> HIDE DEF results, close, nodes
<1>10. /\ log' \in Seq(Entries) /\ Len(log') = Len(log) + n + Len(close)
       /\ \A i \in 1..Len(log) : log'[i] = log[i]
       /\ \A i \in 1..Len(close) : log'[Len(log) + n + i] = close[i]
       /\ \A i \in 1..n : log'[Len(log) + i] = results[i]
  <2> DEFINE front == log \o results
  <2>1. /\ front \in Seq(Entries) /\ Len(front) = Len(log) + n
        /\ \A i \in 1..Len(log) : front[i] = log[i]
        /\ \A i \in 1..n : front[Len(log) + i] = results[i]
    BY <1>1, <1>5
  <2> HIDE DEF front
  <2>2. log' = front \o close
    BY <1>9 DEF front
  <2>3. /\ front \o close \in Seq(Entries) /\ Len(front \o close) = Len(front) + Len(close)
        /\ \A i \in 1..Len(front) : (front \o close)[i] = front[i]
        /\ \A i \in 1..Len(close) : (front \o close)[Len(front) + i] = close[i]
    BY <1>6, <2>1
  <2>4. 1..Len(log) \subseteq 1..Len(front) /\ \A i \in 1..n : Len(log) + i \in 1..Len(front)
    BY <1>1, <2>1
  <2> QED BY <2>1, <2>2, <2>3, <2>4
<1>11. ASSUME NEW i \in 1..Len(log'), i > Len(log) + n
       PROVE  log'[i].kind = "log" /\ log'[i] = Record("turn/end")
  <2>1. i - (Len(log) + n) \in 1..Len(close) /\ Len(log) + n + (i - (Len(log) + n)) = i
    BY <1>1, <1>6, <1>10, <1>11
  <2>2. log'[Len(log) + n + (i - (Len(log) + n))] = close[i - (Len(log) + n)]
    BY <1>10, <2>1
  <2> QED BY <1>6, <2>1, <2>2
<1>12. /\ surface' \in Seq(Nat) /\ Len(surface') = Len(surface) + n
       /\ \A i \in 1..Len(surface) : surface'[i] = surface[i]
       /\ \A i \in 1..n : surface'[Len(surface) + i] = Len(log) + i - 1
  <2>1. surface \o nodes \in Seq(Nat) /\ Len(surface \o nodes) = Len(surface) + Len(nodes)
    BY <1>1, <1>7
  <2>2. \A i \in 1..Len(surface) : (surface \o nodes)[i] = surface[i]
    BY <1>1, <1>7
  <2>3. ASSUME NEW i \in 1..n PROVE (surface \o nodes)[Len(surface) + i] = Len(log) + i - 1
    <3>1. /\ Len(surface) + i \in 1..(Len(surface) + Len(nodes)) /\ ~(Len(surface) + i <= Len(surface))
          /\ (Len(surface) + i) - Len(surface) = i
      BY <1>1, <1>7
    <3>2. (surface \o nodes)[Len(surface) + i] = nodes[(Len(surface) + i) - Len(surface)]
      BY <1>1, <1>7, <3>1
    <3> QED BY <1>7, <3>1, <3>2
  <2> QED BY <1>7, <1>9, <2>1, <2>2, <2>3
<1>13. Len(log') <= MaxEvents /\ Len(log) + n <= Len(log')
  <2>1. PICK k \in 0..1 : Len(log') = Len(log) + n + k
    BY <1>6, <1>10
  <2>2. Len(log) \in Nat /\ MaxEvents \in Nat /\ Len(log) + n < MaxEvents
    BY <1>1, <1>9
  <2> QED BY <2>1, <2>2
<1>14. Repairs(n, log', surface')
  BY <1>10, <1>11, <1>12, <1>13 DEF Repairs
<1>15. Settled(n, log')
  <2>1. OpenTurn => Len(log') = Len(log) + n + 1
    BY <1>6, <1>10
  <2> QED BY <1>10, <1>11, <1>91, <2>1 DEF Settled
<1> QED BY <1>14, <1>15

LEMMA ResumeKeepsTypes ==
  ASSUME LogTyped, Resume
  PROVE  LogTyped'
<1>1. PICK n \in Nat : Repairs(n, log', surface')
  BY ResumeTo
<1>2. /\ surface \in Seq(Nat) /\ Len(surface) \in Nat /\ Len(log) \in Nat /\ Len(log') \in Nat
      /\ LP!Distinct(surface) /\ \A i \in DOMAIN surface : surface[i] < Len(log)
      /\ DOMAIN surface = 1..Len(surface)
      /\ surface' \in Seq(Nat) /\ DOMAIN surface' = 1..(Len(surface) + n)
      /\ Len(log) + n <= Len(log')
  BY <1>1 DEF LogTyped, Repairs
<1>3. ASSUME NEW i \in DOMAIN surface'
      PROVE  \/ i \in DOMAIN surface /\ surface'[i] = surface[i]
             \/ i - Len(surface) \in 1..n /\ surface'[i] = Len(log) + (i - Len(surface)) - 1
  <2>1. CASE i <= Len(surface)
    BY <1>1, <1>2, <2>1 DEF Repairs
  <2>2. CASE i > Len(surface)
    <3>1. i - Len(surface) \in 1..n /\ Len(surface) + (i - Len(surface)) = i
      BY <1>2, <2>2
    <3>2. surface'[Len(surface) + (i - Len(surface))] = Len(log) + (i - Len(surface)) - 1
      BY <1>1, <3>1 DEF Repairs
    <3> QED BY <3>1, <3>2
  <2> QED BY <1>2, <2>1, <2>2
<1>4. \A i \in DOMAIN surface' : surface'[i] < Len(log')
  <2>1. ASSUME NEW i \in DOMAIN surface' PROVE surface'[i] < Len(log')
    <3>1. CASE i \in DOMAIN surface /\ surface'[i] = surface[i]
      BY <1>2, <3>1
    <3>2. CASE i - Len(surface) \in 1..n /\ surface'[i] = Len(log) + (i - Len(surface)) - 1
      BY <1>2, <3>2
    <3> QED BY <1>3, <3>1, <3>2
  <2> QED BY <2>1
<1>5. LP!Distinct(surface)'
  <2>1. ASSUME NEW i \in DOMAIN surface', NEW j \in DOMAIN surface', surface'[i] = surface'[j]
        PROVE  i = j
    <3>1. i \in Int /\ j \in Int
      BY <1>2
    <3>2. CASE i \in DOMAIN surface /\ surface'[i] = surface[i]
      <4>1. surface'[i] < Len(log) /\ surface'[i] \in Nat
        BY <1>2, <3>2
      <4>2. ~(surface'[j] = Len(log) + (j - Len(surface)) - 1 /\ j - Len(surface) \in 1..n)
        BY <1>2, <2>1, <4>1
      <4>3. j \in DOMAIN surface /\ surface'[j] = surface[j]
        BY <1>3, <4>2
      <4> QED BY <1>2, <2>1, <3>2, <4>3 DEF LP!Distinct
    <3>3. CASE i - Len(surface) \in 1..n /\ surface'[i] = Len(log) + (i - Len(surface)) - 1
      <4>1. ~(j \in DOMAIN surface /\ surface'[j] = surface[j])
        <5>1. surface'[i] >= Len(log)
          BY <1>2, <3>3
        <5> QED BY <1>2, <2>1, <5>1
      <4>2. surface'[j] = Len(log) + (j - Len(surface)) - 1
        BY <1>3, <4>1
      <4>3. Len(log) \in Nat /\ Len(surface) \in Nat
        BY <1>2
      <4>4. Len(log) + (i - Len(surface)) - 1 = Len(log) + (j - Len(surface)) - 1
        BY <2>1, <3>3, <4>2
      <4> QED BY <3>1, <4>3, <4>4
    <3> QED BY <1>3, <3>2, <3>3
  <2> QED BY <2>1 DEF LP!Distinct
<1> QED BY <1>1, <1>2, <1>4, <1>5 DEF LogTyped, Repairs

-----------------------------------------------------------------------------
(* Steps that only add.                                                    *)

\* Nothing leaves the surface, and a new message is on it.
Grows == Quiet \/ \E e \in Entries : Plain(e) /\ Adds(e) /\ Len(log) < MaxEvents

LEMMA TurnGrows == LogTyped /\ ControlTyped /\ TurnStep => Grows
<1> SUFFICES ASSUME LogTyped, ControlTyped, TurnStep, ~Quiet PROVE Grows
  BY DEF Grows
<1>1. PICK e \in Entries : Plain(e) /\ AppendEvent(e)
  BY TurnAppends
<1>2. Adds(e) /\ Len(log) < MaxEvents
  BY <1>1, Appended DEF Plain
<1> QED BY <1>1, <1>2 DEF Grows

LEMMA EngineGrows ==
  ASSUME LogTyped, ControlTyped,
         \/ Prompt \/ Compact \/ Notice \/ TurnLocks \/ CommandLocks
         \/ Enter \/ Begin \/ CompactionStart \/ Snapshot \/ Summarize \/ Fail
         \/ CommitSummary \/ CommitEnd
  PROVE  Grows
<1> SUFFICES ASSUME ~Quiet PROVE Grows
  BY DEF Grows
<1>1. PICK e \in Entries : Plain(e) /\ AppendEvent(e)
  BY EngineAppends
<1>2. Adds(e) /\ Len(log) < MaxEvents
  BY <1>1, Appended DEF Plain
<1> QED BY <1>1, <1>2 DEF Grows

LEMMA StepGrows ==
  ASSUME LogTyped, ControlTyped, Next
  PROVE  Grows \/ CommitReplace \/ Resume
BY TurnGrows, EngineGrows DEF Next, EngineStep

LEMMA GrowsKeeps ==
  ASSUME LogTyped, Grows
  PROVE  /\ LogTyped'
         /\ Shown \subseteq Shown'
         /\ \A seqs : Covered(seqs) => Covered(seqs)'
         /\ \A region \in Seq(Nat) : Lies(region, surface) => Lies(region, surface')
         /\ HiddenWasSummarized => HiddenWasSummarized'
<1>1. CASE Quiet
  BY <1>1 DEF Quiet, LogTyped, LP!Distinct, Shown, Covered, HiddenWasSummarized
<1>2. CASE ~Quiet
  <2>1. PICK e \in Entries : Plain(e) /\ Adds(e) /\ Len(log) < MaxEvents
    BY <1>2 DEF Grows
  <2>2. LogTyped'
    BY <2>1, AddsKeepsTypes
  <2>3. /\ log \in Seq(Entries) /\ surface \in Seq(Nat) /\ log' = Append(log, e)
        /\ surface' = IF e.kind = "message" THEN Append(surface, Len(log)) ELSE surface
    BY <2>1 DEF LogTyped, Adds
  <2>4. /\ Len(log) \in Nat /\ DOMAIN log = 1..Len(log) /\ DOMAIN log' = 1..(Len(log) + 1)
        /\ \A i \in DOMAIN log : i \in DOMAIN log' /\ log'[i] = log[i]
        /\ log'[Len(log) + 1] = e
    BY <2>3
  <2>5. /\ DOMAIN surface \subseteq DOMAIN surface' /\ Len(surface) <= Len(surface')
        /\ Len(surface) \in Nat /\ Len(surface') \in Nat
        /\ \A i \in DOMAIN surface : surface'[i] = surface[i]
    BY <2>3, <2>4
  <2>6. Shown \subseteq Shown'
    BY <2>5 DEF Shown, ToSet
  <2>7. ASSUME NEW seqs, Covered(seqs) PROVE Covered(seqs)'
    BY <2>4, <2>7 DEF Covered
  <2>8. ASSUME NEW region \in Seq(Nat), Lies(region, surface) PROVE Lies(region, surface')
    <3>1. PICK p \in DOMAIN surface :
            /\ p + Len(region) - 1 <= Len(surface)
            /\ \A k \in DOMAIN region : surface[p + k - 1] = region[k]
      BY <2>8 DEF Lies
    <3>2. \A k \in DOMAIN region : p + k - 1 \in DOMAIN surface
      BY <2>3, <2>5, <3>1
    <3>3. p + Len(region) - 1 <= Len(surface')
      BY <2>3, <2>5, <3>1
    <3> QED BY <2>5, <2>8, <3>1, <3>2, <3>3 DEF Lies
  <2>9. ASSUME HiddenWasSummarized, NEW i \in DOMAIN log', log'[i].kind = "message",
               (i - 1) \notin Shown'
        PROVE  \E j \in DOMAIN log' : log'[j].type = "compaction/summary" /\ (i - 1) \in log'[j].covers
    <3>1. i \in DOMAIN log
      <4>1. SUFFICES ASSUME i = Len(log) + 1 PROVE FALSE
        BY <2>4
      <4>2. surface' = Append(surface, Len(log))
        BY <2>3, <2>4, <2>9, <4>1
      <4>3. Len(surface) + 1 \in DOMAIN surface' /\ surface'[Len(surface) + 1] = i - 1
        BY <2>3, <2>4, <4>1, <4>2
      <4> QED BY <2>9, <4>3 DEF Shown, ToSet
    <3>2. log[i].kind = "message" /\ (i - 1) \notin Shown
      BY <2>4, <2>6, <2>9, <3>1
    <3> QED BY <2>4, <2>9, <3>1, <3>2 DEF HiddenWasSummarized
  <2> QED BY <2>2, <2>6, <2>7, <2>8, <2>9 DEF HiddenWasSummarized
<1> QED BY <1>1, <1>2

\* The checkpoint hides what its summary covers and nothing else.
LEMMA ReplaceHides ==
  ASSUME LogTyped, NEW region \in Seq(Nat), Lies(region, surface), AppendEvent(Checkpoint(region)),
         Covered(ToSet(region)), HiddenWasSummarized
  PROVE  HiddenWasSummarized'
<1>1. PICK p \in DOMAIN surface, q \in DOMAIN surface :
        /\ p <= q
        /\ \A i \in p..q : surface[i] \in ToSet(region)
        /\ LP!Covers(surface, p, q, Len(log), surface')
  BY ReplaceTo
<1>2. /\ log \in Seq(Entries) /\ log' = Append(log, Checkpoint(region)) /\ Len(log) \in Nat
      /\ surface \in Seq(Nat) /\ Len(surface) \in Nat /\ DOMAIN surface = 1..Len(surface)
  BY ReplaceTo DEF LogTyped
<1>3. /\ surface' \in Seq(Nat) /\ DOMAIN surface' = 1..(p + (Len(surface) - q))
      /\ \A i \in 1..(p - 1) : surface'[i] = surface[i]
      /\ surface'[p] = Len(log)
      /\ \A i \in 1..(Len(surface) - q) : surface'[p + i] = surface[q + i]
  BY <1>1 DEF LP!Covers
<1>4. /\ DOMAIN log = 1..Len(log) /\ DOMAIN log' = 1..(Len(log) + 1)
      /\ \A i \in DOMAIN log : i \in DOMAIN log' /\ log'[i] = log[i]
  BY <1>2
<1>5. ASSUME NEW a \in DOMAIN surface, a \notin p..q PROVE surface[a] \in Shown'
  <2>1. CASE a < p
    <3>1. a \in 1..(p - 1) /\ a \in DOMAIN surface'
      BY <1>1, <1>2, <1>3, <2>1, SMTT(30)
    <3> QED BY <1>3, <3>1 DEF Shown, ToSet
  <2>2. CASE a > q
    <3>0. a \in 1..Len(surface) /\ p \in Nat /\ q \in Nat /\ p >= 1 /\ Len(surface) \in Nat
      BY <1>2
    <3>1. a - q \in 1..(Len(surface) - q) /\ q + (a - q) = a /\ p + (a - q) \in DOMAIN surface'
      <4>1. p + (a - q) \in 1..(p + (Len(surface) - q))
        BY <2>2, <3>0
      <4>2. p + (a - q) \in DOMAIN surface'
        BY <1>3, <4>1
      <4> QED BY <2>2, <3>0, <4>2
    <3>2. surface'[p + (a - q)] = surface[q + (a - q)]
      BY <1>3, <3>1
    <3> QED BY <3>1, <3>2 DEF Shown, ToSet
  <2> QED BY <1>1, <1>2, <1>5, <2>1, <2>2
<1>6. Len(log) \in Shown'
  <2>1. p \in DOMAIN surface'
    BY <1>1, <1>2, <1>3
  <2> QED BY <1>3, <2>1 DEF Shown, ToSet
<1>7. ASSUME NEW i \in DOMAIN log', log'[i].kind = "message", (i - 1) \notin Shown'
      PROVE  \E j \in DOMAIN log' : log'[j].type = "compaction/summary" /\ (i - 1) \in log'[j].covers
  <2>1. i \in DOMAIN log
    <3>1. i # Len(log) + 1
      BY <1>2, <1>6, <1>7
    <3> QED BY <1>2, <1>4, <3>1, SMTT(40)
  <2>2. CASE (i - 1) \notin Shown
    BY <1>4, <1>7, <2>1, <2>2 DEF HiddenWasSummarized
  <2>3. CASE (i - 1) \in Shown
    <3>1. PICK a \in DOMAIN surface : surface[a] = i - 1
      BY <2>3 DEF Shown, ToSet
    <3>2. (i - 1) \in ToSet(region)
      BY <1>1, <1>5, <1>7, <3>1
    <3> QED BY <1>4, <3>2 DEF Covered
  <2> QED BY <2>2, <2>3
<1> QED BY <1>7 DEF HiddenWasSummarized

LEMMA ResumeHidesNothing ==
  ASSUME LogTyped, Resume, HiddenWasSummarized
  PROVE  HiddenWasSummarized'
<1>1. PICK n \in Nat : Repairs(n, log', surface')
  BY ResumeTo
<1>2. /\ log \in Seq(Entries) /\ Len(log) \in Nat /\ DOMAIN log = 1..Len(log)
      /\ DOMAIN log' = 1..Len(log') /\ Len(log') \in Nat /\ Len(log) + n <= Len(log')
      /\ \A i \in DOMAIN log : i \in DOMAIN log' /\ log'[i] = log[i]
      /\ Len(surface) \in Nat /\ DOMAIN surface = 1..Len(surface)
      /\ DOMAIN surface' = 1..(Len(surface) + n)
  <2>1. log \in Seq(Entries) /\ log' \in Seq(Entries) /\ surface \in Seq(Nat) /\ surface' \in Seq(Nat)
    BY <1>1 DEF LogTyped, Repairs
  <2>2. /\ Len(log) + n <= Len(log') /\ \A i \in 1..Len(log) : log'[i] = log[i]
        /\ Len(surface') = Len(surface) + n
    BY <1>1 DEF Repairs
  <2>3. /\ Len(log) \in Nat /\ DOMAIN log = 1..Len(log) /\ DOMAIN log' = 1..Len(log')
        /\ Len(log') \in Nat /\ Len(surface) \in Nat /\ DOMAIN surface = 1..Len(surface)
        /\ DOMAIN surface' = 1..Len(surface')
    BY <2>1
  <2> QED BY <2>1, <2>2, <2>3
<1>3. Shown \subseteq Shown'
  BY <1>1, <1>2 DEF Repairs, Shown, ToSet
<1>4. ASSUME NEW i \in DOMAIN log', log'[i].kind = "message", (i - 1) \notin Shown'
      PROVE  i \in DOMAIN log
  <2>1. SUFFICES ASSUME i > Len(log) PROVE FALSE
    BY <1>2
  <2>2. ~(i > Len(log) + n)
    BY <1>1, <1>2, <1>4 DEF Repairs
  <2>3. i - Len(log) \in 1..n /\ Len(log) + (i - Len(log)) - 1 = i - 1
    BY <1>2, <2>1, <2>2
  <2>4. surface'[Len(surface) + (i - Len(log))] = i - 1
    BY <1>1, <2>3 DEF Repairs
  <2>5. Len(surface) + (i - Len(log)) \in DOMAIN surface'
    BY <1>2, <2>3
  <2> QED BY <1>4, <2>4, <2>5 DEF Shown, ToSet
<1>5. ASSUME NEW i \in DOMAIN log', log'[i].kind = "message", (i - 1) \notin Shown'
      PROVE  \E j \in DOMAIN log' : log'[j].type = "compaction/summary" /\ (i - 1) \in log'[j].covers
  <2>1. i \in DOMAIN log /\ log[i].kind = "message" /\ (i - 1) \notin Shown
    BY <1>2, <1>3, <1>4, <1>5
  <2> QED BY <1>2, <2>1 DEF HiddenWasSummarized
<1> QED BY <1>5 DEF HiddenWasSummarized

-----------------------------------------------------------------------------
(* The ways of the engine.                                                 *)

Working == {"start", "snapshot", "summarize", "fail", "commit", "replace", "end"}
Recorded == Working \ {"start"}

\* A region is chosen.
Chooses ==
  /\ engine.stage = "enter" /\ engine'.stage = "begin" /\ Quiet /\ turn' = turn
  /\ engine'.region \in Seq(Nat) /\ Lies(engine'.region, surface) /\ Spares(engine'.region)

\* The holder goes on with its region.
Proceeds ==
  /\ engine.stage \in ({"begin"} \cup Working) \ {"fail", "end"} /\ engine'.stage \in Working
  /\ engine'.by = engine.by /\ engine'.region = engine.region /\ turn' = turn
  /\ engine.stage = "begin" => engine'.stage = "start" /\ Quiet /\ ~Busy
  /\ engine.stage # "begin" => engine'.stage # "start"
  /\ CompactionStart <=> engine.stage = "start"
  /\ engine'.stage = "replace" => CommitSummary
  /\ CommitReplace => engine'.stage = "end"
  /\ ~Fail /\ ~CommitEnd

\* The holder takes the mutex, lets go of it, or begins anew.
Settles ==
  /\ engine'.stage \in {"off", "enter"}
  /\ \/ engine.stage \in {"off", "enter", "begin"} /\ Quiet
     \/ Fail \/ CommitEnd
  /\ \/ turn' = turn
     \/ turn'.pc = "compacting" /\ turn.pc \in InTurn
     \/ engine.by = "turn" /\ turn'.pc \in InTurn

LEMMA LeavesSettles ==
  ASSUME ControlTyped, Holders, NEW done \in BOOLEAN, Leaves(done),
         (engine.stage \in {"enter", "begin"} /\ Quiet) \/ Fail \/ CommitEnd
  PROVE  Settles
<1>1. engine.stage # "off"
  BY DEF Fail, CommitEnd
<1>2. /\ engine' = Unlocked
      /\ \/ turn' = turn
         \/ engine.by = "turn" /\ turn'.pc \in {"stream", "loop", "ended"}
  BY <1>1, LeavesTo
<1> QED BY <1>2, Unlocks DEF Settles, InTurn

LEMMA EngineTo ==
  ASSUME LogTyped, ControlTyped, Holders, EngineStep
  PROVE  Chooses \/ Proceeds \/ Settles
<1>1. engine \in Engines /\ turn \in Turns
  BY DEF ControlTyped
<1>2. CASE TurnLocks
  <2>1. engine'.stage = "enter" /\ engine.by = "none" /\ Quiet
    BY <1>1, <1>2, Unlocks DEF TurnLocks, Locks, Engines, Quiet
  <2>2. turn.pc \in InTurn /\ turn'.pc = "compacting"
    BY <1>1, <1>2, TurnMoves DEF TurnLocks, InTurn, TurnPlaces
  <2> QED BY <2>1, <2>2 DEF Settles, Holders
<1>3. CASE CommandLocks
  <2>1. engine'.stage = "enter" /\ engine.by = "none" /\ Quiet /\ turn' = turn
    BY <1>1, <1>3, Unlocks DEF CommandLocks, Locks, Engines, Quiet
  <2> QED BY <2>1 DEF Settles, Holders
<1>4. CASE Enter
  <2>1. engine.stage = "enter" /\ Quiet
    BY <1>4, EnterTo
  <2>2. CASE Leaves(FALSE)
    BY <2>1, <2>2, LeavesSettles
  <2>3. ASSUME NEW region \in Seq(Nat), Lies(region, surface), Spares(region), turn' = turn,
               engine' = [engine EXCEPT !.stage = "begin", !.region = region]
        PROVE  Chooses
    <3>1. engine'.stage = "begin" /\ engine'.region = region
      BY <1>1, <2>3 DEF Engines
    <3> QED BY <2>1, <2>3, <3>1 DEF Chooses
  <2> QED BY <1>4, <2>2, <2>3, EnterTo
<1>5. CASE Begin
  <2>1. engine.stage = "begin" /\ Quiet
    BY <1>5 DEF Begin, Quiet
  <2>2. CASE Leaves(FALSE)
    BY <2>1, <2>2, LeavesSettles
  <2>3. CASE ~Leaves(FALSE)
    <3>1. ~Busy /\ Onward("start")
      BY <1>5, <2>3 DEF Begin, Onward
    <3>2. engine'.stage = "start" /\ engine'.by = engine.by /\ engine'.region = engine.region
      BY <1>1, <3>1 DEF Onward, Engines
    <3> QED BY <2>1, <3>1, <3>2
         DEF Proceeds, Working, Onward, CompactionStart, CommitReplace, Fail, CommitEnd
  <2> QED BY <2>2, <2>3
<1>6. ASSUME NEW stage \in {"snapshot", "summarize", "commit", "fail", "replace", "end"},
             engine' = [engine EXCEPT !.stage = stage]
      PROVE  engine'.stage = stage /\ engine'.by = engine.by /\ engine'.region = engine.region
  BY <1>1, <1>6 DEF Engines
<1>7. CASE CompactionStart
  <2>1. engine.stage = "start" /\ engine' = [engine EXCEPT !.stage = "snapshot"] /\ turn' = turn
    BY <1>7 DEF CompactionStart
  <2> QED BY <1>6, <1>7, <2>1 DEF Proceeds, Working, CommitReplace, Fail, CommitEnd
<1>8. CASE Snapshot
  <2>1. engine'.stage = "summarize" /\ engine'.by = engine.by /\ engine'.region = engine.region
    BY <1>1, <1>8 DEF Snapshot, Engines
  <2>2. engine.stage = "snapshot" /\ turn' = turn
    BY <1>8 DEF Snapshot
  <2> QED BY <2>1, <2>2 DEF Proceeds, Working, CompactionStart, CommitReplace, Fail, CommitEnd
<1>9. CASE Summarize
  <2>1. PICK next \in {"commit", "fail"} : engine' = [engine EXCEPT !.stage = next]
    BY <1>9 DEF Summarize
  <2>2. engine.stage = "summarize" /\ turn' = turn
    BY <1>9 DEF Summarize
  <2> QED BY <1>6, <2>1, <2>2
       DEF Proceeds, Working, CompactionStart, CommitReplace, Fail, CommitEnd
<1>10. CASE Fail
  <2>1. Leaves(FALSE)
    BY <1>10 DEF Fail
  <2> QED BY <1>10, <2>1, LeavesSettles
<1>11. CASE CommitSummary
  <2>1. engine.stage = "commit" /\ engine' = [engine EXCEPT !.stage = "replace"] /\ turn' = turn
    BY <1>11 DEF CommitSummary
  <2> QED BY <1>6, <1>11, <2>1
       DEF Proceeds, Working, CompactionStart, CommitReplace, Fail, CommitEnd
<1>12. CASE CommitReplace
  <2>1. engine.stage = "replace" /\ engine' = [engine EXCEPT !.stage = "end"] /\ turn' = turn
    BY <1>12 DEF CommitReplace
  <2> QED BY <1>6, <2>1 DEF Proceeds, Working, CompactionStart, Fail, CommitEnd
<1>13. CASE CommitEnd
  <2>1. CASE Leaves(TRUE)
    BY <1>13, <2>1, LeavesSettles
  <2>2. CASE ~Leaves(TRUE)
    <3>1. engine' = [engine EXCEPT !.stage = "enter", !.attempts = 1] /\ turn' = turn
      BY <1>13, <2>2 DEF CommitEnd
    <3>2. engine'.stage = "enter"
      BY <1>1, <3>1 DEF Engines
    <3> QED BY <1>13, <3>1, <3>2 DEF Settles
  <2> QED BY <2>1, <2>2
<1> QED BY <1>2, <1>3, <1>4, <1>5, <1>7, <1>8, <1>9, <1>10, <1>11, <1>12, <1>13 DEF EngineStep

-----------------------------------------------------------------------------
(* Who may be where.                                                       *)

LEMMA ReplaceMarks ==
  ASSUME LogTyped, ControlTyped, RegionLies, CommitReplace
  PROVE  (OpenTurn' <=> OpenTurn) /\ (CompactionActive' <=> CompactionActive)
<1>1. engine.region \in Seq(Nat) /\ Lies(engine.region, surface)
  BY DEF ControlTyped, Engines, RegionLies, CommitReplace
<1>2. /\ log' = Append(log, Checkpoint(engine.region)) /\ Checkpoint(engine.region) \in Entries
      /\ Checkpoint(engine.region).type = "user/message"
  BY <1>1, ReplaceTo, CheckpointTyped DEF CommitReplace, Lies
<1> QED BY <1>2, LogAfter

\* Only the turn opens and closes itself.
LEMMA OthersKeepOpen ==
  ASSUME LogTyped, ControlTyped, RegionLies, Prompt \/ Compact \/ Notice \/ EngineStep
  PROVE  OpenTurn' <=> OpenTurn
<1>1. CASE CommitReplace
  BY <1>1, ReplaceMarks
<1>2. CASE Quiet
  BY <1>2 DEF Quiet, OpenTurn, Unmatched
<1>3. CASE ~Quiet /\ ~CommitReplace
  <2>1. PICK e \in Entries : /\ Plain(e) /\ AppendEvent(e)
                             /\ e.type \notin {"turn/start", "turn/end"}
    BY <1>3, EngineAppends DEF EngineStep
  <2>2. log' = Append(log, e)
    BY <2>1, Appended DEF Plain, Adds
  <2> QED BY <2>1, <2>2, LogAfter
<1> QED BY <1>1, <1>2, <1>3

LEMMA ActiveAfter ==
  ASSUME LogTyped, ControlTyped, RegionLies, Next, ~Resume
  PROVE  /\ CompactionStart => CompactionActive'
         /\ Fail \/ CommitEnd => ~CompactionActive'
         /\ ~(CompactionStart \/ Fail \/ CommitEnd) => (CompactionActive' <=> CompactionActive)
<1>1. ASSUME CompactionStart \/ Fail \/ CommitEnd
      PROVE  /\ CompactionStart => CompactionActive'
             /\ Fail \/ CommitEnd => ~CompactionActive'
  <2>1. PICK e \in Entries : /\ Plain(e) /\ AppendEvent(e)
                             /\ e.type = "compaction/start" <=> CompactionStart
                             /\ e.type = "compaction/end" <=> Fail \/ CommitEnd
    BY <1>1, EngineAppends
  <2>2. log' = Append(log, e)
    BY <2>1, Appended DEF Plain, Adds
  <2> QED BY <2>1, <2>2, LogAfter
<1>2. ASSUME ~(CompactionStart \/ Fail \/ CommitEnd)
      PROVE  CompactionActive' <=> CompactionActive
  <2>1. CASE CommitReplace
    BY <2>1, ReplaceMarks
  <2>2. CASE Quiet
    BY <2>2 DEF Quiet, CompactionActive, Unmatched
  <2>3. CASE ~Quiet /\ ~CommitReplace
    <3>1. PICK e \in Entries : /\ Plain(e) /\ AppendEvent(e)
                               /\ e.type \notin {"compaction/start", "compaction/end"}
      <4>1. CASE TurnStep
        BY <2>3, <4>1, TurnAppends
      <4>2. CASE ~TurnStep
        BY <1>2, <2>3, <4>2, EngineAppends DEF Next, EngineStep
      <4> QED BY <4>1, <4>2
    <3>2. log' = Append(log, e)
      BY <3>1, Appended DEF Plain, Adds
    <3> QED BY <3>1, <3>2, LogAfter
  <2> QED BY <2>1, <2>2, <2>3
<1> QED BY <1>1, <1>2

\* The places a step of the turn leads to.
LEMMA TurnComes ==
  ASSUME ControlTyped, TurnStep
  PROVE  /\ engine' = engine
         /\ turn'.pc \in InTurn => turn.pc \in InTurn \/ TurnStart
         /\ turn'.pc \in {"stream", "tools", "overflow"} => turn.pc \in {"stream", "tools"}
<1>0. turn \in Turns
  BY DEF ControlTyped
<1>1. engine' = engine
  BY DEF TurnStep, InjectSystem, TurnStart, ClaimMessage, Loop, StreamAnswers, StreamFails,
         ToolReturns, ToolsDone, TurnEnd
<1>2. CASE InjectSystem
  BY <1>0, <1>1, <1>2 DEF InjectSystem, Turns, InTurn
<1>3. CASE TurnStart
  BY <1>0, <1>1, <1>3, TurnMoves DEF TurnStart, TurnPlaces
<1>4. CASE ClaimMessage
  <2>1. turn.pc = "claim" /\ turn'.pc \in {"loop", "off"}
    BY <1>0, <1>4, TurnMoves DEF ClaimMessage, TurnPlaces
  <2> QED BY <1>1, <2>1 DEF InTurn
<1>5. CASE Loop
  <2>1. turn.pc = "loop" /\ turn'.pc \in {"end", "pressure"}
    BY <1>0, <1>5, TurnMoves DEF Loop, TurnPlaces
  <2> QED BY <1>1, <2>1 DEF InTurn
<1>6. CASE StreamAnswers \/ StreamFails \/ ToolReturns
  BY <1>1, <1>6 DEF StreamAnswers, StreamFails, ToolReturns, InTurn
<1>7. CASE ToolsDone
  <2>1. turn.pc = "tools" /\ turn'.pc \in {"end", "loop"}
    BY <1>0, <1>7, TurnMoves DEF ToolsDone, TurnPlaces
  <2> QED BY <1>1, <2>1 DEF InTurn
<1>8. CASE TurnEnd
  <2>1. turn'.pc \in {"end", "off"}
    <3>1. CASE Turn("end")
      BY <1>0, <3>1, TurnMoves DEF TurnPlaces
    <3>2. CASE turn' = [turn EXCEPT !.pc = "off", !.overflows = 0]
      BY <1>0, <3>2 DEF Turns
    <3> QED BY <1>8, <3>1, <3>2 DEF TurnEnd
  <2> QED BY <1>1, <2>1 DEF InTurn
<1> QED BY <1>2, <1>3, <1>4, <1>5, <1>6, <1>7, <1>8 DEF TurnStep

LEMMA OthersLeaveTheTurn ==
  ASSUME LogTyped, ControlTyped, Holders, Prompt \/ Compact \/ Notice
  PROVE  engine' = engine /\ (turn' = turn \/ turn'.pc \in {"start", "system"})
<1>1. turn \in Turns
  BY DEF ControlTyped
<1>2. CASE Prompt
  <2>1. PICK pc \in {"start", "system"} : turn' = [turn EXCEPT !.pc = pc, !.step = 0]
    BY <1>2 DEF Prompt
  <2> QED BY <1>1, <1>2, <2>1 DEF Prompt, Turns
<1> QED BY <1>2 DEF Compact, Notice

-----------------------------------------------------------------------------
(* Every part of the invariant is kept.                                    *)

LEMMA TypesKept ==
  ASSUME LogTyped, ControlTyped, RegionLies, Next
  PROVE  LogTyped'
<1>1. CASE Grows
  BY <1>1, GrowsKeeps
<1>2. CASE CommitReplace
  <2>1. engine.region \in Seq(Nat) /\ Lies(engine.region, surface)
    BY <1>2 DEF ControlTyped, Engines, RegionLies, CommitReplace
  <2> QED BY <1>2, <2>1, ReplaceKeepsTypes DEF CommitReplace
<1>3. CASE Resume
  BY <1>3, ResumeKeepsTypes
<1> QED BY <1>1, <1>2, <1>3, StepGrows

LEMMA TurnIsOpenKept ==
  ASSUME LogTyped, ControlTyped, Holders, RegionLies, TurnIsOpen, Next
  PROVE  TurnIsOpen'
<1>1. CASE TurnStart
  <2>1. Record("turn/start") \in Entries /\ Record("turn/start").op.op # "replace"
        /\ Record("turn/start").type = "turn/start"
    BY EntriesTyped DEF Types
  <2>2. log' = Append(log, Record("turn/start"))
    BY <1>1, <2>1, Appended DEF TurnStart, Adds
  <2> QED BY <2>1, <2>2, LogAfter DEF TurnIsOpen
<1>2. CASE TurnStep /\ ~TurnStart
  <2>1. turn'.pc \in InTurn => turn.pc \in InTurn
    BY <1>2, TurnComes
  <2>2. CASE Quiet
    BY <2>1, <2>2 DEF Quiet, TurnIsOpen, OpenTurn, Unmatched
  <2>3. CASE ~Quiet
    <3>1. PICK e \in Entries : /\ Plain(e) /\ AppendEvent(e) /\ e.type # "turn/start"
                               /\ e.type = "turn/end" => turn'.pc \in {"off", "end"}
      BY <1>2, <2>3, TurnAppends
    <3>2. log' = Append(log, e)
      BY <3>1, Appended DEF Plain, Adds
    <3>3. CASE e.type = "turn/end"
      BY <3>1, <3>3 DEF TurnIsOpen, InTurn
    <3>4. CASE e.type # "turn/end"
      BY <2>1, <3>1, <3>2, <3>4, LogAfter DEF TurnIsOpen
    <3> QED BY <3>3, <3>4
  <2> QED BY <2>2, <2>3
<1>3. CASE Prompt \/ Compact \/ Notice \/ EngineStep
  <2>1. turn'.pc \in InTurn => turn.pc \in InTurn
    <3>1. CASE EngineStep
      BY <3>1, EngineTo DEF Chooses, Proceeds, Settles, Holders, InTurn
    <3>2. CASE Prompt \/ Compact \/ Notice
      BY <3>2, OthersLeaveTheTurn DEF InTurn
    <3> QED BY <1>3, <3>1, <3>2
  <2> QED BY <1>3, <2>1, OthersKeepOpen DEF TurnIsOpen
<1>4. CASE Resume
  BY <1>4 DEF Resume, NoTurn, TurnIsOpen, InTurn
<1> QED BY <1>1, <1>2, <1>3, <1>4 DEF Next

LEMMA CommandApartKept ==
  ASSUME LogTyped, ControlTyped, Holders, TurnIsOpen, CommandApart, Next
  PROVE  CommandApart'
<1>1. CASE TurnStep
  BY <1>1, TurnComes DEF CommandApart
<1>2. CASE Prompt \/ Compact \/ Notice
  BY <1>2, OthersLeaveTheTurn DEF CommandApart
<1>3. CASE EngineStep
  <2>1. CASE Chooses
    BY <2>1 DEF Chooses, CommandApart
  <2>2. CASE Settles
    <3>1. (engine.by = "none")' <=> (engine.stage = "off")'
      BY <1>3, ControlKept DEF Next, Holders
    <3> QED BY <2>2, <3>1 DEF Settles, CommandApart
  <2>3. CASE Proceeds /\ engine.stage = "begin"
    <3>1. engine.by = "manual" => ~OpenTurn
      BY <2>3 DEF Proceeds, Busy
    <3> QED BY <2>3, <3>1 DEF Proceeds, TurnIsOpen, InTurn, CommandApart
  <2>4. CASE Proceeds /\ engine.stage # "begin"
    BY <2>4 DEF Proceeds, Working, CommandApart
  <2> QED BY <1>3, <2>1, <2>2, <2>3, <2>4, EngineTo
<1>4. CASE Resume
  BY <1>4, Unlocks DEF Resume, CommandApart
<1> QED BY <1>1, <1>2, <1>3, <1>4 DEF Next

LEMMA ActiveKept ==
  ASSUME LogTyped, ControlTyped, Holders, RegionLies, ActiveIsInEngine, Next
  PROVE  ActiveIsInEngine'
<1>1. CASE Resume
  <2>1. spent'.crashes # 0
    BY <1>1 DEF Resume, ControlTyped
  <2> QED BY <2>1 DEF ActiveIsInEngine
<1>2. CASE ~Resume
  <2>1. spent'.crashes = 0 => spent.crashes = 0
    <3>1. spent'.crashes = spent.crashes
      BY <1>2 DEF ControlTyped, Next, TurnStep, EngineStep, Prompt, InjectSystem, TurnStart,
           ClaimMessage, Loop, StreamAnswers, StreamFails, ToolReturns, ToolsDone, TurnEnd, Compact,
           Notice, TurnLocks, CommandLocks, Enter, Begin, CompactionStart, Snapshot, Summarize,
           Fail, CommitSummary, CommitReplace, CommitEnd
    <3> QED BY <3>1
  <2>2. CASE TurnStep \/ Prompt \/ Compact \/ Notice
    <3>1. engine' = engine
      BY <2>2, TurnComes, OthersLeaveTheTurn
    <3>2. ~(CompactionStart \/ Fail \/ CommitEnd)
      BY <3>1, Unlocks DEF CompactionStart, Fail, CommitEnd, Leaves, ControlTyped, Engines
    <3> QED BY <1>2, <2>1, <3>1, <3>2, ActiveAfter DEF ActiveIsInEngine
  <2>3. CASE EngineStep
    <3>1. CASE Chooses
      <4>1. ~(CompactionStart \/ Fail \/ CommitEnd)
        BY <3>1 DEF Chooses, CompactionStart, Fail, CommitEnd
      <4> QED BY <1>2, <2>1, <3>1, <4>1, ActiveAfter DEF Chooses, ActiveIsInEngine
    <3>2. CASE Proceeds
      BY <1>2, <2>1, <3>2, ActiveAfter DEF Proceeds, Working, ActiveIsInEngine
    <3>3. CASE Settles
      <4>1. CASE Fail \/ CommitEnd
        BY <1>2, <2>1, <3>3, <4>1, ActiveAfter DEF Settles, ActiveIsInEngine
      <4>2. CASE ~(Fail \/ CommitEnd)
        <5>1. ~CompactionStart
          BY <3>3, <4>2 DEF Settles, CompactionStart
        <5> QED BY <1>2, <2>1, <3>3, <4>2, <5>1, ActiveAfter DEF Settles, ActiveIsInEngine
      <4> QED BY <4>1, <4>2
    <3> QED BY <2>3, <3>1, <3>2, <3>3, EngineTo
  <2> QED BY <1>2, <2>2, <2>3 DEF Next
<1> QED BY <1>1, <1>2

LEMMA RegionKept ==
  ASSUME LogTyped, ControlTyped, Holders, RegionLies, Next
  PROVE  RegionLies'
<1>0. engine.region \in Seq(Nat)
  BY DEF ControlTyped, Engines
<1>1. CASE Resume
  BY <1>1, Unlocks DEF Resume, RegionLies
<1>2. CASE TurnStep \/ Prompt \/ Compact \/ Notice
  <2>1. engine' = engine
    BY <1>2, TurnComes, OthersLeaveTheTurn
  <2>2. Grows
    BY <1>2, TurnGrows, EngineGrows
  <2> QED BY <1>0, <2>1, <2>2, GrowsKeeps DEF RegionLies
<1>3. CASE EngineStep
  <2>1. CASE Chooses
    BY <2>1 DEF Chooses, Quiet, RegionLies
  <2>2. CASE Settles
    BY <2>2 DEF Settles, RegionLies
  <2>3. CASE Proceeds
    <3>1. CASE CommitReplace
      BY <2>3, <3>1 DEF Proceeds, RegionLies
    <3>2. CASE Grows
      BY <1>0, <2>3, <3>2, GrowsKeeps DEF Proceeds, Working, RegionLies
    <3> QED BY <1>1, <1>3, <3>1, <3>2, StepGrows
  <2> QED BY <1>3, <2>1, <2>2, <2>3, EngineTo
<1> QED BY <1>1, <1>2, <1>3 DEF Next

\* The head of a surface that is not empty stays, unless it is replaced.
LEMMA HeadStays ==
  ASSUME LogTyped, Grows \/ Resume, surface # <<>>
  PROVE  surface'[1] = surface[1] /\ FirstCompactable' = FirstCompactable
<1>1. /\ surface \in Seq(Nat) /\ log \in Seq(Entries) /\ 1 \in DOMAIN surface
      /\ surface[1] + 1 \in 1..Len(log)
  BY DEF LogTyped
<1>2. surface'[1] = surface[1] /\ surface' # <<>> /\ log'[surface[1] + 1] = log[surface[1] + 1]
  <2>1. CASE Quiet
    BY <2>1 DEF Quiet
  <2>2. CASE Grows /\ ~Quiet
    <3>1. PICK e \in Entries : Adds(e)
      BY <2>2 DEF Grows
    <3>2. /\ log' = Append(log, e)
          /\ surface' = Append(surface, Len(log)) \/ surface' = surface
      BY <3>1 DEF Adds
    <3> QED BY <1>1, <3>2
  <2>3. CASE Resume
    <3>1. PICK n \in Nat : Repairs(n, log', surface')
      BY <2>3, ResumeTo
    <3>2. /\ surface' \in Seq(Nat) /\ Len(surface') = Len(surface) + n
          /\ 1 \in 1..Len(surface)
      BY <1>1, <3>1 DEF Repairs
    <3>3. surface' # <<>>
      BY <1>1, <3>2
    <3> QED BY <1>1, <3>1, <3>2, <3>3 DEF Repairs
  <2> QED BY <2>1, <2>2, <2>3
<1>3. EventAt(surface[1])' = EventAt(surface[1])
  BY <1>2 DEF EventAt
<1> QED BY <1>2, <1>3 DEF FirstCompactable

LEMMA HeadKept ==
  ASSUME LogTyped, ControlTyped, Holders, RegionLies, HeadApart, Next
  PROVE  HeadApart'
<1>1. CASE Resume
  BY <1>1, Unlocks DEF Resume, HeadApart
<1>2. ASSUME engine.stage \notin {"off", "enter", "end"} PROVE surface # <<>>
  <2>1. Lies(engine.region, surface) /\ surface \in Seq(Nat)
    BY <1>2 DEF RegionLies, LogTyped
  <2> QED BY <2>1 DEF Lies
<1>3. CASE TurnStep \/ Prompt \/ Compact \/ Notice
  <2>1. engine' = engine
    BY <1>3, TurnComes, OthersLeaveTheTurn
  <2>2. Grows
    BY <1>3, TurnGrows, EngineGrows
  <2> QED BY <1>2, <2>1, <2>2, HeadStays DEF HeadApart, Spares
<1>4. CASE EngineStep
  <2>1. CASE Chooses
    BY <2>1 DEF Chooses, Quiet, HeadApart, Spares, FirstCompactable, EventAt
  <2>2. CASE Settles
    BY <2>2 DEF Settles, HeadApart
  <2>3. CASE Proceeds
    <3>1. CASE CommitReplace
      BY <2>3, <3>1 DEF Proceeds, HeadApart
    <3>2. CASE Grows
      BY <1>2, <2>3, <3>2, HeadStays DEF Proceeds, Working, HeadApart, Spares
    <3> QED BY <1>1, <1>4, <3>1, <3>2, StepGrows DEF Next
  <2> QED BY <1>4, <2>1, <2>2, <2>3, EngineTo
<1> QED BY <1>1, <1>3, <1>4 DEF Next

LEMMA SummaryKept ==
  ASSUME LogTyped, ControlTyped, Holders, RegionLies, SummaryFirst, Next
  PROVE  SummaryFirst'
<1>1. CASE Resume
  BY <1>1, Unlocks DEF Resume, SummaryFirst
<1>2. CASE TurnStep \/ Prompt \/ Compact \/ Notice
  <2>1. engine' = engine
    BY <1>2, TurnComes, OthersLeaveTheTurn
  <2>2. Grows
    BY <1>2, TurnGrows, EngineGrows
  <2>3. ASSUME Covered(ToSet(engine.region)) PROVE Covered(ToSet(engine.region))'
    <3>1. PICK seqs : seqs = ToSet(engine.region)
      OBVIOUS
    <3>2. Covered(seqs)'
      BY <2>2, <2>3, <3>1, GrowsKeeps
    <3> QED BY <2>1, <3>1, <3>2 DEF Covered
  <2> QED BY <2>1, <2>3 DEF SummaryFirst
<1>3. CASE EngineStep
  <2>1. CASE Chooses \/ Settles
    BY <2>1 DEF Chooses, Settles, SummaryFirst
  <2>2. CASE Proceeds /\ engine'.stage # "replace"
    BY <2>2 DEF SummaryFirst
  <2>3. CASE Proceeds /\ engine'.stage = "replace"
    <3>1. CommitSummary /\ engine'.region = engine.region
      BY <2>3 DEF Proceeds
    <3>2. PICK e \in Entries : /\ Plain(e) /\ AppendEvent(e) /\ e.type = "compaction/summary"
                               /\ e.covers = ToSet(engine.region)
      BY <3>1, EngineAppends
    <3>3. log' = Append(log, e) /\ log \in Seq(Entries)
      BY <3>2, Appended DEF Plain, Adds, LogTyped
    <3>4. Len(log) + 1 \in DOMAIN log' /\ log'[Len(log) + 1] = e
      BY <3>3
    <3> QED BY <3>1, <3>2, <3>4 DEF SummaryFirst, Covered
  <2> QED BY <1>3, <2>1, <2>2, <2>3, EngineTo
<1> QED BY <1>1, <1>2, <1>3 DEF Next

LEMMA SummarizedKept ==
  ASSUME LogTyped, ControlTyped, RegionLies, SummaryFirst, HiddenWasSummarized, Next
  PROVE  HiddenWasSummarized'
<1>1. CASE Grows
  BY <1>1, GrowsKeeps
<1>2. CASE CommitReplace
  <2>1. /\ engine.region \in Seq(Nat) /\ Lies(engine.region, surface)
        /\ Covered(ToSet(engine.region))
    BY <1>2 DEF ControlTyped, Engines, RegionLies, SummaryFirst, CommitReplace
  <2> QED BY <1>2, <2>1, ReplaceHides DEF CommitReplace
<1>3. CASE Resume
  BY <1>3, ResumeHidesNothing
<1> QED BY <1>1, <1>2, <1>3, StepGrows

LEMMA InitEstablishes == Init => IInv
<1> SUFFICES ASSUME Init PROVE IInv
  OBVIOUS
<1>0. MaxEvents \in Nat /\ MaxSteps \in Nat /\ <<>> \in Seq(Nat) /\ <<>> \in Seq(Entries)
  BY CompactionAssumption
<1>1. LogTyped
  BY <1>0 DEF Init, LogTyped, LP!Distinct
<1>2. ControlTyped /\ Holders
  BY <1>0, Unlocks DEF Init, ControlTyped, Holders, NoTurn, Turns, TurnPlaces
<1>3. TurnIsOpen /\ CommandApart /\ RegionLies /\ SummaryFirst
  BY Unlocks DEF Init, NoTurn, TurnIsOpen, InTurn, CommandApart, RegionLies, SummaryFirst
<1>4. ActiveIsInEngine
  BY Unlocks DEF Init, ActiveIsInEngine, CompactionActive, Unmatched
<1>5. HiddenWasSummarized /\ HeadApart
  BY Unlocks DEF Init, HiddenWasSummarized, HeadApart
<1> QED BY <1>1, <1>2, <1>3, <1>4, <1>5 DEF IInv

LEMMA Invariance == Spec => []IInv
<1>1. Init => IInv
  BY InitEstablishes
<1>2. IInv /\ [Next]_vars => IInv'
  <2> SUFFICES ASSUME IInv, [Next]_vars PROVE IInv'
    OBVIOUS
  <2>1. CASE Next
    BY <2>1, TypesKept, ControlKept, TurnIsOpenKept, CommandApartKept, ActiveKept, RegionKept,
       HeadKept, SummaryKept, SummarizedKept DEF IInv
  <2>2. CASE UNCHANGED vars
    BY <2>2 DEF vars, IInv, LogTyped, LP!Distinct, ControlTyped, Holders, TurnIsOpen, OpenTurn,
         CommandApart, ActiveIsInEngine, CompactionActive, Unmatched, RegionLies, SummaryFirst,
         HeadApart, Spares, FirstCompactable, EventAt, Covered, HiddenWasSummarized, Shown
  <2> QED BY <2>1, <2>2
<1> QED BY <1>1, <1>2, PTL DEF Spec

-----------------------------------------------------------------------------
(* Calls and their results, part by part.                                  *)

\* The turn of entry i has not ended.
Current(i) == \A j \in (i + 1)..Len(log) : log[j].type # "turn/end"
Answered(c) == \E k \in DOMAIN log : log[k].call = c
Running(c) == turn.pc = "tools" /\ c \in ToSet(turn.todo)
GivenUp == turn.pc \in {"end", "ended"}

\* Entry i is shown and no assistant message is shown behind it.
LastAsked(i) ==
  \E a \in DOMAIN surface :
    /\ surface[a] = i - 1
    /\ \A b \in DOMAIN surface : b > a => EventAt(surface[b]).type # "assistant/message"

\* Calls are numbered as they are made, and made by one assistant message.
CallsNumbered ==
  /\ \A i \in DOMAIN log :
       /\ \A c \in ToSet(log[i].calls) :
            c > 0 /\ c <= spent.calls /\ log[i].type = "assistant/message"
       /\ log[i].call <= spent.calls
  /\ \A c : Running(c) => c <= spent.calls
  /\ \A i, k \in DOMAIN log : \A c \in ToSet(log[i].calls) : c \in ToSet(log[k].calls) => i = k

\* The calls that run were made by the last assistant message shown.
RunningAreLast == \A i \in DOMAIN log : \A c \in ToSet(log[i].calls) : Running(c) => LastAsked(i)

\* A call of a turn that goes on is answered, or runs, or was given up by the
\* last assistant message shown.
OpenAnswered ==
  \A i \in DOMAIN log : Current(i) =>
    \A c \in ToSet(log[i].calls) : Answered(c) \/ Running(c) \/ (GivenUp /\ LastAsked(i))

\* Calls are made inside turns.
CallsInTurn == \A i \in DOMAIN log : Current(i) /\ log[i].calls # <<>> => OpenTurn

\* While /compact is at work the turn makes no calls.
NoCallsBeside ==
  engine.by = "manual" /\ engine.stage \notin {"off", "enter"} =>
    /\ turn.pc \notin {"stream", "tools", "overflow"}
    /\ \A i \in DOMAIN log : Current(i) => log[i].calls = <<>>

\* Entry j is the first result of a call of entry i.
Pair(i, j) ==
  /\ log[j].type = "tool/result" /\ log[j].call \in ToSet(log[i].calls)
  /\ \A k \in 1..(j - 1) : log[k].call # log[j].call

\* Both are hidden, or both shown with no assistant message in between.
Tight(i, j) ==
  \/ (i - 1) \notin Shown /\ (j - 1) \notin Shown
  \/ \E a, b \in DOMAIN surface :
       /\ a < b /\ surface[a] = i - 1 /\ surface[b] = j - 1
       /\ \A c \in (a + 1)..b : EventAt(surface[c]).type # "assistant/message"
PairsTight == \A i, j \in DOMAIN log : Pair(i, j) => Tight(i, j)

\* A region takes both or none.
TakesWhole(region) ==
  \A i, j \in DOMAIN log : Pair(i, j) => ((i - 1) \in ToSet(region) <=> (j - 1) \in ToSet(region))
RegionWhole == engine.stage \notin {"off", "enter", "end"} => TakesWhole(engine.region)

PInv ==
  /\ CallsNumbered /\ RunningAreLast /\ OpenAnswered /\ CallsInTurn /\ NoCallsBeside
  /\ PairsTight /\ RegionWhole

-----------------------------------------------------------------------------
(* Steps that leave what there was in its place.                           *)

Extends ==
  /\ Len(log) \in Nat /\ Len(log') \in Nat /\ Len(log) <= Len(log')
  /\ DOMAIN log = 1..Len(log) /\ DOMAIN log' = 1..Len(log')
  /\ \A i \in 1..Len(log) : log'[i] = log[i]
  /\ Len(surface) \in Nat /\ Len(surface') \in Nat /\ Len(surface) <= Len(surface')
  /\ DOMAIN surface = 1..Len(surface) /\ DOMAIN surface' = 1..Len(surface')
  /\ \A a \in 1..Len(surface) : surface[a] \in 0..(Len(log) - 1) /\ surface'[a] = surface[a]
  /\ \A a \in 1..Len(surface') :
       a > Len(surface) => surface'[a] \in Len(log)..(Len(log') - 1)

\* The new entries with a message are shown, in order.
LEMMA AddsExtends ==
  ASSUME LogTyped, NEW e \in Entries, Adds(e)
  PROVE  /\ Extends /\ Len(log') = Len(log) + 1 /\ log'[Len(log) + 1] = e
         /\ e.kind = "message" => /\ Len(surface') = Len(surface) + 1
                                  /\ surface'[Len(surface) + 1] = Len(log)
<1>1. /\ log \in Seq(Entries) /\ log' = Append(log, e) /\ surface \in Seq(Nat)
      /\ \A a \in DOMAIN surface : surface[a] < Len(log)
      /\ surface' = IF e.kind = "message" THEN Append(surface, Len(log)) ELSE surface
  BY DEF LogTyped, Adds
<1>2. /\ Len(log) \in Nat /\ Len(log') = Len(log) + 1
      /\ DOMAIN log = 1..Len(log) /\ DOMAIN log' = 1..Len(log')
      /\ log'[Len(log) + 1] = e /\ \A i \in 1..Len(log) : log'[i] = log[i]
  BY <1>1
<1>3. /\ Len(surface) \in Nat /\ DOMAIN surface = 1..Len(surface)
      /\ \A a \in 1..Len(surface) : surface[a] \in 0..(Len(log) - 1)
  BY <1>1, <1>2
<1>4. CASE e.kind = "message"
  <2>1. surface' = Append(surface, Len(log))
    BY <1>1, <1>4
  <2>2. /\ Len(surface') = Len(surface) + 1 /\ DOMAIN surface' = 1..Len(surface')
        /\ surface'[Len(surface) + 1] = Len(log)
        /\ \A a \in 1..Len(surface) : surface'[a] = surface[a]
    BY <1>1, <1>2, <2>1
  <2>3. \A a \in 1..Len(surface') :
          a > Len(surface) => surface'[a] \in Len(log)..(Len(log') - 1)
    BY <1>2, <1>3, <2>2
  <2> QED BY <1>2, <1>3, <2>2, <2>3 DEF Extends
<1>5. CASE e.kind # "message"
  <2>1. surface' = surface
    BY <1>1, <1>5
  <2>2. /\ Len(surface') = Len(surface) /\ DOMAIN surface' = DOMAIN surface
        /\ \A a \in 1..Len(surface') : surface'[a] = surface[a] /\ ~(a > Len(surface))
    BY <1>3, <2>1
  <2>3. Extends
    BY <1>2, <1>3, <2>2 DEF Extends
  <2> QED BY <1>2, <1>5, <2>3
<1> QED BY <1>4, <1>5

LEMMA ResumeExtends ==
  ASSUME LogTyped, Resume
  PROVE  Extends
<1>1. PICK n \in Nat : Repairs(n, log', surface')
  BY ResumeTo
<1>2. /\ log \in Seq(Entries) /\ log' \in Seq(Entries) /\ surface \in Seq(Nat)
      /\ surface' \in Seq(Nat) /\ \A a \in DOMAIN surface : surface[a] < Len(log)
      /\ Len(log) + n <= Len(log') /\ Len(surface') = Len(surface) + n
      /\ \A i \in 1..Len(log) : log'[i] = log[i]
      /\ \A i \in 1..Len(surface) : surface'[i] = surface[i]
      /\ \A i \in 1..n : surface'[Len(surface) + i] = Len(log) + i - 1
  BY <1>1 DEF LogTyped, Repairs
<1>3. /\ Len(log) \in Nat /\ Len(log') \in Nat /\ DOMAIN log = 1..Len(log)
      /\ DOMAIN log' = 1..Len(log') /\ Len(surface) \in Nat /\ Len(surface') \in Nat
      /\ DOMAIN surface = 1..Len(surface) /\ DOMAIN surface' = 1..Len(surface')
      /\ Len(log) <= Len(log') /\ Len(surface) <= Len(surface')
  BY <1>2
<1>4. \A a \in 1..Len(surface) : surface[a] \in 0..(Len(log) - 1)
  BY <1>2, <1>3
<1>5. ASSUME NEW a \in 1..Len(surface'), a > Len(surface)
      PROVE  surface'[a] \in Len(log)..(Len(log') - 1)
  <2>1. a - Len(surface) \in 1..n /\ Len(surface) + (a - Len(surface)) = a
    BY <1>2, <1>3, <1>5
  <2>2. surface'[Len(surface) + (a - Len(surface))] = Len(log) + (a - Len(surface)) - 1
    BY <1>2, <2>1
  <2> QED BY <1>2, <1>3, <2>1, <2>2
<1> QED BY <1>2, <1>3, <1>4, <1>5 DEF Extends

LEMMA ExtendsKeeps ==
  ASSUME Extends, NEW i \in DOMAIN log
  PROVE  /\ i \in DOMAIN log' /\ log'[i] = log[i]
         /\ (i - 1) \in Shown <=> (i - 1) \in Shown'
         /\ Current(i)' => Current(i)
         /\ \A c : Answered(c) => Answered(c)'
<1>1. i \in 1..Len(log) /\ i \in DOMAIN log' /\ log'[i] = log[i]
  BY DEF Extends
<1>2. ASSUME (i - 1) \in Shown PROVE (i - 1) \in Shown'
  BY <1>2 DEF Extends, Shown, ToSet
<1>3. ASSUME (i - 1) \in Shown' PROVE (i - 1) \in Shown
  <2>1. PICK a \in DOMAIN surface' : surface'[a] = i - 1
    BY <1>3 DEF Shown, ToSet
  <2>2. ~(a > Len(surface))
    BY <1>1, <2>1 DEF Extends
  <2>3. a \in DOMAIN surface /\ surface[a] = i - 1
    BY <2>1, <2>2 DEF Extends
  <2> QED BY <2>3 DEF Shown, ToSet
<1>4. ASSUME Current(i)' PROVE Current(i)
  <2>1. ASSUME NEW j \in (i + 1)..Len(log) PROVE log[j].type # "turn/end"
    <3>1. j \in (i + 1)..Len(log') /\ log'[j] = log[j]
      BY <1>1 DEF Extends
    <3> QED BY <1>4, <3>1 DEF Current
  <2> QED BY <2>1 DEF Current
<1>5. \A c : Answered(c) => Answered(c)'
  BY DEF Answered, Extends
<1> QED BY <1>1, <1>2, <1>3, <1>4, <1>5

LEMMA ExtendsPairs ==
  ASSUME Extends, NEW i \in DOMAIN log, NEW j \in DOMAIN log
  PROVE  /\ Pair(i, j)' <=> Pair(i, j)
         /\ Tight(i, j) => Tight(i, j)'
<1>1. /\ i \in 1..Len(log) /\ j \in 1..Len(log) /\ log'[i] = log[i] /\ log'[j] = log[j]
      /\ Len(log) \in Nat /\ \A k \in 1..(j - 1) : log'[k] = log[k]
  BY DEF Extends
<1>2. Pair(i, j)' <=> Pair(i, j)
  BY <1>1 DEF Pair
<1>3. CASE (i - 1) \notin Shown /\ (j - 1) \notin Shown
  BY <1>2, <1>3, ExtendsKeeps DEF Tight
<1>4. ASSUME NEW a \in DOMAIN surface, NEW b \in DOMAIN surface,
             a < b, surface[a] = i - 1, surface[b] = j - 1,
             \A c \in (a + 1)..b : EventAt(surface[c]).type # "assistant/message"
      PROVE  Tight(i, j)'
  <2>1. a \in DOMAIN surface' /\ b \in DOMAIN surface' /\ surface'[a] = i - 1 /\ surface'[b] = j - 1
    BY <1>4 DEF Extends
  <2>2. ASSUME NEW c \in (a + 1)..b PROVE EventAt(surface[c])' = EventAt(surface[c])
    <3>1. c \in 1..Len(surface) /\ surface[c] + 1 \in 1..Len(log)
      BY <1>4, <1>1 DEF Extends
    <3> QED BY <3>1 DEF Extends, EventAt
  <2> QED BY <1>4, <2>1, <2>2 DEF Tight
<1> QED BY <1>2, <1>3, <1>4 DEF Tight

\* What comes behind the last assistant message shown is tight with it.
LEMMA ExtendsAsked ==
  ASSUME Extends, NEW i \in DOMAIN log, LastAsked(i),
         \A k \in (Len(log) + 1)..Len(log') : log'[k].type # "assistant/message"
  PROVE  /\ LastAsked(i)'
         /\ \A j \in DOMAIN log' : j > Len(log) /\ (j - 1) \in Shown' => Tight(i, j)'
<1>1. PICK a \in DOMAIN surface :
        /\ surface[a] = i - 1
        /\ \A b \in DOMAIN surface : b > a => EventAt(surface[b]).type # "assistant/message"
  BY DEF LastAsked
<1>2. a \in DOMAIN surface' /\ surface'[a] = i - 1 /\ a \in 1..Len(surface) /\ i \in 1..Len(log)
  BY <1>1 DEF Extends
<1>3. ASSUME NEW b \in DOMAIN surface', b > a PROVE EventAt(surface[b])'.type # "assistant/message"
  <2>1. CASE b <= Len(surface)
    <3>1. b \in 1..Len(surface) /\ surface'[b] = surface[b] /\ surface[b] + 1 \in 1..Len(log)
      BY <2>1 DEF Extends
    <3>2. EventAt(surface[b])' = EventAt(surface[b])
      BY <3>1 DEF Extends, EventAt
    <3> QED BY <1>1, <1>3, <3>1, <3>2 DEF Extends
  <2>2. CASE b > Len(surface)
    <3>1. surface'[b] + 1 \in (Len(log) + 1)..Len(log')
      BY <2>2 DEF Extends
    <3> QED BY <3>1 DEF EventAt
  <2> QED BY <2>1, <2>2 DEF Extends
<1>4. LastAsked(i)'
  BY <1>2, <1>3 DEF LastAsked
<1>5. ASSUME NEW j \in DOMAIN log', j > Len(log), (j - 1) \in Shown'
      PROVE  Tight(i, j)'
  <2>1. PICK b \in DOMAIN surface' : surface'[b] = j - 1
    BY <1>5 DEF Shown, ToSet
  <2>2. b > Len(surface)
    BY <1>5, <2>1 DEF Extends
  <2>3. a < b /\ \A c \in (a + 1)..b : c \in DOMAIN surface' /\ c > a
    BY <1>2, <2>1, <2>2 DEF Extends
  <2> QED BY <1>2, <1>3, <2>1, <2>3 DEF Tight
<1> QED BY <1>4, <1>5

-----------------------------------------------------------------------------
(* What the steps do to the calls.                                         *)

\* Only the stream makes calls, only the turn's tools answer them.
LEMMA StepAdds ==
  ASSUME LogTyped, ControlTyped, Next, ~Resume, ~CommitReplace, ~StreamAnswers, ~ToolReturns
  PROVE  \/ Quiet
         \/ \E e \in Entries : Plain(e) /\ Adds(e) /\ Neutral(e)
<1> SUFFICES ASSUME ~Quiet PROVE \E e \in Entries : Plain(e) /\ Adds(e) /\ Neutral(e)
  OBVIOUS
<1>1. PICK e \in Entries : Plain(e) /\ AppendEvent(e) /\ Neutral(e)
  <2>1. CASE TurnStep
    BY <2>1, TurnAppends
  <2>2. CASE ~TurnStep
    BY <2>2, EngineAppends DEF Next, EngineStep
  <2> QED BY <2>1, <2>2
<1>2. Adds(e)
  BY <1>1, Appended DEF Plain
<1> QED BY <1>1, <1>2

LEMMA AnswersTo ==
  ASSUME LogTyped, ControlTyped, StreamAnswers
  PROVE  \E ids \in Seq(Nat) :
           /\ turn.pc = "stream" /\ engine' = engine
           /\ Adds(AssistantMessage(ids)) /\ AssistantMessage(ids) \in Entries
           /\ AssistantMessage(ids).type = "assistant/message"
           /\ AssistantMessage(ids).kind = "message"
           /\ AssistantMessage(ids).calls = ids /\ AssistantMessage(ids).call = 0
           /\ spent'.calls \in Nat /\ spent.calls <= spent'.calls
           /\ \A c \in ToSet(ids) : c > spent.calls /\ c <= spent'.calls
           /\ \/ turn'.pc \in {"end", "ended"}
              \/ turn'.pc = "tools" /\ turn'.todo = ids
<1>0. turn \in Turns /\ spent \in [turns : Nat, calls : Nat, commands : Nat, crashes : Nat]
  BY DEF ControlTyped
<1>1. PICK n \in 0..2 :
        LET ids == [i \in 1..n |-> spent.calls + i] IN
        /\ spent' = [spent EXCEPT !.calls = @ + n]
        /\ AppendEvent(AssistantMessage(ids))
        /\ \/ \E pc \in {"end", "ended"} : turn' = [turn EXCEPT !.pc = pc, !.overflows = 0]
           \/ turn' = [turn EXCEPT !.pc = "tools", !.todo = ids, !.overflows = 0]
  BY DEF StreamAnswers
<1>2. PICK ids : ids = [i \in 1..n |-> spent.calls + i]
  OBVIOUS
<1>3. ids \in Seq(Nat) /\ ids \in [1..n -> Nat]
  BY <1>0, <1>2
<1>4. /\ spent' = [spent EXCEPT !.calls = @ + n] /\ AppendEvent(AssistantMessage(ids))
      /\ \/ \E pc \in {"end", "ended"} : turn' = [turn EXCEPT !.pc = pc, !.overflows = 0]
         \/ turn' = [turn EXCEPT !.pc = "tools", !.todo = ids, !.overflows = 0]
  BY <1>1, <1>2
<1>5. spent'.calls = spent.calls + n /\ spent.calls \in Nat /\ n \in Nat
  BY <1>0, <1>4
<1>6. \A c \in ToSet(ids) : c > spent.calls /\ c <= spent.calls + n
  BY <1>2, <1>5 DEF ToSet
<1>7. turn'.pc \in {"end", "ended"} \/ (turn'.pc = "tools" /\ turn'.todo = ids)
  <2>1. CASE \E pc \in {"end", "ended"} : turn' = [turn EXCEPT !.pc = pc, !.overflows = 0]
    <3>1. PICK pc \in {"end", "ended"} : turn' = [turn EXCEPT !.pc = pc, !.overflows = 0]
      BY <2>1
    <3>2. turn' = Reset(turn, pc) /\ pc \in TurnPlaces
      BY <3>1 DEF Reset, TurnPlaces
    <3>3. turn'.pc = pc
      BY <1>0, <3>2, TurnResets
    <3> QED BY <3>3
  <2>2. CASE turn' = [turn EXCEPT !.pc = "tools", !.todo = ids, !.overflows = 0]
    <3>1. PICK t : t = [turn EXCEPT !.todo = ids]
      OBVIOUS
    <3>2. t \in Turns /\ t.todo = ids
      BY <1>0, <1>3, <3>1 DEF Turns
    <3>3. turn' = Reset(t, "tools")
      BY <1>0, <2>2, <3>1 DEF Turns, Reset
    <3>4. turn'.pc = "tools" /\ turn'.todo = t.todo
      BY <3>2, <3>3, TurnResets DEF TurnPlaces
    <3> QED BY <3>2, <3>4
  <2> QED BY <1>4, <2>1, <2>2
<1>8. PICK e : e = AssistantMessage(ids)
  OBVIOUS
<1>9. /\ e \in Entries /\ e.kind = "message" /\ e.op.op = "append"
      /\ e.type = "assistant/message" /\ e.calls = ids /\ e.call = 0
  BY <1>3, <1>8, EntriesTyped
<1>10. Adds(e)
  BY <1>4, <1>8, <1>9, Appended
<1>11. turn.pc = "stream" /\ engine' = engine
  BY DEF StreamAnswers
<1> QED BY <1>3, <1>5, <1>6, <1>7, <1>8, <1>9, <1>10, <1>11

LEMMA ReturnsTo ==
  ASSUME LogTyped, ControlTyped, ToolReturns
  PROVE  \E c \in Nat :
           /\ turn.pc = "tools" /\ turn'.pc = "tools" /\ Running(c)
           /\ \A d \in ToSet(turn.todo) : d = c \/ d \in ToSet(turn'.todo)
           /\ ToSet(turn'.todo) \subseteq ToSet(turn.todo)
           /\ engine' = engine /\ spent' = spent
           /\ Adds(ToolResult(c)) /\ ToolResult(c) \in Entries
           /\ ToolResult(c).type = "tool/result" /\ ToolResult(c).kind = "message"
           /\ ToolResult(c).calls = <<>> /\ ToolResult(c).call = c
<1>0. turn \in Turns /\ turn.todo \in Seq(Nat) /\ turn.todo # <<>>
  BY DEF ControlTyped, Turns, ToolReturns
<1>1. PICK c : c = Head(turn.todo)
  OBVIOUS
<1>2. /\ c \in Nat /\ AppendEvent(ToolResult(c)) /\ turn.pc = "tools"
      /\ turn' = [turn EXCEPT !.todo = Tail(turn.todo)] /\ engine' = engine /\ spent' = spent
  BY <1>0, <1>1 DEF ToolReturns
<1>3. turn'.pc = "tools" /\ turn'.todo = Tail(turn.todo)
  BY <1>0, <1>2 DEF Turns
<1>4. PICK todo \in Seq(Nat) : todo = turn.todo
  BY <1>0
<1>5. /\ todo # <<>> /\ c = todo[1] /\ Len(todo) \in Nat \ {0} /\ Len(Tail(todo)) = Len(todo) - 1
      /\ DOMAIN todo = 1..Len(todo) /\ DOMAIN Tail(todo) = 1..(Len(todo) - 1)
      /\ \A i \in 1..(Len(todo) - 1) : Tail(todo)[i] = todo[i + 1]
  BY <1>0, <1>1, <1>4
<1>6. c \in ToSet(todo)
  BY <1>5 DEF ToSet
<1>7. ASSUME NEW d \in ToSet(todo), d # c PROVE d \in ToSet(Tail(todo))
  <2>1. PICK i \in 1..Len(todo) : todo[i] = d
    BY <1>5 DEF ToSet
  <2>2. i - 1 \in 1..(Len(todo) - 1) /\ (i - 1) + 1 = i
    BY <1>5, <1>7, <2>1
  <2>3. Tail(todo)[i - 1] = todo[(i - 1) + 1]
    BY <1>5, <2>2
  <2> QED BY <1>5, <2>1, <2>2, <2>3 DEF ToSet
<1>8. ASSUME NEW d \in ToSet(Tail(todo)) PROVE d \in ToSet(todo)
  <2>1. PICK i \in 1..(Len(todo) - 1) : Tail(todo)[i] = d
    BY <1>5 DEF ToSet
  <2>2. i + 1 \in DOMAIN todo
    BY <1>5
  <2> QED BY <1>5, <2>1, <2>2 DEF ToSet
<1>9. PICK e : e = ToolResult(c)
  OBVIOUS
<1>10. /\ e \in Entries /\ e.kind = "message" /\ e.op.op = "append"
       /\ e.type = "tool/result" /\ e.calls = <<>> /\ e.call = c
  BY <1>2, <1>9, EntriesTyped
<1>11. Adds(e)
  BY <1>2, <1>9, <1>10, Appended
<1> QED BY <1>2, <1>3, <1>4, <1>6, <1>7, <1>8, <1>9, <1>10, <1>11 DEF Running

\* Every other step leaves the calls that run where they are.
LEMMA OthersWait ==
  ASSUME LogTyped, ControlTyped, Holders, Next, ~Resume, ~StreamAnswers, ~ToolReturns
  PROVE  /\ spent'.calls = spent.calls
         /\ \A c : Running(c)' <=> Running(c)
         /\ GivenUp => GivenUp' \/ TurnEnd
<1>0. /\ turn \in Turns /\ spent \in [turns : Nat, calls : Nat, commands : Nat, crashes : Nat]
      /\ engine \in Engines
  BY DEF ControlTyped
<1>1. spent'.calls = spent.calls
  BY <1>0 DEF Next, TurnStep, EngineStep, Prompt, InjectSystem, TurnStart, ClaimMessage, Loop,
       StreamFails, ToolsDone, TurnEnd, Compact, Notice, TurnLocks, CommandLocks, Enter, Begin,
       CompactionStart, Snapshot, Summarize, Fail, CommitSummary, CommitReplace, CommitEnd
<1> DEFINE Goal == /\ \A c : Running(c)' <=> Running(c)
                   /\ GivenUp => GivenUp' \/ TurnEnd
<1> SUFFICES Goal
  BY <1>1
<1>2. ASSUME turn.pc # "tools", turn'.pc # "tools", GivenUp => GivenUp' \/ TurnEnd PROVE Goal
  BY <1>2 DEF Running
<1>3. CASE turn' = turn
  BY <1>3 DEF Running, GivenUp
<1>4. CASE Prompt
  <2>1. turn'.pc \in {"start", "system"} /\ turn.pc = "off"
    <3>1. PICK pc \in {"start", "system"} : turn' = [turn EXCEPT !.pc = pc, !.step = 0]
      BY <1>4 DEF Prompt
    <3> QED BY <1>0, <1>4, <3>1 DEF Prompt, Turns
  <2> QED BY <1>2, <2>1 DEF GivenUp
<1>5. CASE InjectSystem \/ TurnStart \/ ClaimMessage \/ Loop
  <2>1. turn.pc \in {"system", "start", "claim", "loop"} /\ turn'.pc # "tools"
    BY <1>0, <1>5, TurnMoves DEF InjectSystem, TurnStart, ClaimMessage, Loop, TurnPlaces, Turns
  <2> QED BY <1>2, <2>1 DEF GivenUp
<1>6. CASE StreamFails
  <2>1. turn.pc = "stream" /\ turn'.pc # "tools"
    <3>1. CASE Turn("end") \/ Turn("ended")
      BY <1>0, <1>6, <3>1, TurnMoves DEF StreamFails, TurnPlaces
    <3>2. CASE turn' = [turn EXCEPT !.pc = "overflow", !.overflows = @ + 1]
      BY <1>0, <1>6, <3>2 DEF StreamFails, Turns
    <3> QED BY <1>6, <3>1, <3>2 DEF StreamFails
  <2> QED BY <1>2, <2>1 DEF GivenUp
<1>7. CASE ToolsDone
  <2>1. turn.pc = "tools" /\ turn.todo = <<>> /\ turn'.pc # "tools"
    BY <1>0, <1>7, TurnMoves DEF ToolsDone, TurnPlaces
  <2>2. ToSet(turn.todo) = {}
    BY <2>1 DEF ToSet
  <2> QED BY <2>1, <2>2 DEF Running, GivenUp
<1>8. CASE TurnEnd
  <2>1. turn.pc \in {"end", "ended"} /\ turn'.pc # "tools"
    <3>1. CASE Turn("end")
      BY <1>0, <1>8, <3>1, TurnMoves DEF TurnEnd, TurnPlaces
    <3>2. CASE turn' = [turn EXCEPT !.pc = "off", !.overflows = 0]
      BY <1>0, <1>8, <3>2 DEF TurnEnd, Turns
    <3> QED BY <1>8, <3>1, <3>2 DEF TurnEnd
  <2> QED BY <1>2, <1>8, <2>1
<1>9. CASE TurnLocks
  <2>1. turn.pc \in {"pressure", "overflow"} /\ turn'.pc = "compacting"
    BY <1>0, <1>9, TurnMoves DEF TurnLocks, TurnPlaces
  <2> QED BY <1>2, <2>1 DEF GivenUp
<1>10. CASE (\E done \in BOOLEAN : Leaves(done)) /\ engine.stage # "off"
  <2>1. \/ turn' = turn
        \/ engine.by = "turn" /\ turn'.pc \in {"stream", "loop", "ended"}
    BY <1>10, LeavesTo
  <2>2. engine.by = "turn" => turn.pc = "compacting"
    BY DEF Holders
  <2> QED BY <1>2, <1>3, <2>1, <2>2 DEF GivenUp
<1>11. CASE EngineStep /\ ~TurnLocks
  <2>1. \/ turn' = turn
        \/ (Leaves(TRUE) \/ Leaves(FALSE)) /\ engine.stage # "off"
    BY <1>11 DEF EngineStep, CommandLocks, Enter, Begin, CompactionStart, Snapshot, Summarize,
         Fail, CommitSummary, CommitReplace, CommitEnd
  <2> QED BY <1>3, <1>10, <2>1
<1>12. CASE Compact \/ Notice
  BY <1>3, <1>12 DEF Compact, Notice
<1> QED BY <1>4, <1>5, <1>6, <1>7, <1>8, <1>9, <1>11, <1>12 DEF Next, TurnStep

CInv == CallsNumbered /\ RunningAreLast /\ OpenAnswered /\ CallsInTurn /\ PairsTight

NoneCurrent == \A i \in DOMAIN log : ~Current(i)'

\* What is new makes no call and answers none.
Bears == Extends /\ \A k \in (Len(log) + 1)..Len(log') : Neutral(log'[k])

LEMMA BearsKeeps ==
  ASSUME ControlTyped, CInv, Bears, spent'.calls = spent.calls,
         \A c : Running(c)' <=> Running(c),
         GivenUp => GivenUp' \/ NoneCurrent,
         OpenTurn => OpenTurn' \/ NoneCurrent
  PROVE  CInv'
<1>0. Extends /\ spent.calls \in Nat
  BY DEF Bears, ControlTyped
<1>1. ASSUME NEW i \in DOMAIN log'
      PROVE  \/ i \in DOMAIN log /\ log'[i] = log[i]
             \/ i \notin DOMAIN log /\ Neutral(log'[i])
  BY <1>0 DEF Bears, Extends
<1>2. ASSUME NEW i \in DOMAIN log', NEW c \in ToSet(log'[i].calls)
      PROVE  i \in DOMAIN log /\ log'[i] = log[i] /\ c \in ToSet(log[i].calls)
  <2>1. CASE i \in DOMAIN log
    BY <1>1, <1>2, <2>1
  <2>2. CASE Neutral(log'[i])
    <3>1. ToSet(log'[i].calls) = {}
      BY <2>2 DEF Neutral, Bare, ToSet
    <3> QED BY <1>2, <3>1
  <2> QED BY <1>1, <2>1, <2>2
<1>3. CallsNumbered'
  <2>1. ASSUME NEW i \in DOMAIN log', NEW c \in ToSet(log'[i].calls)
        PROVE  c > 0 /\ c <= spent'.calls /\ log'[i].type = "assistant/message"
    BY <1>2, <2>1 DEF CInv, CallsNumbered
  <2>2. ASSUME NEW i \in DOMAIN log' PROVE log'[i].call <= spent'.calls
    BY <1>0, <1>1, <2>2 DEF CInv, CallsNumbered, Neutral, Bare
  <2>3. ASSUME NEW c, Running(c)' PROVE c <= spent'.calls
    BY <2>3 DEF CInv, CallsNumbered
  <2>4. ASSUME NEW i \in DOMAIN log', NEW k \in DOMAIN log', NEW c \in ToSet(log'[i].calls),
               c \in ToSet(log'[k].calls)
        PROVE  i = k
    BY <1>2, <2>4 DEF CInv, CallsNumbered
  <2> QED BY <2>1, <2>2, <2>3, <2>4 DEF CallsNumbered
<1>4. ASSUME NEW i \in DOMAIN log, LastAsked(i) PROVE LastAsked(i)'
  <2>1. \A k \in (Len(log) + 1)..Len(log') : log'[k].type # "assistant/message"
    BY DEF Bears, Neutral
  <2> QED BY <1>0, <1>4, <2>1, ExtendsAsked
<1>5. RunningAreLast'
  <2>1. ASSUME NEW i \in DOMAIN log', NEW c \in ToSet(log'[i].calls), Running(c)'
        PROVE  LastAsked(i)'
    BY <1>2, <1>4, <2>1 DEF CInv, RunningAreLast
  <2> QED BY <2>1 DEF RunningAreLast
<1>6. OpenAnswered'
  <2>1. ASSUME NEW i \in DOMAIN log', Current(i)', NEW c \in ToSet(log'[i].calls)
        PROVE  Answered(c)' \/ Running(c)' \/ (GivenUp' /\ LastAsked(i)')
    <3>1. i \in DOMAIN log /\ c \in ToSet(log[i].calls)
      BY <1>2, <2>1
    <3>2. Current(i) /\ (Answered(c) => Answered(c)') /\ ~NoneCurrent
      BY <1>0, <2>1, <3>1, ExtendsKeeps DEF NoneCurrent
    <3>3. Answered(c) \/ Running(c) \/ (GivenUp /\ LastAsked(i))
      BY <3>1, <3>2 DEF CInv, OpenAnswered
    <3> QED BY <1>4, <3>1, <3>2, <3>3
  <2> QED BY <2>1 DEF OpenAnswered
<1>7. CallsInTurn'
  <2>1. ASSUME NEW i \in DOMAIN log', Current(i)', log'[i].calls # <<>>
        PROVE  OpenTurn'
    <3>1. i \in DOMAIN log /\ log'[i] = log[i]
      BY <1>1, <2>1 DEF Neutral, Bare
    <3>2. Current(i) /\ ~NoneCurrent
      BY <1>0, <2>1, <3>1, ExtendsKeeps DEF NoneCurrent
    <3> QED BY <2>1, <3>1, <3>2 DEF CInv, CallsInTurn
  <2> QED BY <2>1 DEF CallsInTurn
<1>8. PairsTight'
  <2>1. ASSUME NEW i \in DOMAIN log', NEW j \in DOMAIN log', Pair(i, j)'
        PROVE  Tight(i, j)'
    <3>1. log'[j].type = "tool/result" /\ log'[j].call \in ToSet(log'[i].calls)
      BY <2>1 DEF Pair
    <3>2. i \in DOMAIN log /\ j \in DOMAIN log
      BY <1>1, <1>2, <3>1 DEF Neutral
    <3> QED BY <1>0, <2>1, <3>2, ExtendsPairs DEF CInv, PairsTight
  <2> QED BY <2>1 DEF PairsTight
<1> QED BY <1>3, <1>5, <1>6, <1>7, <1>8 DEF CInv

\* A turn that ends leaves none of its entries current.
LEMMA EndedAfter ==
  ASSUME Extends, Len(log') > Len(log), log'[Len(log')].type = "turn/end"
  PROVE  NoneCurrent
<1>1. ASSUME NEW i \in DOMAIN log, Current(i)' PROVE FALSE
  <2>1. Len(log') \in (i + 1)..Len(log')
    BY <1>1 DEF Extends
  <2> QED BY <1>1, <2>1 DEF Current
<1> QED BY <1>1 DEF NoneCurrent

LEMMA OthersKeepCalls ==
  ASSUME LogTyped, ControlTyped, Holders, CInv, Next,
         ~Resume, ~CommitReplace, ~StreamAnswers, ~ToolReturns
  PROVE  CInv'
<1>1. /\ spent'.calls = spent.calls /\ \A c : Running(c)' <=> Running(c)
      /\ GivenUp => GivenUp' \/ TurnEnd
  BY OthersWait
<1>2. CASE TurnEnd
  <2>1. PICK e : e = Record("turn/end")
    OBVIOUS
  <2>2. /\ e \in Entries /\ e.kind = "log" /\ e.op.op = "none" /\ e.type = "turn/end" /\ Bare(e)
    BY <2>1, EntriesTyped DEF Types
  <2>3. Adds(e)
    BY <1>2, <2>1, <2>2, Appended DEF TurnEnd
  <2>4. Extends /\ Len(log') = Len(log) + 1 /\ log'[Len(log) + 1] = e
    BY <2>2, <2>3, AddsExtends
  <2>5. Neutral(e) /\ Len(log) \in Nat
    BY <2>2, <2>4 DEF Neutral, Extends
  <2>6. Bears /\ NoneCurrent
    BY <2>2, <2>4, <2>5, EndedAfter DEF Bears
  <2> QED BY <1>1, <2>6, BearsKeeps
<1>3. CASE Quiet /\ ~TurnEnd
  <2>1. Extends
    <3>1. /\ log \in Seq(Entries) /\ surface \in Seq(Nat)
          /\ \A a \in DOMAIN surface : surface[a] < Len(log)
      BY DEF LogTyped
    <3>2. /\ Len(log) \in Nat /\ DOMAIN log = 1..Len(log)
          /\ Len(surface) \in Nat /\ DOMAIN surface = 1..Len(surface)
          /\ \A a \in 1..Len(surface) : surface[a] \in 0..(Len(log) - 1) /\ ~(a > Len(surface))
      BY <3>1
    <3> QED BY <1>3, <3>2 DEF Extends, Quiet
  <2>2. Bears
    <3>1. Len(log') = Len(log) /\ Len(log) \in Nat
      BY <1>3, <2>1 DEF Quiet, Extends
    <3>2. (Len(log) + 1)..Len(log') = {}
      BY <3>1
    <3> QED BY <2>1, <3>2 DEF Bears
  <2>3. OpenTurn' <=> OpenTurn
    BY <1>3 DEF Quiet, OpenTurn, Unmatched
  <2> QED BY <1>1, <1>3, <2>2, <2>3, BearsKeeps
<1>4. CASE ~Quiet /\ ~TurnEnd
  <2>1. PICK e \in Entries : Plain(e) /\ Adds(e) /\ Neutral(e)
    BY <1>4, StepAdds
  <2>2. Extends /\ Len(log') = Len(log) + 1 /\ log'[Len(log) + 1] = e
    BY <2>1, AddsExtends
  <2>3. Len(log) \in Nat
    BY <2>2 DEF Extends
  <2>4. Bears
    BY <2>1, <2>2, <2>3 DEF Bears
  <2>5. OpenTurn => OpenTurn' \/ NoneCurrent
    <3>1. CASE e.type = "turn/end"
      BY <2>2, <2>3, <3>1, EndedAfter
    <3>2. CASE e.type # "turn/end"
      BY <2>1, <3>2, LogAfter DEF Adds
    <3> QED BY <3>1, <3>2
  <2> QED BY <1>1, <1>4, <2>4, <2>5, BearsKeeps
<1> QED BY <1>2, <1>3, <1>4

LEMMA AnswersKeep ==
  ASSUME LogTyped, ControlTyped, TurnIsOpen, CInv, StreamAnswers
  PROVE  CInv'
<1>1. PICK ids \in Seq(Nat) :
           /\ turn.pc = "stream"
           /\ Adds(AssistantMessage(ids)) /\ AssistantMessage(ids) \in Entries
           /\ AssistantMessage(ids).type = "assistant/message"
           /\ AssistantMessage(ids).kind = "message"
           /\ AssistantMessage(ids).calls = ids /\ AssistantMessage(ids).call = 0
           /\ spent'.calls \in Nat /\ spent.calls <= spent'.calls
           /\ \A c \in ToSet(ids) : c > spent.calls /\ c <= spent'.calls
           /\ turn'.pc \in {"end", "ended"} \/ (turn'.pc = "tools" /\ turn'.todo = ids)
  BY AnswersTo
<1>2. PICK e \in Entries : e = AssistantMessage(ids)
  BY <1>1
<1>3. PICK n : n = Len(log) + 1
  OBVIOUS
<1>4. /\ Adds(e) /\ e.type = "assistant/message" /\ e.kind = "message" /\ e.calls = ids /\ e.call = 0
      /\ Extends /\ Len(log') = n /\ log'[n] = e
      /\ Len(surface') = Len(surface) + 1 /\ surface'[Len(surface) + 1] = Len(log)
  BY <1>1, <1>2, <1>3, AddsExtends
<1>5. n \in DOMAIN log' /\ n \in Nat /\ Len(log) \in Nat /\ spent.calls \in Nat
  BY <1>3, <1>4 DEF Extends, ControlTyped
<1>6. ASSUME NEW i \in DOMAIN log'
      PROVE  \/ i \in DOMAIN log /\ log'[i] = log[i]
             \/ i = n /\ log'[i].calls = ids /\ log'[i].type = "assistant/message" /\ log'[i].call = 0
  BY <1>3, <1>4, <1>5 DEF Extends
<1>7. /\ \A c : ~Running(c) /\ (Running(c)' => c \in ToSet(ids))
      /\ \A c \in ToSet(ids) : Running(c)' \/ GivenUp'
      /\ ~GivenUp
  BY <1>1 DEF Running, GivenUp
<1>8. \A i \in DOMAIN log : \A c \in ToSet(log[i].calls) : c \notin ToSet(ids) /\ c > 0
  <2>1. ASSUME NEW i \in DOMAIN log, NEW c \in ToSet(log[i].calls)
        PROVE  c \notin ToSet(ids) /\ c > 0
    <3>1. c \in Nat
      <4>1. log[i] \in Entries
        BY <2>1 DEF LogTyped
      <4>2. log[i].calls \in Seq(Nat)
        BY <4>1 DEF Entries
      <4> QED BY <2>1, <4>2 DEF ToSet
    <3>2. c > 0 /\ c <= spent.calls
      BY <2>1 DEF CInv, CallsNumbered
    <3> QED BY <1>1, <1>5, <3>1, <3>2
  <2> QED BY <2>1
<1>9. \A c \in ToSet(ids) : c \in Nat /\ c > 0
  <2>1. \A c \in ToSet(ids) : c \in Nat
    BY DEF ToSet
  <2> QED BY <1>1, <1>5, <2>1
<1>10. CallsNumbered'
  <2>1. ASSUME NEW i \in DOMAIN log', NEW c \in ToSet(log'[i].calls)
        PROVE  c > 0 /\ c <= spent'.calls /\ log'[i].type = "assistant/message"
    <3>1. CASE i = n /\ log'[i].calls = ids
      BY <1>1, <1>6, <1>9, <1>4, <2>1, <3>1
    <3>2. CASE i \in DOMAIN log /\ log'[i] = log[i]
      <4>1. log[i] \in Entries
        BY <3>2 DEF LogTyped
      <4>2. log[i].calls \in Seq(Nat)
        BY <4>1 DEF Entries
      <4>3. c \in Nat
        BY <2>1, <3>2, <4>2 DEF ToSet
      <4>4. c > 0 /\ c <= spent.calls /\ log[i].type = "assistant/message"
        BY <2>1, <3>2 DEF CInv, CallsNumbered
      <4> QED BY <1>1, <1>5, <3>2, <4>3, <4>4
    <3> QED BY <1>6, <3>1, <3>2
  <2>2. ASSUME NEW i \in DOMAIN log' PROVE log'[i].call <= spent'.calls
    <3>1. CASE i = n
      BY <1>1, <1>4, <3>1
    <3>2. CASE i \in DOMAIN log /\ log'[i] = log[i]
      <4>1. log[i] \in Entries
        BY <3>2 DEF LogTyped
      <4>2. log[i].call \in Nat /\ log[i].call <= spent.calls
        BY <3>2, <4>1 DEF CInv, CallsNumbered, Entries
      <4> QED BY <1>1, <1>5, <3>2, <4>2
    <3> QED BY <1>6, <3>1, <3>2
  <2>3. ASSUME NEW c, Running(c)' PROVE c <= spent'.calls
    BY <1>1, <1>7, <2>3
  <2>4. ASSUME NEW i \in DOMAIN log', NEW k \in DOMAIN log', NEW c \in ToSet(log'[i].calls),
               c \in ToSet(log'[k].calls)
        PROVE  i = k
    BY <1>6, <1>8, <2>4 DEF CInv, CallsNumbered
  <2> QED BY <2>1, <2>2, <2>3, <2>4 DEF CallsNumbered
<1>11. LastAsked(n)'
  <2>1. /\ Len(surface) + 1 \in DOMAIN surface' /\ surface'[Len(surface) + 1] = n - 1
        /\ \A b \in DOMAIN surface' : ~(b > Len(surface) + 1)
    BY <1>3, <1>4, <1>5 DEF Extends
  <2> QED BY <2>1 DEF LastAsked
<1>12. RunningAreLast'
  <2>1. ASSUME NEW i \in DOMAIN log', NEW c \in ToSet(log'[i].calls), Running(c)'
        PROVE  LastAsked(i)'
    BY <1>6, <1>7, <1>8, <1>11, <2>1
  <2> QED BY <2>1 DEF RunningAreLast
<1>13. OpenAnswered'
  <2>1. ASSUME NEW i \in DOMAIN log', Current(i)', NEW c \in ToSet(log'[i].calls)
        PROVE  Answered(c)' \/ Running(c)' \/ (GivenUp' /\ LastAsked(i)')
    <3>1. CASE i = n /\ log'[i].calls = ids
      BY <1>7, <1>11, <2>1, <3>1
    <3>2. CASE i \in DOMAIN log /\ log'[i] = log[i]
      <4>1. Current(i) /\ (Answered(c) => Answered(c)')
        BY <1>4, <2>1, <3>2, ExtendsKeeps
      <4> QED BY <1>7, <2>1, <3>2, <4>1 DEF CInv, OpenAnswered
    <3> QED BY <1>6, <3>1, <3>2
  <2> QED BY <2>1 DEF OpenAnswered
<1>14. CallsInTurn'
  <2>1. OpenTurn
    BY <1>1 DEF TurnIsOpen, InTurn
  <2>2. OpenTurn'
    BY <1>4, <2>1, LogAfter DEF Adds
  <2> QED BY <2>2 DEF CallsInTurn
<1>15. PairsTight'
  <2>1. ASSUME NEW i \in DOMAIN log', NEW j \in DOMAIN log', Pair(i, j)'
        PROVE  Tight(i, j)'
    <3>1. log'[j].type = "tool/result" /\ log'[j].call \in ToSet(log'[i].calls)
      BY <2>1 DEF Pair
    <3>2. j \in DOMAIN log /\ log'[j] = log[j]
      BY <1>6, <3>1
    <3>3. log[j].call \notin ToSet(ids)
      <4>1. log[j] \in Entries
        BY <3>2 DEF LogTyped
      <4>2. log[j].call \in Nat /\ log[j].call <= spent.calls
        BY <3>2, <4>1 DEF CInv, CallsNumbered, Entries
      <4> QED BY <1>1, <1>5, <4>2
    <3>4. i \in DOMAIN log
      BY <1>6, <3>1, <3>2, <3>3
    <3> QED BY <1>4, <2>1, <3>2, <3>4, ExtendsPairs DEF CInv, PairsTight
  <2> QED BY <2>1 DEF PairsTight
<1> QED BY <1>10, <1>12, <1>13, <1>14, <1>15 DEF CInv

LEMMA ReturnsKeep ==
  ASSUME LogTyped, ControlTyped, TurnIsOpen, CInv, ToolReturns
  PROVE  CInv'
<1>1. PICK c \in Nat :
           /\ turn.pc = "tools" /\ turn'.pc = "tools" /\ Running(c)
           /\ \A d \in ToSet(turn.todo) : d = c \/ d \in ToSet(turn'.todo)
           /\ ToSet(turn'.todo) \subseteq ToSet(turn.todo)
           /\ spent' = spent
           /\ Adds(ToolResult(c)) /\ ToolResult(c) \in Entries
           /\ ToolResult(c).type = "tool/result" /\ ToolResult(c).kind = "message"
           /\ ToolResult(c).calls = <<>> /\ ToolResult(c).call = c
  BY ReturnsTo
<1>2. PICK e \in Entries : e = ToolResult(c)
  BY <1>1
<1>3. PICK n : n = Len(log) + 1
  OBVIOUS
<1>4. /\ Adds(e) /\ e.type = "tool/result" /\ e.kind = "message" /\ e.calls = <<>> /\ e.call = c
      /\ Extends /\ Len(log') = n /\ log'[n] = e
      /\ Len(surface') = Len(surface) + 1 /\ surface'[Len(surface) + 1] = Len(log)
  BY <1>1, <1>2, <1>3, AddsExtends
<1>5. n \in DOMAIN log' /\ n \in Nat /\ Len(log) \in Nat /\ spent.calls \in Nat
  BY <1>3, <1>4 DEF Extends, ControlTyped
<1>6. ASSUME NEW i \in DOMAIN log'
      PROVE  i = n \/ (i \in DOMAIN log /\ log'[i] = log[i])
  BY <1>3, <1>4, <1>5 DEF Extends
<1>7. /\ \A d : Running(d)' => Running(d)
      /\ \A d : Running(d) => d = c \/ Running(d)'
      /\ ~GivenUp
  BY <1>1 DEF Running, GivenUp
<1>8. ASSUME NEW i \in DOMAIN log', NEW d \in ToSet(log'[i].calls)
      PROVE  i \in DOMAIN log /\ log'[i] = log[i] /\ d \in ToSet(log[i].calls)
  <2>1. ToSet(<<>>) = {}
    BY DEF ToSet
  <2> QED BY <1>4, <1>6, <1>8, <2>1
<1>9. CallsNumbered'
  <2>1. ASSUME NEW i \in DOMAIN log', NEW d \in ToSet(log'[i].calls)
        PROVE  d > 0 /\ d <= spent'.calls /\ log'[i].type = "assistant/message"
    BY <1>1, <1>8, <2>1 DEF CInv, CallsNumbered
  <2>2. ASSUME NEW i \in DOMAIN log' PROVE log'[i].call <= spent'.calls
    BY <1>1, <1>4, <1>6, <2>2 DEF CInv, CallsNumbered
  <2>3. ASSUME NEW d, Running(d)' PROVE d <= spent'.calls
    BY <1>1, <1>7, <2>3 DEF CInv, CallsNumbered
  <2>4. ASSUME NEW i \in DOMAIN log', NEW k \in DOMAIN log', NEW d \in ToSet(log'[i].calls),
               d \in ToSet(log'[k].calls)
        PROVE  i = k
    BY <1>8, <2>4 DEF CInv, CallsNumbered
  <2> QED BY <2>1, <2>2, <2>3, <2>4 DEF CallsNumbered
<1>10. ASSUME NEW i \in DOMAIN log, LastAsked(i)
       PROVE  /\ LastAsked(i)'
              /\ \A j \in DOMAIN log' : j > Len(log) /\ (j - 1) \in Shown' => Tight(i, j)'
  <2>1. \A k \in (Len(log) + 1)..Len(log') : log'[k].type # "assistant/message"
    BY <1>3, <1>4, <1>5
  <2> QED BY <1>4, <1>10, <2>1, ExtendsAsked
<1>11. RunningAreLast'
  <2>1. ASSUME NEW i \in DOMAIN log', NEW d \in ToSet(log'[i].calls), Running(d)'
        PROVE  LastAsked(i)'
    BY <1>7, <1>8, <1>10, <2>1 DEF CInv, RunningAreLast
  <2> QED BY <2>1 DEF RunningAreLast
<1>12. OpenAnswered'
  <2>1. ASSUME NEW i \in DOMAIN log', Current(i)', NEW d \in ToSet(log'[i].calls)
        PROVE  Answered(d)' \/ Running(d)' \/ (GivenUp' /\ LastAsked(i)')
    <3>1. i \in DOMAIN log /\ d \in ToSet(log[i].calls)
      BY <1>8, <2>1
    <3>2. Current(i) /\ (Answered(d) => Answered(d)')
      BY <1>4, <2>1, <3>1, ExtendsKeeps
    <3>3. Answered(d) \/ Running(d)
      BY <1>7, <3>1, <3>2 DEF CInv, OpenAnswered
    <3>4. Answered(c)'
      BY <1>4, <1>5 DEF Answered
    <3> QED BY <1>7, <3>2, <3>3, <3>4
  <2> QED BY <2>1 DEF OpenAnswered
<1>13. CallsInTurn'
  <2>1. OpenTurn
    BY <1>1 DEF TurnIsOpen, InTurn
  <2>2. OpenTurn'
    BY <1>4, <2>1, LogAfter DEF Adds
  <2> QED BY <2>2 DEF CallsInTurn
<1>14. PairsTight'
  <2>1. ASSUME NEW i \in DOMAIN log', NEW j \in DOMAIN log', Pair(i, j)'
        PROVE  Tight(i, j)'
    <3>1. log'[j].type = "tool/result" /\ log'[j].call \in ToSet(log'[i].calls)
      BY <2>1 DEF Pair
    <3>2. i \in DOMAIN log /\ log'[j].call \in ToSet(log[i].calls)
      BY <1>8, <3>1
    <3>3. CASE j \in DOMAIN log
      BY <1>4, <2>1, <3>2, <3>3, ExtendsPairs DEF CInv, PairsTight
    <3>4. CASE j = n
      <4>1. LastAsked(i)
        BY <1>1, <1>4, <3>2, <3>4 DEF CInv, RunningAreLast
      <4>2. Len(surface) + 1 \in DOMAIN surface' /\ surface'[Len(surface) + 1] = j - 1
        BY <1>3, <1>4, <1>5, <3>4 DEF Extends
      <4>3. (j - 1) \in Shown' /\ j > Len(log)
        BY <1>3, <1>5, <3>4, <4>2 DEF Shown, ToSet
      <4> QED BY <1>10, <3>2, <4>1, <4>3
    <3> QED BY <1>6, <3>3, <3>4
  <2> QED BY <2>1 DEF PairsTight
<1> QED BY <1>9, <1>11, <1>12, <1>13, <1>14 DEF CInv

LEMMA ResumeKeepsCalls ==
  ASSUME LogTyped, ControlTyped, CInv, Resume
  PROVE  CInv'
<1>0. Extends
  BY ResumeExtends
<1>1. PICK n \in Nat : Repairs(n, log', surface') /\ Settled(n, log')
  BY ResumeTo
<1>2. /\ turn'.pc = "off" /\ spent'.calls = spent.calls /\ spent.calls \in Nat
  BY DEF Resume, NoTurn, ControlTyped
<1>3. /\ \A i \in 1..Len(log) : log[i].calls \in Seq(Nat) /\ log[i].call \in Nat
      /\ Len(log) \in Nat /\ DOMAIN log = 1..Len(log)
  <2>1. \A i \in DOMAIN log : log[i] \in Entries
    BY DEF LogTyped
  <2> QED BY <1>0, <2>1 DEF Entries, Extends
<1>4. /\ OpenCalls \in Seq(Nat)
      /\ \A c \in ToSet(OpenCalls) : \E i \in DOMAIN log : c \in ToSet(log[i].calls) /\ Current(i)
  BY <1>3, OpenCallsTyped DEF Current
<1>5. ASSUME NEW i \in DOMAIN log'
      PROVE  \/ i \in DOMAIN log /\ log'[i] = log[i]
             \/ /\ i > Len(log) /\ i <= Len(log) + n
                /\ log'[i].calls = <<>> /\ log'[i].type = "tool/result"
                /\ log'[i].call \in ToSet(OpenCalls)
             \/ /\ i > Len(log) + n /\ log'[i].calls = <<>> /\ log'[i].type = "turn/end"
                /\ log'[i].call = 0
  <2>1. i \in 1..Len(log') /\ Len(log') \in Nat
    BY <1>0 DEF Extends
  <2>2. CASE i <= Len(log)
    BY <1>0, <1>3, <2>1, <2>2 DEF Extends
  <2>3. CASE i > Len(log) /\ i <= Len(log) + n
    <3>1. i - Len(log) \in 1..n /\ Len(log) + (i - Len(log)) = i
      BY <1>3, <2>1, <2>3
    <3>2. PICK c \in ToSet(OpenCalls) : log'[Len(log) + (i - Len(log))] = ToolResult(c)
      BY <1>1, <3>1 DEF Settled
    <3>3. c \in Nat
      BY <1>4, <3>2 DEF ToSet
    <3> QED BY <2>3, <3>1, <3>2, <3>3, EntriesTyped
  <2>4. CASE i > Len(log) + n
    <3>1. log'[i] = Record("turn/end")
      BY <1>1, <2>1, <2>4 DEF Settled
    <3>2. PICK e : e = Record("turn/end")
      OBVIOUS
    <3>3. e.type = "turn/end" /\ Bare(e)
      BY <3>2, EntriesTyped DEF Types
    <3> QED BY <2>4, <3>1, <3>2, <3>3 DEF Bare
  <2> QED BY <1>3, <2>1, <2>2, <2>3, <2>4
<1>6. ASSUME NEW i \in DOMAIN log', NEW c \in ToSet(log'[i].calls)
      PROVE  i \in DOMAIN log /\ log'[i] = log[i] /\ c \in ToSet(log[i].calls)
  <2>1. ToSet(<<>>) = {}
    BY DEF ToSet
  <2> QED BY <1>5, <1>6, <2>1
<1>7. \A c : ~Running(c)'
  BY <1>2 DEF Running
<1>8. CallsNumbered'
  <2>1. ASSUME NEW i \in DOMAIN log', NEW c \in ToSet(log'[i].calls)
        PROVE  c > 0 /\ c <= spent'.calls /\ log'[i].type = "assistant/message"
    BY <1>2, <1>6, <2>1 DEF CInv, CallsNumbered
  <2>2. ASSUME NEW i \in DOMAIN log' PROVE log'[i].call <= spent'.calls
    BY <1>2, <1>4, <1>5, <2>2 DEF CInv, CallsNumbered
  <2>3. ASSUME NEW i \in DOMAIN log', NEW k \in DOMAIN log', NEW c \in ToSet(log'[i].calls),
               c \in ToSet(log'[k].calls)
        PROVE  i = k
    BY <1>6, <2>3 DEF CInv, CallsNumbered
  <2> QED BY <1>7, <2>1, <2>2, <2>3 DEF CallsNumbered
\* What is still current makes no calls.
<1>9. ASSUME NEW i \in DOMAIN log', Current(i)' PROVE log'[i].calls = <<>>
  <2>1. CASE i \notin DOMAIN log
    BY <1>5, <1>9, <2>1
  <2>2. CASE OpenTurn /\ i \in DOMAIN log
    <3>1. Len(log') = Len(log) + n + 1 /\ Len(log') \in DOMAIN log'
      <4>1. Len(log') = Len(log) + n + 1
        BY <1>1, <2>2 DEF Settled
      <4>2. Len(log') \in 1..Len(log') /\ DOMAIN log' = 1..Len(log')
        BY <1>0, <1>3, <4>1 DEF Extends
      <4> QED BY <4>1, <4>2
    <3>2. log'[Len(log')].type = "turn/end"
      BY <1>3, <1>5, <3>1
    <3>3. Len(log') \in (i + 1)..Len(log')
      BY <1>3, <2>2, <3>1
    <3> QED BY <1>9, <3>2, <3>3 DEF Current
  <2>3. CASE ~OpenTurn /\ i \in DOMAIN log
    <3>1. Current(i) /\ log'[i] = log[i]
      BY <1>0, <1>9, <2>3, ExtendsKeeps
    <3> QED BY <2>3, <3>1 DEF CInv, CallsInTurn
  <2> QED BY <2>1, <2>2, <2>3
<1>10. RunningAreLast' /\ OpenAnswered' /\ CallsInTurn'
  <2>1. RunningAreLast'
    BY <1>7 DEF RunningAreLast
  <2>2. CallsInTurn'
    BY <1>9 DEF CallsInTurn
  <2>3. ToSet(<<>>) = {}
    BY DEF ToSet
  <2>4. OpenAnswered'
    BY <1>9, <2>3 DEF OpenAnswered
  <2> QED BY <2>1, <2>2, <2>4
<1>11. ASSUME NEW i \in DOMAIN log', NEW j \in DOMAIN log', Pair(i, j)'
       PROVE  Tight(i, j)'
  <2>1. /\ log'[j].type = "tool/result" /\ log'[j].call \in ToSet(log'[i].calls)
        /\ \A k \in 1..(j - 1) : log'[k].call # log'[j].call
    BY <1>11 DEF Pair
  <2>2. PICK c : c = log'[j].call
    OBVIOUS
  <2>3. i \in DOMAIN log /\ c \in ToSet(log[i].calls)
    BY <1>6, <2>1, <2>2
  <2>4. CASE j \in DOMAIN log
    BY <1>0, <1>11, <2>3, <2>4, ExtendsPairs DEF CInv, PairsTight
  <2>5. CASE j \notin DOMAIN log
    <3>1. j > Len(log) /\ j <= Len(log) + n /\ c \in ToSet(OpenCalls)
      BY <1>5, <2>1, <2>2, <2>5
    <3>2. PICK k \in DOMAIN log : c \in ToSet(log[k].calls) /\ Current(k)
      BY <1>4, <3>1
    <3>3. k = i
      BY <2>3, <3>2 DEF CInv, CallsNumbered
    <3>4. ~Answered(c)
      <4>1. SUFFICES ASSUME NEW l \in DOMAIN log, log[l].call = c PROVE FALSE
        BY DEF Answered
      <4>2. l \in 1..(j - 1) /\ log'[l] = log[l]
        BY <1>0, <1>3, <3>1, <4>1 DEF Extends
      <4> QED BY <2>1, <2>2, <4>1, <4>2
    <3>5. LastAsked(i)
      BY <2>3, <3>2, <3>3, <3>4 DEF CInv, OpenAnswered, RunningAreLast
    <3>6. (j - 1) \in Shown'
      <4>1. j - Len(log) \in 1..n /\ Len(log) + (j - Len(log)) - 1 = j - 1
        BY <1>0, <1>3, <3>1 DEF Extends
      <4>2. surface'[Len(surface) + (j - Len(log))] = Len(log) + (j - Len(log)) - 1
        BY <1>1, <4>1 DEF Repairs
      <4>3. Len(surface') = Len(surface) + n
        BY <1>1 DEF Repairs
      <4>4. Len(surface) + (j - Len(log)) \in DOMAIN surface'
        BY <1>0, <4>1, <4>3 DEF Extends
      <4> QED BY <4>1, <4>2, <4>4 DEF Shown, ToSet
    <3>7. ASSUME NEW k2 \in (Len(log) + 1)..Len(log') PROVE log'[k2].type # "assistant/message"
      <4>1. k2 \in DOMAIN log' /\ k2 \notin DOMAIN log
        BY <1>0, <1>3 DEF Extends
      <4> QED BY <1>5, <4>1
    <3> QED BY <1>0, <2>3, <3>1, <3>5, <3>6, <3>7, ExtendsAsked
  <2> QED BY <2>4, <2>5
<1>12. PairsTight'
  BY <1>11 DEF PairsTight
<1> QED BY <1>8, <1>10, <1>12 DEF CInv

\* A region that takes both or none leaves what is tight tight.
LEMMA ReplaceTight ==
  ASSUME LogTyped, NEW region \in Seq(Nat), Lies(region, surface), AppendEvent(Checkpoint(region)),
         NEW i \in DOMAIN log, NEW j \in DOMAIN log, Tight(i, j),
         (i - 1) \in ToSet(region) <=> (j - 1) \in ToSet(region)
  PROVE  Tight(i, j)'
<1>1. PICK p \in DOMAIN surface, q \in DOMAIN surface :
        /\ p <= q
        /\ \A x \in p..q : surface[x] \in ToSet(region)
        /\ \A x \in DOMAIN surface : surface[x] \in ToSet(region) => x \in p..q
        /\ LP!Covers(surface, p, q, Len(log), surface')
  BY ReplaceTo
<1>2. /\ log \in Seq(Entries) /\ log' = Append(log, Checkpoint(region)) /\ Len(log) \in Nat
      /\ surface \in Seq(Nat) /\ Len(surface) \in Nat /\ DOMAIN surface = 1..Len(surface)
      /\ LP!Distinct(surface) /\ \A a \in DOMAIN surface : surface[a] < Len(log)
      /\ DOMAIN log = 1..Len(log)
  BY ReplaceTo DEF LogTyped
<1>3. /\ surface' \in Seq(Nat) /\ DOMAIN surface' = 1..(p + (Len(surface) - q))
      /\ \A a \in 1..(p - 1) : surface'[a] = surface[a]
      /\ surface'[p] = Len(log)
      /\ \A a \in 1..(Len(surface) - q) : surface'[p + a] = surface[q + a]
  BY <1>1 DEF LP!Covers
<1>4. p \in 1..Len(surface) /\ q \in 1..Len(surface) /\ p <= q /\ p \in Nat /\ q \in Nat
  BY <1>1, <1>2
<1>41. PICK n \in Nat : n = Len(surface)
  BY <1>2
<1>42. p \in Int /\ q \in Int /\ n \in Int /\ 1 <= p /\ p <= q /\ q <= n
  BY <1>4, <1>41
<1> DEFINE New(a) == IF a < p THEN a ELSE p + (a - q)
<1>5. ASSUME NEW a \in DOMAIN surface, a \notin p..q
      PROVE  New(a) \in DOMAIN surface' /\ surface'[New(a)] = surface[a]
  <2>0. a \in 1..Len(surface)
    BY <1>2
  <2>1. CASE a < p
    <3>1. a \in 1..(p - 1) /\ a \in 1..(p + (Len(surface) - q))
      BY <1>2, <1>4, <2>0, <2>1
    <3> QED BY <1>3, <2>1, <3>1
  <2>2. CASE a > q
    <3>0. a \in Int /\ a <= n
      BY <1>41, <1>42, <2>0
    <3>1. /\ a - q \in 1..(n - q) /\ q + (a - q) = a /\ ~(a < p)
          /\ p + (a - q) \in 1..(p + (n - q))
      BY <1>42, <2>2, <3>0, SMTT(40)
    <3>2. surface'[p + (a - q)] = surface[q + (a - q)]
      BY <1>3, <1>41, <3>1
    <3> QED BY <1>3, <1>41, <3>1, <3>2
  <2> QED BY <1>4, <1>5, <2>0, <2>1, <2>2
<1>6. ASSUME NEW x \in DOMAIN surface', x # p
      PROVE  \E a \in DOMAIN surface : a \notin p..q /\ New(a) = x
  <2>0. x \in 1..(p + (Len(surface) - q))
    BY <1>3
  <2>1. CASE x < p
    <3>1. x \in DOMAIN surface /\ x \notin p..q /\ New(x) = x
      BY <1>2, <1>4, <2>0, <2>1
    <3> QED BY <3>1
  <2>2. CASE x > p
    <3>0. x \in Int /\ x <= p + (n - q)
      BY <1>41, <1>42, <2>0
    <3>1. /\ q + (x - p) \in 1..n /\ q + (x - p) \notin p..q
          /\ ~(q + (x - p) < p) /\ p + ((q + (x - p)) - q) = x
      BY <1>42, <2>2, <3>0
    <3>2. New(q + (x - p)) = x
      BY <3>1
    <3> QED BY <1>2, <1>41, <3>1, <3>2
  <2> QED BY <1>4, <1>6, <2>0, <2>1, <2>2
<1>7. ASSUME NEW a \in DOMAIN surface, NEW b \in DOMAIN surface, a \notin p..q, b \notin p..q
      PROVE  New(a) < New(b) <=> a < b
  <2>1. a \in Int /\ b \in Int /\ (a < p \/ a > q) /\ (b < p \/ b > q)
    BY <1>2, <1>4, <1>7
  <2> QED BY <1>4, <2>1
<1> HIDE DEF New
\* Nothing old comes to the surface.
<1>8. ASSUME NEW k \in DOMAIN log, (k - 1) \in Shown'
      PROVE  (k - 1) \in Shown /\ (k - 1) \notin ToSet(region)
  <2>1. PICK x \in DOMAIN surface' : surface'[x] = k - 1
    BY <1>8 DEF Shown, ToSet
  <2>2. x # p
    BY <1>2, <1>3, <2>1
  <2>3. PICK a \in DOMAIN surface : a \notin p..q /\ New(a) = x
    BY <1>6, <2>2
  <2>4. surface[a] = k - 1
    BY <1>5, <2>1, <2>3
  <2>5. (k - 1) \in Shown
    BY <2>4 DEF Shown, ToSet
  <2> QED BY <1>1, <2>3, <2>4, <2>5
<1>9. CASE (i - 1) \notin Shown' /\ (j - 1) \notin Shown'
  BY <1>9 DEF Tight
<1>10. ASSUME (i - 1) \in Shown' \/ (j - 1) \in Shown'
       PROVE  Tight(i, j)'
  <2>1. /\ (i - 1) \in Shown \/ (j - 1) \in Shown
        /\ (i - 1) \notin ToSet(region) /\ (j - 1) \notin ToSet(region)
    BY <1>8, <1>10
  <2>2. PICK a \in DOMAIN surface, b \in DOMAIN surface :
          /\ a < b /\ surface[a] = i - 1 /\ surface[b] = j - 1
          /\ \A c \in (a + 1)..b : EventAt(surface[c]).type # "assistant/message"
    BY <2>1 DEF Tight
  <2>3. a \notin p..q /\ b \notin p..q
    BY <1>1, <2>1, <2>2
  <2>4. PICK x \in DOMAIN surface', y \in DOMAIN surface' : x = New(a) /\ y = New(b)
    BY <1>5, <2>3
  <2>5. surface'[x] = i - 1 /\ surface'[y] = j - 1 /\ x < y
    BY <1>5, <1>7, <2>2, <2>3, <2>4
  <2>6. ASSUME NEW z \in (x + 1)..y PROVE EventAt(surface[z])'.type # "assistant/message"
    <3>0. z \in DOMAIN surface' /\ x \in Int /\ y \in Int /\ z \in Int /\ x < z /\ z <= y
      <4>1. PICK m \in Int : m = p + (Len(surface) - q)
        BY <1>41, <1>42
      <4>2. x \in 1..m /\ y \in 1..m /\ DOMAIN surface' = 1..m
        BY <1>3, <2>4, <4>1
      <4> QED BY <4>1, <4>2
    <3>1. CASE z = p
      <4>0. PICK e : e = Checkpoint(region)
        OBVIOUS
      <4>1. EventAt(surface[z])' = Checkpoint(region)
        <5>1. surface'[z] = Len(log)
          BY <1>3, <3>1
        <5>2. log'[Len(log) + 1] = e
          BY <1>2, <4>0
        <5> QED BY <4>0, <5>1, <5>2 DEF EventAt
      <4>2. Checkpoint(region).type = "user/message"
        BY CheckpointTyped DEF Lies
      <4> QED BY <4>1, <4>2
    <3>2. CASE z # p
      <4>1. PICK c \in DOMAIN surface : c \notin p..q /\ New(c) = z
        BY <1>6, <3>0, <3>2
      <4>2. a < c /\ ~(b < c)
        BY <1>7, <2>3, <2>4, <3>0, <4>1
      <4>3. c \in (a + 1)..b
        BY <1>2, <4>1, <4>2, SMTT(40)
      <4>4. surface'[z] = surface[c] /\ surface[c] + 1 \in 1..Len(log)
        BY <1>2, <1>5, <4>1, SMTT(40)
      <4>5. EventAt(surface[z])' = EventAt(surface[c])
        BY <1>2, <4>4 DEF EventAt
      <4> QED BY <2>2, <4>3, <4>5
    <3> QED BY <3>1, <3>2
  <2> QED BY <2>4, <2>5, <2>6 DEF Tight
<1> QED BY <1>9, <1>10

LEMMA ReplaceKeepsCalls ==
  ASSUME LogTyped, ControlTyped, Holders, RegionLies, CInv, NoCallsBeside, RegionWhole, CommitReplace
  PROVE  CInv'
<1>1. PICK region \in Seq(Nat) :
        region = engine.region /\ Lies(region, surface) /\ AppendEvent(Checkpoint(region))
  BY DEF ControlTyped, Engines, RegionLies, CommitReplace
<1>2. PICK e : e = Checkpoint(region)
  OBVIOUS
<1>3. e \in Entries /\ e.type = "user/message" /\ e.calls = <<>> /\ e.call = 0
  BY <1>1, <1>2, CheckpointTyped DEF Lies, Bare
<1>4. log' = Append(log, e) /\ log \in Seq(Entries)
  BY <1>1, <1>2, ReplaceTo DEF LogTyped
<1>5. /\ Len(log) \in Nat /\ DOMAIN log = 1..Len(log) /\ DOMAIN log' = 1..(Len(log) + 1)
      /\ Len(log') = Len(log) + 1 /\ \A i \in DOMAIN log : log'[i] = log[i]
      /\ log'[Len(log) + 1] = e
  BY <1>4
<1>6. ASSUME NEW i \in DOMAIN log'
      PROVE  i \in DOMAIN log \/ (i = Len(log) + 1 /\ log'[i] = e)
  BY <1>5
<1>7. ASSUME NEW i \in DOMAIN log', NEW c \in ToSet(log'[i].calls)
      PROVE  i \in DOMAIN log /\ log'[i] = log[i] /\ c \in ToSet(log[i].calls)
  <2>1. ToSet(<<>>) = {}
    BY DEF ToSet
  <2> QED BY <1>3, <1>5, <1>6, <1>7, <2>1
<1>8. turn' = turn /\ spent' = spent /\ engine.stage = "replace" /\ spent.calls \in Nat
  BY DEF CommitReplace, ControlTyped
<1>9. \/ turn.pc = "compacting"
      \/ /\ turn.pc # "tools" /\ \A i \in DOMAIN log : Current(i) => log[i].calls = <<>>
  BY <1>8 DEF Holders, ControlTyped, Engines, NoCallsBeside
<1>10. \A c : ~Running(c) /\ ~Running(c)'
  BY <1>8, <1>9 DEF Running
<1>11. ASSUME NEW i \in DOMAIN log, Current(i)' PROVE Current(i)
  <2>1. \A k \in (i + 1)..Len(log) : k \in (i + 1)..Len(log') /\ log'[k] = log[k]
    BY <1>5
  <2> QED BY <1>11, <2>1 DEF Current
<1>12. CallsNumbered'
  <2>1. ASSUME NEW i \in DOMAIN log', NEW c \in ToSet(log'[i].calls)
        PROVE  c > 0 /\ c <= spent'.calls /\ log'[i].type = "assistant/message"
    BY <1>7, <1>8, <2>1 DEF CInv, CallsNumbered
  <2>2. ASSUME NEW i \in DOMAIN log' PROVE log'[i].call <= spent'.calls
    BY <1>3, <1>5, <1>6, <1>8, <2>2 DEF CInv, CallsNumbered
  <2>3. ASSUME NEW i \in DOMAIN log', NEW k \in DOMAIN log', NEW c \in ToSet(log'[i].calls),
               c \in ToSet(log'[k].calls)
        PROVE  i = k
    BY <1>7, <2>3 DEF CInv, CallsNumbered
  <2> QED BY <1>10, <2>1, <2>2, <2>3 DEF CallsNumbered
<1>13. RunningAreLast'
  BY <1>10 DEF RunningAreLast
<1>14. OpenAnswered'
  <2>1. ASSUME NEW i \in DOMAIN log', Current(i)', NEW c \in ToSet(log'[i].calls)
        PROVE  Answered(c)'
    <3>1. i \in DOMAIN log /\ c \in ToSet(log[i].calls) /\ Current(i)
      BY <1>7, <1>11, <2>1
    <3>2. log[i].calls # <<>>
      BY <3>1 DEF ToSet
    <3>3. Answered(c)
      BY <1>9, <1>10, <3>1, <3>2 DEF CInv, OpenAnswered, GivenUp
    <3> QED BY <1>5, <3>3 DEF Answered
  <2> QED BY <2>1 DEF OpenAnswered
<1>15. CallsInTurn'
  <2>1. OpenTurn' <=> OpenTurn
    BY <1>3, <1>4, LogAfter
  <2>2. ASSUME NEW i \in DOMAIN log', Current(i)', log'[i].calls # <<>> PROVE OpenTurn'
    <3>1. i \in DOMAIN log /\ log'[i] = log[i]
      BY <1>3, <1>5, <1>6, <2>2
    <3> QED BY <1>11, <2>1, <2>2, <3>1 DEF CInv, CallsInTurn
  <2> QED BY <2>2 DEF CallsInTurn
<1>16. PairsTight'
  <2>1. ASSUME NEW i \in DOMAIN log', NEW j \in DOMAIN log', Pair(i, j)' PROVE Tight(i, j)'
    <3>1. /\ log'[j].type = "tool/result" /\ log'[j].call \in ToSet(log'[i].calls)
          /\ \A k \in 1..(j - 1) : log'[k].call # log'[j].call
      BY <2>1 DEF Pair
    <3>2. i \in DOMAIN log /\ j \in DOMAIN log
      BY <1>3, <1>6, <1>7, <3>1
    <3>3. \A k \in 1..(j - 1) : k \in DOMAIN log
      BY <1>5, <3>2
    <3>4. Pair(i, j)
      BY <1>5, <3>1, <3>2, <3>3 DEF Pair
    <3>5. (i - 1) \in ToSet(region) <=> (j - 1) \in ToSet(region)
      BY <1>1, <1>8, <3>2, <3>4 DEF RegionWhole, TakesWhole
    <3> QED BY <1>1, <3>2, <3>4, <3>5, ReplaceTight DEF CInv, PairsTight
  <2> QED BY <2>1 DEF PairsTight
<1> QED BY <1>12, <1>13, <1>14, <1>15, <1>16 DEF CInv

-----------------------------------------------------------------------------
(* Balances along the surface.                                             *)

Sums(nodes, n, f) ==
  f = [i \in 0..n |-> IF i = 0 THEN 0 ELSE f[i - 1] + eventDelta(EventAt(nodes[i]))]

LEMMA BalancesExist ==
  ASSUME NEW nodes, NEW k \in Nat
  PROVE  \E f : Sums(nodes, k, f)
<1> DEFINE Good == {n \in Nat : \E f : Sums(nodes, n, f)}
<1>1. 0 \in Good
  <2> DEFINE f == [i \in 0..0 |-> 0]
  <2>1. Sums(nodes, 0, f)
    BY DEF Sums
  <2> QED BY <2>1
<1>2. ASSUME NEW n \in Nat, n \in Good PROVE n + 1 \in Good
  <2>1. PICK f : Sums(nodes, n, f)
    BY <1>2
  <2> DEFINE last == f[n] + eventDelta(EventAt(nodes[n + 1]))
             g == [i \in 0..(n + 1) |-> IF i = n + 1 THEN last ELSE f[i]]
  <2>2. \A i \in 0..n : g[i] = f[i]
    OBVIOUS
  <2>3. \A i \in 0..n : f[i] = IF i = 0 THEN 0 ELSE f[i - 1] + eventDelta(EventAt(nodes[i]))
    BY <2>1 DEF Sums
  <2>4. ASSUME NEW i \in 0..(n + 1)
        PROVE  g[i] = IF i = 0 THEN 0 ELSE g[i - 1] + eventDelta(EventAt(nodes[i]))
    <3>1. CASE i = n + 1
      BY <3>1, <2>2
    <3>2. CASE i # n + 1
      <4>1. i \in 0..n /\ (i # 0 => i - 1 \in 0..n)
        BY <3>2
      <4> QED BY <4>1, <2>2, <2>3
    <3> QED BY <3>1, <3>2
  <2>5. Sums(nodes, n + 1, g)
    BY <2>4 DEF Sums
  <2> QED BY <2>5
<1> HIDE DEF Good
<1>3. k \in Good
  BY <1>1, <1>2, CompactionAssumption, LP!NaturalsIn
<1> QED BY <1>3 DEF Good

LEMMA BalanceSteps ==
  ASSUME LogTyped
  PROVE  /\ balanceOf(surface)[0] = 0
         /\ \A i \in 1..Len(surface) :
              balanceOf(surface)[i] = balanceOf(surface)[i - 1] + eventDelta(EventAt(surface[i]))
<1> DEFINE open == CHOOSE f : f = [i \in 0..Len(surface) |->
                     IF i = 0 THEN 0 ELSE f[i - 1] + eventDelta(EventAt(surface[i]))]
<1>1. Len(surface) \in Nat
  BY DEF LogTyped
<1>2. \E f : f = [i \in 0..Len(surface) |->
               IF i = 0 THEN 0 ELSE f[i - 1] + eventDelta(EventAt(surface[i]))]
  BY <1>1, BalancesExist DEF Sums
<1>3. open = [i \in 0..Len(surface) |->
               IF i = 0 THEN 0 ELSE open[i - 1] + eventDelta(EventAt(surface[i]))]
  BY <1>2
<1>4. balanceOf(surface) = open
  BY DEF balanceOf
<1> HIDE DEF open
<1>5. open[0] = 0
  <2>1. 0 \in 0..Len(surface)
    BY <1>1
  <2> QED BY <1>3, <2>1
<1>6. ASSUME NEW i \in 1..Len(surface)
      PROVE  open[i] = open[i - 1] + eventDelta(EventAt(surface[i]))
  <2>1. i \in 0..Len(surface) /\ i # 0
    BY <1>1
  <2> QED BY <1>3, <2>1
<1> QED BY <1>4, <1>5, <1>6

LEMMA DeltasTyped ==
  ASSUME LogTyped, NEW i \in 1..Len(surface)
  PROVE  /\ eventDelta(EventAt(surface[i])) \in Int
         /\ EventAt(surface[i]).type # "assistant/message" => eventDelta(EventAt(surface[i])) <= 0
         /\ EventAt(surface[i]).type = "tool/result" => eventDelta(EventAt(surface[i])) = -1
<1>1. PICK e \in Entries : e = EventAt(surface[i])
  <2>1. surface[i] + 1 \in DOMAIN log /\ log \in Seq(Entries)
    BY DEF LogTyped
  <2> QED BY <2>1 DEF EventAt
<1>2. Len(e.calls) \in Nat
  BY DEF Entries
<1>3. CASE e.type = "assistant/message"
  BY <1>1, <1>2, <1>3 DEF eventDelta
<1>4. CASE e.type = "tool/result"
  BY <1>1, <1>4 DEF eventDelta
<1>5. CASE e.type \notin {"assistant/message", "tool/result"}
  BY <1>1, <1>5 DEF eventDelta
<1> QED BY <1>1, <1>3, <1>4, <1>5

LEMMA BalancesTyped ==
  ASSUME LogTyped
  PROVE  \A i \in 0..Len(surface) : balanceOf(surface)[i] \in Int
<1>1. PICK bal : bal = balanceOf(surface)
  OBVIOUS
<1>2. Len(surface) \in Nat
  BY DEF LogTyped
<1> DEFINE Good == {n \in Nat : n <= Len(surface) => bal[n] \in Int}
<1>3. 0 \in Good
  BY <1>1, BalanceSteps
<1>4. ASSUME NEW n \in Nat, n \in Good PROVE n + 1 \in Good
  <2>1. SUFFICES ASSUME n + 1 <= Len(surface) PROVE bal[n + 1] \in Int
    OBVIOUS
  <2>2. n + 1 \in 1..Len(surface) /\ (n + 1) - 1 = n /\ bal[n] \in Int
    BY <1>2, <1>4, <2>1
  <2>3. bal[n + 1] = bal[(n + 1) - 1] + eventDelta(EventAt(surface[n + 1]))
    BY <1>1, <2>2, BalanceSteps
  <2>4. eventDelta(EventAt(surface[n + 1])) \in Int
    BY <2>2, DeltasTyped
  <2> QED BY <2>2, <2>3, <2>4
<1> HIDE DEF Good
<1>5. \A n \in Nat : n \in Good
  BY <1>3, <1>4, CompactionAssumption, LP!NaturalsIn
<1>6. ASSUME NEW i \in 0..Len(surface) PROVE bal[i] \in Int
  <2>1. i \in Nat /\ i <= Len(surface)
    BY <1>2
  <2> QED BY <1>5, <2>1 DEF Good
<1> QED BY <1>1, <1>6

\* Behind a balanced cut no result is shown before the next assistant message.
LEMMA BalanceFalls ==
  ASSUME LogTyped, ~CorruptSurface, NEW b \in DOMAIN surface, NEW m \in 1..b, balancedBefore(m),
         \A c \in m..b : EventAt(surface[c]).type # "assistant/message"
  PROVE  EventAt(surface[b]).type # "tool/result"
<1>1. PICK bal : bal = balanceOf(surface)
  OBVIOUS
<1>2. /\ Len(surface) \in Nat /\ b \in 1..Len(surface) /\ m \in Nat \ {0} /\ b \in Nat /\ m <= b
  BY DEF LogTyped
<1>3. bal[m - 1] = 0 /\ ~(bal[b] < 0)
  BY <1>1 DEF balancedBefore, CorruptSurface
<1> DEFINE Good == {n \in Nat : m - 1 + n <= b => bal[m - 1 + n] <= 0}
<1>4. 0 \in Good
  <2>1. m - 1 + 0 = m - 1
    BY <1>2
  <2> QED BY <1>3, <2>1
<1>5. ASSUME NEW n \in Nat, n \in Good PROVE n + 1 \in Good
  <2>1. SUFFICES ASSUME m - 1 + (n + 1) <= b PROVE bal[m - 1 + (n + 1)] <= 0
    OBVIOUS
  <2>2. PICK c : c = m + n
    OBVIOUS
  <2>3. /\ c \in m..b /\ c \in 1..Len(surface) /\ m - 1 + (n + 1) = c /\ c - 1 = m - 1 + n
        /\ c - 1 <= b /\ c - 1 \in 0..Len(surface)
    BY <1>2, <2>1, <2>2
  <2>4. bal[c - 1] <= 0 /\ bal[c - 1] \in Int
    BY <1>1, <1>5, <2>3, BalancesTyped
  <2>5. bal[c] = bal[c - 1] + eventDelta(EventAt(surface[c]))
    BY <1>1, <2>3, BalanceSteps
  <2>6. eventDelta(EventAt(surface[c])) \in Int /\ eventDelta(EventAt(surface[c])) <= 0
    BY <2>3, DeltasTyped
  <2> QED BY <2>3, <2>4, <2>5, <2>6
<1> HIDE DEF Good
<1>6. \A n \in Nat : n \in Good
  BY <1>4, <1>5, CompactionAssumption, LP!NaturalsIn
<1>7. bal[b - 1] <= 0 /\ bal[b - 1] \in Int
  <2>1. b - m \in Nat /\ m - 1 + (b - m) = b - 1 /\ b - 1 <= b /\ b - 1 \in 0..Len(surface)
    BY <1>2
  <2>2. b - m \in Good
    BY <1>6, <2>1
  <2>3. bal[b - 1] <= 0
    BY <2>1, <2>2 DEF Good
  <2> QED BY <1>1, <2>1, <2>3, BalancesTyped
<1>8. bal[b] = bal[b - 1] + eventDelta(EventAt(surface[b]))
  BY <1>1, <1>2, BalanceSteps
<1>9. SUFFICES ASSUME EventAt(surface[b]).type = "tool/result" PROVE FALSE
  OBVIOUS
<1>10. eventDelta(EventAt(surface[b])) = -1
  BY <1>2, <1>9, DeltasTyped
<1> QED BY <1>3, <1>7, <1>8, <1>10

\* So a region that ends at a balanced cut takes both halves of a pair or none.
LEMMA RangeIsWhole ==
  ASSUME LogTyped, CallsNumbered, PairsTight, ~CorruptSurface,
         NEW k \in DOMAIN surface, selectCompactableRange(k) # <<>>
  PROVE  TakesWhole(selectCompactableRange(k))
<1> DEFINE first == FirstCompactable
           cuts == {i \in (first + 1)..k : balancedBefore(i)}
           region == SubSeq(surface, first, Max(cuts) - 1)
<1>1. surface \in Seq(Nat) /\ Len(surface) \in Nat /\ k \in 1..Len(surface) /\ LP!Distinct(surface)
  BY DEF LogTyped
<1>2. first \in {1, 2}
  BY DEF FirstCompactable
<1>3. selectCompactableRange(k) = IF cuts = {} THEN <<>> ELSE region
  BY DEF selectCompactableRange
<1> HIDE DEF first
<1>4. cuts # {} /\ selectCompactableRange(k) = region
  BY <1>3
<1>5. cuts \subseteq 1..Len(surface) /\ cuts \subseteq (first + 1)..k
  BY <1>1, <1>2
<1>6. \A x \in cuts : balancedBefore(x)
  OBVIOUS
<1> HIDE DEF cuts
<1>7. PICK m : m = Max(cuts)
  OBVIOUS
<1>8. m \in (first + 1)..k /\ balancedBefore(m)
  BY <1>1, <1>4, <1>5, <1>6, <1>7, MaxIsIn
<1>9. m \in Int /\ first < m /\ m <= Len(surface) /\ first \in Int
  BY <1>1, <1>2, <1>8
<1>10. /\ Len(region) = m - first /\ DOMAIN region = 1..(m - first)
       /\ \A i \in 1..(m - first) : region[i] = surface[first + i - 1]
  <2>1. first \in Int /\ m - 1 \in Int /\ \A i \in first..(m - 1) : surface[i] \in Nat
    BY <1>1, <1>2, <1>9
  <2>2. /\ region \in Seq(Nat)
        /\ Len(region) = IF first <= m - 1 THEN (m - 1) - first + 1 ELSE 0
        /\ \A i \in 1..((m - 1) - first + 1) : region[i] = surface[first + i - 1]
    BY <1>7, <2>1, CompactionAssumption, LP!SubSeqProperties
  <2> HIDE DEF region
  <2>3. first <= m - 1 /\ (m - 1) - first + 1 = m - first
    BY <1>9
  <2> QED BY <2>2, <2>3
<1> HIDE DEF region
<1>11. ASSUME NEW s PROVE s \in ToSet(region) <=> \E a \in first..(m - 1) : surface[a] = s
  <2>1. ASSUME NEW i \in DOMAIN region, region[i] = s
        PROVE  \E a \in first..(m - 1) : surface[a] = s
    <3>1. i \in 1..(m - first) /\ first + i - 1 \in first..(m - 1)
      BY <1>9, <1>10, <2>1
    <3> QED BY <1>10, <2>1, <3>1
  <2>2. ASSUME NEW a \in first..(m - 1), surface[a] = s
        PROVE  \E i \in DOMAIN region : region[i] = s
    <3>1. a - first + 1 \in 1..(m - first) /\ first + (a - first + 1) - 1 = a
      BY <1>9
    <3>2. region[a - first + 1] = surface[first + (a - first + 1) - 1]
      BY <1>10, <3>1
    <3> QED BY <1>10, <2>2, <3>1, <3>2
  <2> QED BY <2>1, <2>2 DEF ToSet
<1>12. first..(m - 1) \subseteq DOMAIN surface
  BY <1>1, <1>2, <1>9
<1>13. ASSUME NEW i \in DOMAIN log, NEW j \in DOMAIN log, Pair(i, j)
       PROVE  (i - 1) \in ToSet(region) <=> (j - 1) \in ToSet(region)
  <2>1. CASE (i - 1) \notin Shown /\ (j - 1) \notin Shown
    BY <1>11, <1>12, <2>1 DEF Shown, ToSet
  <2>2. CASE ~((i - 1) \notin Shown /\ (j - 1) \notin Shown)
    <3>1. PICK a \in DOMAIN surface, b \in DOMAIN surface :
            /\ a < b /\ surface[a] = i - 1 /\ surface[b] = j - 1
            /\ \A c \in (a + 1)..b : EventAt(surface[c]).type # "assistant/message"
      BY <1>13, <2>2 DEF PairsTight, Tight
    <3>2. /\ (i - 1) \in ToSet(region) <=> a \in first..(m - 1)
          /\ (j - 1) \in ToSet(region) <=> b \in first..(m - 1)
      BY <1>1, <1>11, <1>12, <3>1 DEF LP!Distinct
    <3>3. a \in Int /\ b \in Int /\ a >= 1 /\ b <= Len(surface)
      BY <1>1
    <3>4. first <= a
      <4>1. SUFFICES ASSUME first = 2, a = 1 PROVE FALSE
        BY <1>2, <3>3
      <4>2. EventAt(surface[1]).type = "system/message"
        BY <4>1 DEF first, FirstCompactable
      <4>3. EventAt(surface[1]) = log[i]
        <5>1. i \in Int
          BY DEF LogTyped
        <5>2. surface[1] + 1 = i
          BY <3>1, <4>1, <5>1
        <5> QED BY <5>2 DEF EventAt
      <4>4. log[i].type = "assistant/message"
        BY <1>13 DEF Pair, CallsNumbered
      <4> QED BY <4>2, <4>3, <4>4
    <3>5. ~(a <= m - 1 /\ b > m - 1)
      <4>1. SUFFICES ASSUME a <= m - 1, b > m - 1 PROVE FALSE
        OBVIOUS
      <4>2. m \in 1..b
        BY <1>2, <1>9, <3>3, <4>1
      <4>3. \A c \in m..b : c \in (a + 1)..b
        BY <1>9, <3>3, <4>1
      <4>4. EventAt(surface[b]).type # "tool/result"
        BY <1>8, <3>1, <4>2, <4>3, BalanceFalls
      <4>5. EventAt(surface[b]) = log[j]
        <5>1. j \in Int
          BY DEF LogTyped
        <5>2. surface[b] + 1 = j
          BY <3>1, <5>1
        <5> QED BY <5>2 DEF EventAt
      <4> QED BY <1>13, <4>4, <4>5 DEF Pair
    <3> QED BY <1>9, <3>1, <3>2, <3>3, <3>4, <3>5
  <2> QED BY <2>1, <2>2
<1> QED BY <1>4, <1>13 DEF TakesWhole

-----------------------------------------------------------------------------
(* The engine beside the calls.                                            *)

\* Only Enter chooses, and what it saw is still so.
LEMMA ChosenAtEnter ==
  ASSUME LogTyped, ControlTyped, Holders, EngineStep, Chooses
  PROVE  /\ engine'.by = engine.by
         /\ engine.by = "manual" => ~OpenTurn
         /\ \E k \in DOMAIN surface :
              /\ ~CorruptSurface /\ selectCompactableRange(k) # <<>>
              /\ engine'.region = selectCompactableRange(k)
<1>1. engine \in Engines /\ engine.stage = "enter" /\ engine'.stage = "begin"
  BY DEF ControlTyped, Chooses
<1>2. Enter
  <2>1. engine.by # "none"
    BY <1>1 DEF Holders
  <2> QED BY <1>1, <2>1
       DEF EngineStep, TurnLocks, CommandLocks, Begin, CompactionStart, Snapshot, Summarize, Fail,
           CommitSummary, CommitReplace, CommitEnd
<1>3. ~Leaves(FALSE)
  BY <1>1, Unlocks DEF Leaves
<1>4. /\ engine.trigger = "overflow" \/ ~Busy
      /\ \E k \in TailStarts(engine.trigger) :
           /\ ~CorruptSurface /\ selectCompactableRange(k) # <<>>
           /\ engine' = [engine EXCEPT !.stage = "begin", !.region = selectCompactableRange(k)]
  BY <1>2, <1>3 DEF Enter
<1>5. PICK k \in TailStarts(engine.trigger) :
        /\ ~CorruptSurface /\ selectCompactableRange(k) # <<>>
        /\ engine' = [engine EXCEPT !.stage = "begin", !.region = selectCompactableRange(k)]
  BY <1>4
<1>6. k \in DOMAIN surface
  <2>1. surface \in Seq(Nat) /\ Len(surface) \in Nat /\ DOMAIN surface = 1..Len(surface)
    BY DEF LogTyped
  <2> QED BY <2>1 DEF TailStarts
<1>7. PICK region : region = selectCompactableRange(k)
  OBVIOUS
<1>8. engine'.by = engine.by /\ engine'.region = region
  <2>1. engine' = [engine EXCEPT !.stage = "begin", !.region = region]
    BY <1>5, <1>7
  <2> QED BY <1>1, <2>1 DEF Engines
<1>9. engine.by = "manual" => ~OpenTurn
  BY <1>4 DEF Holders, Busy
<1> QED BY <1>5, <1>6, <1>7, <1>8, <1>9

\* The log is what it was, or has one entry more that makes no call and
\* answers none.
Sober == log' = log \/ \E e \in Entries : log' = Append(log, e) /\ Neutral(e)

LEMMA OthersAreSober ==
  ASSUME LogTyped, ControlTyped, RegionLies,
         \/ Prompt \/ Compact \/ Notice \/ EngineStep
         \/ TurnStep /\ turn.pc \notin {"stream", "tools"}
  PROVE  Sober
<1>1. CASE CommitReplace
  <2>1. /\ engine.region \in Seq(Nat) /\ Lies(engine.region, surface)
        /\ AppendEvent(Checkpoint(engine.region))
    BY <1>1 DEF ControlTyped, Engines, RegionLies, CommitReplace
  <2>2. PICK e : e = Checkpoint(engine.region)
    OBVIOUS
  <2>3. e \in Entries /\ e.type = "user/message" /\ Bare(e) /\ log' = Append(log, e)
    BY <2>1, <2>2, CheckpointTyped, ReplaceTo DEF Lies
  <2> QED BY <2>3 DEF Sober, Neutral
<1>2. CASE Quiet
  BY <1>2 DEF Quiet, Sober
<1>3. CASE ~Quiet /\ ~CommitReplace
  <2>1. PICK e \in Entries : Plain(e) /\ AppendEvent(e) /\ Neutral(e)
    <3>1. CASE TurnStep /\ turn.pc \notin {"stream", "tools"}
      <4>1. ~StreamAnswers /\ ~ToolReturns
        BY <3>1 DEF StreamAnswers, ToolReturns
      <4> QED BY <1>3, <3>1, <4>1, TurnAppends
    <3>2. CASE Prompt \/ Compact \/ Notice \/ EngineStep
      BY <1>3, <3>2, EngineAppends DEF EngineStep
    <3> QED BY <3>1, <3>2
  <2>2. log' = Append(log, e)
    BY <2>1, Appended DEF Plain, Adds
  <2> QED BY <2>1, <2>2 DEF Sober
<1> QED BY <1>1, <1>2, <1>3

LEMMA SoberKeeps ==
  ASSUME LogTyped, Sober
  PROVE  /\ \A i \in DOMAIN log' : log'[i].calls # <<>> /\ Current(i)' =>
              i \in DOMAIN log /\ log'[i] = log[i] /\ Current(i)
         /\ \A i, j \in DOMAIN log' : Pair(i, j)' => i \in DOMAIN log /\ j \in DOMAIN log /\ Pair(i, j)
<1>1. /\ Len(log) \in Nat /\ DOMAIN log = 1..Len(log) /\ Len(log) <= Len(log')
      /\ DOMAIN log' = 1..Len(log') /\ Len(log') \in Nat
      /\ \A i \in DOMAIN log : i \in DOMAIN log' /\ log'[i] = log[i]
      /\ \A i \in DOMAIN log' : i \in DOMAIN log \/ Neutral(log'[i])
  <2>1. log \in Seq(Entries)
    BY DEF LogTyped
  <2>2. CASE log' = log
    BY <2>1, <2>2
  <2>3. ASSUME NEW e \in Entries, log' = Append(log, e), Neutral(e)
        PROVE  /\ Len(log) \in Nat /\ DOMAIN log = 1..Len(log) /\ Len(log) <= Len(log')
               /\ DOMAIN log' = 1..Len(log') /\ Len(log') \in Nat
               /\ \A i \in DOMAIN log : i \in DOMAIN log' /\ log'[i] = log[i]
               /\ \A i \in DOMAIN log' : i \in DOMAIN log \/ Neutral(log'[i])
    <3>1. /\ Len(log) \in Nat /\ DOMAIN log = 1..Len(log) /\ Len(log') = Len(log) + 1
          /\ DOMAIN log' = 1..(Len(log) + 1) /\ \A i \in DOMAIN log : log'[i] = log[i]
          /\ log'[Len(log) + 1] = e
      BY <2>1, <2>3
    <3> QED BY <2>3, <3>1
  <2> QED BY <2>2, <2>3 DEF Sober
<1>2. ASSUME NEW i \in DOMAIN log', log'[i].calls # <<>>, Current(i)'
      PROVE  i \in DOMAIN log /\ log'[i] = log[i] /\ Current(i)
  <2>1. i \in DOMAIN log /\ log'[i] = log[i]
    BY <1>1, <1>2 DEF Neutral, Bare
  <2>2. \A k \in (i + 1)..Len(log) : k \in (i + 1)..Len(log') /\ log'[k] = log[k]
    BY <1>1, <2>1
  <2> QED BY <1>2, <2>1, <2>2 DEF Current
<1>3. ASSUME NEW i \in DOMAIN log', NEW j \in DOMAIN log', Pair(i, j)'
      PROVE  i \in DOMAIN log /\ j \in DOMAIN log /\ Pair(i, j)
  <2>1. /\ log'[j].type = "tool/result" /\ log'[j].call \in ToSet(log'[i].calls)
        /\ \A k \in 1..(j - 1) : log'[k].call # log'[j].call
    BY <1>3 DEF Pair
  <2>2. ToSet(<<>>) = {}
    BY DEF ToSet
  <2>3. i \in DOMAIN log /\ j \in DOMAIN log
    BY <1>1, <2>1, <2>2 DEF Neutral, Bare
  <2>4. \A k \in 1..(j - 1) : k \in DOMAIN log
    BY <1>1, <2>3
  <2> QED BY <1>1, <2>1, <2>3, <2>4 DEF Pair
<1> QED BY <1>2, <1>3

LEMMA NoCallsBesideKept ==
  ASSUME LogTyped, ControlTyped, Holders, RegionLies, TurnIsOpen, CallsInTurn, NoCallsBeside, Next
  PROVE  NoCallsBeside'
<1>1. CASE Resume
  BY <1>1, Unlocks DEF Resume, NoCallsBeside
<1>2. ASSUME ~Resume, engine'.by = "manual", engine'.stage \notin {"off", "enter"}
      PROVE  /\ turn'.pc \notin {"stream", "tools", "overflow"}
             /\ \A i \in DOMAIN log' : Current(i)' => log'[i].calls = <<>>
  <2>1. CASE TurnStep \/ Prompt \/ Compact \/ Notice
    <3>1. engine' = engine
      BY <2>1, TurnComes, OthersLeaveTheTurn
    <3>2. /\ turn.pc \notin {"stream", "tools", "overflow"}
          /\ \A i \in DOMAIN log : Current(i) => log[i].calls = <<>>
      BY <1>2, <3>1 DEF NoCallsBeside
    <3>3. turn'.pc \notin {"stream", "tools", "overflow"}
      <4>1. CASE TurnStep
        BY <3>2, <4>1, TurnComes
      <4>2. CASE Prompt \/ Compact \/ Notice
        BY <3>2, <4>2, OthersLeaveTheTurn
      <4> QED BY <2>1, <4>1, <4>2
    <3>4. Sober
      BY <2>1, <3>2, OthersAreSober
    <3> QED BY <3>2, <3>3, <3>4, SoberKeeps
  <2>2. CASE EngineStep
    <3>1. CASE Chooses
      <4>1. ~OpenTurn /\ Quiet /\ turn' = turn
        BY <1>2, <2>2, <3>1, ChosenAtEnter DEF Chooses
      <4>2. \A i \in DOMAIN log : Current(i) => log[i].calls = <<>>
        BY <4>1 DEF CallsInTurn
      <4>3. Sober
        BY <4>1 DEF Quiet, Sober
      <4> QED BY <4>1, <4>2, <4>3, SoberKeeps DEF TurnIsOpen, InTurn
    <3>2. CASE Settles
      BY <1>2, <3>2 DEF Settles
    <3>3. CASE Proceeds
      <4>1. engine.by = "manual" /\ engine.stage \notin {"off", "enter"} /\ turn' = turn
        BY <1>2, <3>3 DEF Proceeds, Working
      <4>2. Sober
        BY <2>2, OthersAreSober
      <4> QED BY <4>1, <4>2, SoberKeeps DEF NoCallsBeside
    <3> QED BY <2>2, <3>1, <3>2, <3>3, EngineTo
  <2> QED BY <1>2, <2>1, <2>2 DEF Next
<1> QED BY <1>1, <1>2 DEF NoCallsBeside

LEMMA RegionWholeKept ==
  ASSUME LogTyped, ControlTyped, Holders, RegionLies, CallsNumbered, PairsTight, NoCallsBeside,
         RegionWhole, Next
  PROVE  RegionWhole'
<1>1. CASE Resume
  BY <1>1, Unlocks DEF Resume, RegionWhole
<1>2. ASSUME NEW region, TakesWhole(region), Sober PROVE TakesWhole(region)'
  BY <1>2, SoberKeeps DEF TakesWhole
<1>3. CASE TurnStep \/ Prompt \/ Compact \/ Notice
  <2>1. engine' = engine
    BY <1>3, TurnComes, OthersLeaveTheTurn
  <2>2. SUFFICES ASSUME engine.stage \notin {"off", "enter", "end"} PROVE TakesWhole(engine.region)'
    BY <2>1 DEF RegionWhole
  <2>3. turn.pc \notin {"stream", "tools"}
    BY <2>2 DEF Holders, ControlTyped, Engines, NoCallsBeside
  <2>4. Sober
    BY <1>3, <2>3, OthersAreSober
  <2>5. PICK region : region = engine.region /\ TakesWhole(region)
    BY <2>2 DEF RegionWhole
  <2>6. TakesWhole(region)'
    BY <1>2, <2>4, <2>5
  <2> QED BY <2>1, <2>5, <2>6 DEF TakesWhole
<1>4. CASE EngineStep
  <2>1. CASE Chooses
    <3>1. PICK k \in DOMAIN surface : /\ ~CorruptSurface /\ selectCompactableRange(k) # <<>>
                                      /\ engine'.region = selectCompactableRange(k)
      BY <1>4, <2>1, ChosenAtEnter
    <3>2. PICK region : region = selectCompactableRange(k) /\ TakesWhole(region)
      BY <3>1, RangeIsWhole
    <3>3. TakesWhole(region)'
      BY <1>2, <2>1, <3>2 DEF Chooses, Quiet, Sober
    <3> QED BY <3>1, <3>2, <3>3 DEF RegionWhole, TakesWhole
  <2>2. CASE Settles
    BY <2>2 DEF Settles, RegionWhole
  <2>3. CASE Proceeds
    <3>1. PICK region : region = engine.region
      OBVIOUS
    <3>2. engine'.region = region /\ engine.stage \notin {"off", "enter", "end"}
      BY <2>3, <3>1 DEF Proceeds, Working
    <3>3. TakesWhole(region)'
      BY <1>2, <1>4, <3>1, <3>2, OthersAreSober DEF RegionWhole
    <3> QED BY <3>2, <3>3 DEF RegionWhole, TakesWhole
  <2> QED BY <1>4, <2>1, <2>2, <2>3, EngineTo
<1> QED BY <1>1, <1>3, <1>4 DEF Next

LEMMA PairsInvariance == Spec => []PInv
<1>1. Init => PInv
  <2> SUFFICES ASSUME Init PROVE PInv
    OBVIOUS
  <2>1. /\ DOMAIN log = {} /\ turn.pc = "off" /\ engine.stage = "off"
    BY DEF Init, NoTurn, Unlocked
  <2> QED BY <2>1
       DEF PInv, CallsNumbered, Running, RunningAreLast, OpenAnswered, CallsInTurn, NoCallsBeside,
           PairsTight, RegionWhole
<1>2. IInv /\ PInv /\ [Next]_vars => PInv'
  <2> SUFFICES ASSUME IInv, PInv, [Next]_vars PROVE PInv'
    OBVIOUS
  <2>1. CASE Next
    <3>1. CInv
      BY DEF PInv, CInv
    <3>2. CInv'
      BY <2>1, <3>1, OthersKeepCalls, AnswersKeep, ReturnsKeep, ReplaceKeepsCalls, ResumeKeepsCalls
      DEF IInv, PInv
    <3>3. NoCallsBeside' /\ RegionWhole'
      BY <2>1, NoCallsBesideKept, RegionWholeKept DEF IInv, PInv
    <3> QED BY <3>2, <3>3 DEF PInv, CInv
  <2>2. CASE UNCHANGED vars
    BY <2>2 DEF vars, PInv, CallsNumbered, Running, RunningAreLast, LastAsked, EventAt,
         OpenAnswered, Current, Answered, GivenUp, CallsInTurn, OpenTurn, Unmatched, NoCallsBeside,
         PairsTight, Pair, Tight, Shown, RegionWhole, TakesWhole
  <2> QED BY <2>1, <2>2
<1> QED BY <1>1, <1>2, Invariance, PTL DEF Spec

-----------------------------------------------------------------------------
(* Theorems.                                                               *)

\* Log, surface, turn, command and engine stay in their types, and the mutex
\* of the engine is held by the one goroutine that is in it.
THEOREM CompactionTypeCorrect == Spec => []TypeOK
<1>1. IInv => TypeOK
  <2> SUFFICES ASSUME IInv PROVE TypeOK
    OBVIOUS
  <2>1. /\ surface \in Seq(Nat) /\ Len(log) \in Nat /\ Len(log) <= MaxEvents
        /\ \A i \in DOMAIN surface : surface[i] < Len(log)
    BY DEF IInv, LogTyped
  <2>2. ToSet(surface) \subseteq 0..(Len(log) - 1)
    BY <2>1 DEF ToSet
  <2>3. ControlTyped /\ Holders
    BY DEF IInv
  <2> QED BY <2>1, <2>2, <2>3 DEF TypeOK, ControlTyped, Holders, Turns, TurnPlaces, Engines
<1> QED BY <1>1, Invariance, PTL

\* What the surface no longer shows is covered by a summary in the log,
\* although the surface may have grown between the choice of the region and
\* its replace, and a crash may have fallen between any two events.
THEOREM HiddenIsSummarized == Spec => []HiddenWasSummarized
<1>1. IInv => HiddenWasSummarized
  BY DEF IInv
<1> QED BY <1>1, Invariance, PTL

\* As long as no crash came between, the log has a compaction open exactly
\* while the engine is in one: no way out of the engine leaves the lock.
THEOREM EveryStartGetsItsEnd == Spec => []ActiveIsInEngine
<1>1. IInv => ActiveIsInEngine
  BY DEF IInv
<1> QED BY <1>1, Invariance, PTL

\* From the request of a step to the last result of its calls no message
\* leaves the surface: a command that is let into its compaction has seen no
\* turn open, and a turn that opens later waits for the mutex before a step.
THEOREM ContextIsKept == Spec => StepsKeepTheirContext
<1>1. ASSUME IInv, Next, turn.pc \in {"stream", "tools"}
      PROVE  Shown \subseteq Shown' \/ spent.crashes' # spent.crashes
  <2>1. CASE Grows
    BY <1>1, <2>1, GrowsKeeps DEF IInv
  <2>2. CASE Resume
    <3>1. spent.crashes \in Nat /\ spent' = [spent EXCEPT !.crashes = @ + 1]
      BY <1>1, <2>2 DEF IInv, ControlTyped, Resume
    <3>2. spent'.crashes = spent.crashes + 1
      BY <1>1, <3>1 DEF IInv, ControlTyped
    <3> QED BY <3>1, <3>2
  <2>3. CASE CommitReplace
    BY <1>1, <2>3 DEF CommitReplace, IInv, ControlTyped, Engines, Holders, CommandApart
  <2> QED BY <1>1, <2>1, <2>2, <2>3, StepGrows DEF IInv
<1>2. UNCHANGED vars => Shown' = Shown
  BY DEF vars, Shown
<1>3. IInv /\ [Next]_vars =>
        [turn.pc \in {"stream", "tools"} =>
           Shown \subseteq Shown' \/ spent.crashes' # spent.crashes]_vars
  BY <1>1, <1>2
<1> QED BY <1>3, Invariance, PTL DEF Spec, StepsKeepTheirContext

\* The system message at the head of the surface stays there whatever is
\* compacted after it (engine.go:16, selectCompactableRange).
THEOREM HeadIsNeverCompacted == Spec => SystemHeadStays
<1>1. ASSUME IInv, Next, FirstCompactable = 2
      PROVE  surface'[1] = surface[1]
  <2>1. surface # <<>>
    BY <1>1 DEF FirstCompactable
  <2>2. CASE Grows \/ Resume
    BY <1>1, <2>1, <2>2, HeadStays DEF IInv
  <2>3. CASE CommitReplace
    <3>1. /\ engine.region \in Seq(Nat) /\ Lies(engine.region, surface)
          /\ surface[1] \notin ToSet(engine.region)
      BY <1>1, <2>3 DEF IInv, ControlTyped, Engines, RegionLies, HeadApart, Spares, CommitReplace
    <3>2. PICK p \in DOMAIN surface, q \in DOMAIN surface :
            /\ p <= q
            /\ \A i \in p..q : surface[i] \in ToSet(engine.region)
            /\ LP!Covers(surface, p, q, Len(log), surface')
      BY <1>1, <2>3, <3>1, ReplaceTo DEF IInv, CommitReplace
    <3>3. p \in 1..Len(surface) /\ q \in 1..Len(surface) /\ Len(surface) \in Nat
      BY <1>1 DEF IInv, LogTyped
    <3>4. p # 1
      BY <3>1, <3>2, <3>3
    <3>5. 1 \in 1..(p - 1)
      BY <3>3, <3>4
    <3> QED BY <3>2, <3>5 DEF LP!Covers
  <2> QED BY <1>1, <2>2, <2>3, StepGrows DEF IInv
<1>2. IInv /\ [Next]_vars => [FirstCompactable = 2 => surface'[1] = surface[1]]_vars
  BY <1>1
<1> QED BY <1>2, Invariance, PTL DEF Spec, SystemHeadStays

\* A call and the first result it got are shown together or hidden together,
\* whatever a turn, a /compact command, a crash and its repair do in between:
\* a region ends where every call before the cut has its result.
THEOREM PairsAreKeptWhole == Spec => []PairsStayWhole
<1>1. LogTyped /\ PairsTight => PairsStayWhole
  <2> SUFFICES ASSUME LogTyped, PairsTight PROVE PairsStayWhole
    OBVIOUS
  <2>1. ASSUME NEW i \in DOMAIN log, NEW j \in DOMAIN log, Pair(i, j)
        PROVE  (i - 1) \in Shown <=> (j - 1) \in Shown
    <3>1. Tight(i, j)
      BY <2>1 DEF PairsTight
    <3> QED BY <3>1 DEF Tight, Shown, ToSet
  <2> QED BY <2>1 DEF PairsStayWhole, Pair
<1>2. IInv /\ PInv => PairsStayWhole
  BY <1>1 DEF IInv, PInv
<1> QED BY <1>2, Invariance, PairsInvariance, PTL
=============================================================================
