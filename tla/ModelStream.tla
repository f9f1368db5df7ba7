------------------------------ MODULE ModelStream ------------------------------
(***************************************************************************)
(* One model call (internal/llm/openai.go, internal/agent/assembler.go and *)
(* the stream record of internal/session/types.go): the provider sends     *)
(* wire chunks, scanSSE reads the body and offers one event at a time, the *)
(* pump translates events into chunks on a channel, and the agent's step   *)
(* assembles them.  The provider, the two goroutines, the step and the     *)
(* cancel of the turn interleave freely.                                   *)
(*                                                                         *)
(* Text, reasoning and arguments are pieces: the piece of the n-th wire    *)
(* chunk is n.  A call's id stands for its id and its name, which are      *)
(* treated alike; "" is the id a wire chunk leaves out.                    *)
(***************************************************************************)
EXTENDS Integers, Sequences, FiniteSets, SequencesExt

CONSTANTS
  WireChunks,  (* what a wire chunk may say                                     *)
  MaxWire,     (* bound: wire chunks of one answer                              *)
  OutCap       (* capacity of the chunk channel: 64 in the code                 *)

ASSUME StreamAssumption ==
  /\ MaxWire \in Nat /\ OutCap \in Nat \ {0}
  /\ WireChunks \subseteq [reasoning : BOOLEAN, text : BOOLEAN, finish : STRING, usage : BOOLEAN,
                          calls : Seq([index : Nat, id : STRING])]

VARIABLES
  wire,        (* wire chunks sent so far                                       *)
  scan,        (* scanSSE: "off", "read", "line", "offer", "ended"              *)
  event,       (* the event scanSSE offers on the unbuffered channel lines      *)
  pump,        (* the pump: "request", "wait", "send", "last", "closed"         *)
  todo,        (* chunks the pump is about to send                              *)
  st,          (* its translator: blocks, usage and finish reason               *)
  out,         (* the channel of chunks                                         *)
  cancelled,   (* Agent.Signal                                                  *)
  got,         (* history: chunks the step has received                         *)
  asm,         (* its assembler                                                 *)
  items,       (* its stream record                                             *)
  outcome,     (* what the step made of the stream                              *)
  kept         (* the content blocks it made of it                              *)

vars == <<wire, scan, event, pump, todo, st, out, cancelled, got, asm, items, outcome, kept>>

NoEvent == [kind |-> "none"]

-----------------------------------------------------------------------------
(* Chunks.                                                                 *)

Start(i, kind) == [type |-> "block-start", index |-> i, kind |-> kind]
\* x is the index the wire gave the call, 0 where there is none.
Delta(i, kind, n, id, x) ==
  [type |-> "delta", index |-> i, kind |-> kind, piece |-> n, id |-> id, wire |-> x]
End(i, block) == [type |-> "block-end", index |-> i, block |-> block]
Usage == [type |-> "usage"]
Finish(reason) == [type |-> "finish", finish |-> reason]

Block(kind, id, buf) == [kind |-> kind, id |-> id, buf |-> buf]

-----------------------------------------------------------------------------
(* translator: what a wire chunk adds to the blocks, and the chunks it     *)
(* makes.  A block's index is its place in the sequence.                   *)

NoTranslation == [blocks |-> <<>>, wires |-> <<>>, usage |-> FALSE, finish |-> "none"]

\* Mutant: a later id replaces an earlier one.
acceptLastIdentity(current, incoming) == IF incoming # "" THEN incoming ELSE current

\* Only the first id that is not empty counts.
acceptIdentity(current, incoming) == IF current # "" THEN current ELSE incoming

\* Only the delta of a call names an index on the wire.
toolCallIndex(kind, wireIndex) == IF kind = "tool-call" THEN wireIndex ELSE 0

\* Piece n goes to block i, which is opened when it is not there yet.
Write(s, i, kind, wireIndex, n, id) ==
  LET new == i > Len(s.tr.blocks)
      blocks == IF new THEN Append(s.tr.blocks, Block(kind, "", <<>>)) ELSE s.tr.blocks
      wires == IF new THEN Append(s.tr.wires, wireIndex) ELSE s.tr.wires
      named == acceptIdentity(blocks[i].id, id)
  IN  [tr |-> [s.tr EXCEPT
                 !.blocks = [blocks EXCEPT ![i].id = named, ![i].buf = Append(@, n)],
                 !.wires = wires],
       out |-> s.out \o (IF new THEN <<Start(i, kind)>> ELSE <<>>)
                     \o <<Delta(i, kind, n, named, toolCallIndex(kind, wireIndex))>>]

\* Text and reasoning go on in the last block or open one.
extend(s, kind, n) ==
  LET last == Len(s.tr.blocks)
  IN  Write(s, IF last > 0 /\ s.tr.blocks[last].kind = kind THEN last ELSE last + 1,
            kind, -1, n, "")

\* Calls are told apart by their index on the wire.
WriteCall(s, call, n) ==
  LET known == {i \in DOMAIN s.tr.wires : s.tr.wires[i] = call.index}
      i == IF known # {} THEN CHOOSE k \in known : TRUE ELSE Len(s.tr.blocks) + 1
  IN  Write(s, i, "tool-call", call.index, n, call.id)

mapFinishReason(reason) ==
  CASE reason = "tool_calls" -> "tool-calls"
    [] reason = "length" -> "max-tokens"
    [] reason \in {"stop", ""} -> "stop"
    [] OTHER -> "error"

WriteCalls(s, calls, n) ==
  LET after[k \in 0..Len(calls)] ==
        IF k = 0 THEN s ELSE WriteCall(after[k - 1], calls[k], n)
  IN  after[Len(calls)]

\* A wire chunk has one choice: the request asks for no more (wireRequest,
\* openai.go:147-161, has no n), so the loop over choices runs once.
push(tr, w, n) ==
  LET s0 == [tr |-> tr, out |-> <<>>]
      s1 == IF w.reasoning THEN extend(s0, "reasoning", n) ELSE s0
      s2 == IF w.text THEN extend(s1, "text", n) ELSE s1
      s3 == WriteCalls(s2, w.calls, n)
  IN  [s3 EXCEPT !.tr.finish = IF w.finish = "none" THEN @ ELSE mapFinishReason(w.finish),
                 !.tr.usage = @ \/ w.usage]

\* Mutant: usage is sent behind the finish.
finalizeUsageLast(tr) ==
  [i \in DOMAIN tr.blocks |-> End(i, tr.blocks[i])]
    \o <<Finish(IF tr.finish = "none" THEN "stop" ELSE tr.finish)>>
    \o (IF tr.usage THEN <<Usage>> ELSE <<>>)

\* All block ends, then usage, then the finish; nothing at all is an error.
finalize(tr) ==
  LET finish == IF tr.finish = "none" THEN "stop" ELSE tr.finish
  IN  [i \in DOMAIN tr.blocks |-> End(i, tr.blocks[i])]
        \o (IF tr.usage THEN <<Usage>> ELSE <<>>)
        \o <<Finish(IF tr.blocks = <<>> /\ finish = "stop" THEN "error" ELSE finish)>>

-----------------------------------------------------------------------------
(* assembler: fold the received chunks into content blocks.                *)

NoAssembly == [content |-> <<>>, open |-> <<>>, finish |-> "none"]

\* A delta goes on in its open block.
Extended(o, c) ==
  [o EXCEPT !.block = Block(@.kind, acceptIdentity(@.id, c.id), Append(@.buf, c.piece))]

\* delete(a.open, index)
Without(open, index) ==
  LET rest[n \in 0..Len(open)] ==
        IF n = 0 THEN <<>>
        ELSE IF open[n].index = index THEN rest[n - 1] ELSE Append(rest[n - 1], open[n])
  IN  rest[Len(open)]

\* open holds the blocks begun and not ended, oldest first.
Assemble(a, c) ==
  CASE c.type = "block-start" ->
         [a EXCEPT !.open = Append(@, [index |-> c.index, block |-> Block(c.kind, "", <<>>)])]
    [] c.type = "delta" ->
         [a EXCEPT !.open = [i \in DOMAIN a.open |->
            IF a.open[i].index = c.index THEN Extended(a.open[i], c) ELSE a.open[i]]]
    [] c.type = "block-end" ->
         [a EXCEPT !.content = Append(@, c.block),
                     !.open = Without(@, c.index)]
    [] c.type = "finish" -> [a EXCEPT !.finish = c.finish]
    [] OTHER -> a

Assembled(chunks) ==
  LET after[n \in 0..Len(chunks)] ==
        IF n = 0 THEN NoAssembly ELSE Assemble(after[n - 1], chunks[n])
  IN  after[Len(chunks)]

\* blocks() walks a map for the open blocks, so any order of those that got a
\* piece comes out.
blocks(a) ==
  LET begun == {i \in DOMAIN a.open : a.open[i].block.buf # <<>>}
  IN  {a.content \o [n \in DOMAIN p |-> a.open[p[n]].block] : p \in SetToSeqs(begun)}

-----------------------------------------------------------------------------
(* StreamAccumulator: runs of deltas of one block become one record.       *)

\* Mutant: runs of two calls are not told apart.
RunsOfKind(item, c) == item.type = "run" /\ c.kind = item.kind

SameRun(item, c) == item.type = "run" /\ c.kind = item.kind /\ c.index = item.index

AddToRun(item, c) ==
  [item EXCEPT !.pieces = Append(@, c.piece), !.id = acceptIdentity(@, c.id)]

Accumulate(rec, c) ==
  LET last == Len(rec)
  IN  IF c.type # "delta" THEN Append(rec, [type |-> "chunk", chunk |-> c])
      ELSE IF last > 0 /\ SameRun(rec[last], c)
      THEN [rec EXCEPT ![last] = AddToRun(@, c)]
      ELSE Append(rec, [type |-> "run", kind |-> c.kind, index |-> c.index,
                          pieces |-> <<c.piece>>, id |-> c.id])

ExpandAssistantStream(rec) ==
  FlattenSeq([i \in DOMAIN rec |->
    IF rec[i].type = "chunk" THEN <<rec[i].chunk>>
    ELSE [k \in DOMAIN rec[i].pieces |->
            Delta(rec[i].index, rec[i].kind, rec[i].pieces[k], rec[i].id, 0)]])

-----------------------------------------------------------------------------
Init ==
  /\ wire = <<>>
  /\ scan = "off" /\ event = NoEvent
  /\ pump = "request" /\ todo = <<>> /\ st = NoTranslation
  /\ out = <<>> /\ cancelled = FALSE
  /\ got = <<>> /\ asm = NoAssembly /\ items = <<>> /\ outcome = "none" /\ kept = <<>>

\* Stream: the request fails, or its response starts the two goroutines.
Request ==
  /\ pump = "request" /\ outcome = "none"
  /\ \/ outcome' = "error" /\ UNCHANGED <<pump, scan>>
     \/ pump' = "wait" /\ scan' = "read" /\ UNCHANGED outcome
  /\ UNCHANGED <<wire, event, todo, st, out, cancelled, got, asm, items, kept>>

-----------------------------------------------------------------------------
(* scanSSE and the provider: an event is sent when scanSSE reads it.       *)

Offer(e) == event' = e /\ scan' = "offer"

\* A wire chunk, the sentinel [DONE], the end of the body, or a payload that
\* is no JSON.
ScanReads ==
  /\ scan = "read" /\ pump # "closed"
  /\ \/ /\ Len(wire) < MaxWire
        /\ \E w \in WireChunks : wire' = Append(wire, w)
        /\ Offer([kind |-> "data"])
     \/ \E kind \in {"done", "eof", "junk"} : Offer([kind |-> kind]) /\ UNCHANGED wire
  /\ UNCHANGED <<pump, todo, st, out, cancelled, got, asm, items, outcome, kept>>

\* A comment, or any other line that brings no event: scanSSE goes round its
\* loop, ...
ScanHears ==
  /\ scan = "read" /\ pump # "closed"
  /\ scan' = "line"
  /\ UNCHANGED <<wire, event, pump, todo, st, out, cancelled, got, asm, items, outcome, kept>>

\* ... and waits for the next line with a timer that starts anew.
ScanRenews ==
  /\ scan = "line"
  /\ scan' = "read"
  /\ UNCHANGED <<wire, event, pump, todo, st, out, cancelled, got, asm, items, outcome, kept>>

\* A cancelled request and a closed body break the read.
ScanBreaks ==
  /\ scan = "read" /\ (cancelled \/ pump = "closed")
  /\ Offer([kind |-> "eof"])
  /\ UNCHANGED <<wire, pump, todo, st, out, cancelled, got, asm, items, outcome, kept>>

\* Mutant: the timer runs until the first event only.
ScanIdlesBefore ==
  /\ scan = "read" /\ wire = <<>>
  /\ Offer([kind |-> "idle"])
  /\ UNCHANGED <<wire, pump, todo, st, out, cancelled, got, asm, items, outcome, kept>>

\* Nothing came for as long as the idle timer allows.
ScanIdles ==
  /\ scan = "read"
  /\ Offer([kind |-> "idle"])
  /\ UNCHANGED <<wire, pump, todo, st, out, cancelled, got, asm, items, outcome, kept>>

\* What scanSSE does of itself.
ScanAlone == ScanRenews \/ ScanBreaks \/ ScanIdles

-----------------------------------------------------------------------------
(* The pump.                                                               *)

\* It takes the event scanSSE offers; an event that ends the body ends scanSSE.
PumpTakes ==
  /\ pump = "wait" /\ scan = "offer"
  /\ event' = NoEvent
  /\ scan' = IF event.kind \in {"done", "eof", "idle"} THEN "ended" ELSE "read"
  /\ CASE event.kind = "data" ->
            \E s \in {push(st, Last(wire), Len(wire))} :
              st' = s.tr /\ todo' = s.out /\ pump' = IF s.out = <<>> THEN "wait" ELSE "send"
       [] event.kind = "done" -> todo' = finalize(st) /\ pump' = "last" /\ UNCHANGED st
       [] OTHER -> todo' = <<Finish("error")>> /\ pump' = "last" /\ UNCHANGED st
  /\ UNCHANGED <<wire, out, cancelled, got, asm, items, outcome, kept>>

PumpSeesCancel ==
  /\ pump = "wait" /\ cancelled
  /\ todo' = <<Finish("aborted")>>
  /\ pump' = "last"
  /\ UNCHANGED <<wire, scan, event, st, out, cancelled, got, asm, items, outcome, kept>>

PumpSends ==
  /\ todo # <<>> /\ Len(out) < OutCap
  /\ out' = Append(out, Head(todo))
  /\ todo' = Tail(todo)
  /\ pump' = IF Len(todo) > 1 THEN pump ELSE IF pump = "last" THEN "closed" ELSE "wait"
  /\ UNCHANGED <<wire, scan, event, st, cancelled, got, asm, items, outcome, kept>>

\* send watches the signal as well, and either case may be taken when both
\* are ready: the rest of the chunks, a finish among them, is then not sent.
PumpGivesUp ==
  /\ todo # <<>> /\ cancelled
  /\ todo' = <<>>
  /\ pump' = "closed"
  /\ UNCHANGED <<wire, scan, event, st, out, cancelled, got, asm, items, outcome, kept>>

PumpStep == PumpTakes \/ PumpSeesCancel \/ PumpSends \/ PumpGivesUp

-----------------------------------------------------------------------------
(* Agent.step.                                                             *)

StepReceives ==
  /\ out # <<>> /\ outcome = "none"
  /\ got' = Append(got, Head(out))
  /\ asm' = Assemble(asm, Head(out))
  /\ items' = Accumulate(items, Head(out))
  /\ out' = Tail(out)
  /\ UNCHANGED <<wire, scan, event, pump, todo, st, cancelled, outcome, kept>>

HasKind(content, kind) == \E i \in DOMAIN content : content[i].kind = kind

\* The channel is closed.  A stream without a finish falls through to the
\* branch of a complete answer.
StepConcludes ==
  /\ pump = "closed" /\ out = <<>> /\ outcome = "none"
  /\ kept' \in blocks(asm)
  /\ outcome' =
       CASE asm.finish = "error" -> "error"
         [] asm.finish = "aborted" ->
              IF HasKind(kept', "text") \/ HasKind(kept', "tool-call")
              THEN "interrupted" ELSE "aborted"
         [] asm.finish = "max-tokens" -> "max-tokens"
         [] OTHER -> IF HasKind(kept', "tool-call") THEN "tools" ELSE "completed"
  /\ UNCHANGED <<wire, scan, event, pump, todo, st, out, cancelled, got, asm, items>>

StepStep == StepReceives \/ StepConcludes

Cancel ==
  /\ ~cancelled /\ outcome = "none"
  /\ cancelled' = TRUE
  /\ UNCHANGED <<wire, scan, event, pump, todo, st, out, got, asm, items, outcome, kept>>

Next == Request \/ ScanReads \/ ScanHears \/ ScanAlone \/ PumpStep \/ StepStep \/ Cancel

\* The goroutines, the timer among them, and the step run; the provider need
\* not send anything and nobody need cancel.
Spec == Init /\ [][Next]_vars /\ WF_vars(ScanAlone) /\ WF_vars(PumpStep) /\ WF_vars(StepStep)

-----------------------------------------------------------------------------
(* Properties.                                                             *)

\* The pieces of the n-th wire chunk, in order.
PiecesOf(w, n) ==
  (IF w.reasoning THEN <<[kind |-> "reasoning", index |-> -1, piece |-> n, id |-> ""]>> ELSE <<>>)
  \o (IF w.text THEN <<[kind |-> "text", index |-> -1, piece |-> n, id |-> ""]>> ELSE <<>>)
  \o [k \in DOMAIN w.calls |->
        [kind |-> "tool-call", index |-> w.calls[k].index, piece |-> n, id |-> w.calls[k].id]]

\* Every piece that was sent.
Sent == FlattenSeq([n \in DOMAIN wire |-> PiecesOf(wire[n], n)])

SentAs(sent, kind) ==
  FlattenSeq([i \in DOMAIN sent |-> IF sent[i].kind = kind THEN <<sent[i].piece>> ELSE <<>>])

CallIndexes(sent) == {sent[i].index : i \in DOMAIN sent} \ {-1}

\* The call the wire describes under one index: its pieces, its first id.
SentTo(sent, x) ==
  FlattenSeq([i \in DOMAIN sent |-> IF sent[i].index = x THEN <<sent[i].piece>> ELSE <<>>])
SentIds(sent, x) ==
  FlattenSeq([i \in DOMAIN sent |->
    IF sent[i].index = x /\ sent[i].id # "" THEN <<sent[i].id>> ELSE <<>>])
SentCall(sent, x) ==
  Block("tool-call", IF SentIds(sent, x) = <<>> THEN "" ELSE SentIds(sent, x)[1], SentTo(sent, x))

TextOf(content, kind) ==
  FlattenSeq([i \in DOMAIN content |-> IF content[i].kind = kind THEN content[i].buf ELSE <<>>])

\* content is exactly what was sent: every call once and whole, every text and
\* reasoning piece in its order, blocks by the time they began.
IsWhole(content, sent) ==
  /\ {content[i] : i \in {j \in DOMAIN content : content[j].kind = "tool-call"}}
       = {SentCall(sent, x) : x \in CallIndexes(sent)}
  /\ Cardinality({i \in DOMAIN content : content[i].kind = "tool-call"}) = Cardinality(CallIndexes(sent))
  /\ \A kind \in {"text", "reasoning"} : TextOf(content, kind) = SentAs(sent, kind)
  /\ \A i, j \in DOMAIN content : i < j => content[i].buf[1] <= content[j].buf[1]

\* s is in t, with nothing left out between its pieces.
IsStretch(s, t) == \E n \in 0..(Len(t) - Len(s)) : \A k \in DOMAIN s : s[k] = t[n + k]

\* Each block of content is the beginning of a call that was sent, or a
\* stretch of the text or of the reasoning.
IsBeginning(content, sent) ==
  \A i \in DOMAIN content :
    IF content[i].kind = "tool-call"
    THEN \E x \in CallIndexes(sent) : IsPrefix(content[i].buf, SentTo(sent, x))
    ELSE IsStretch(content[i].buf, SentAs(sent, content[i].kind))

HasFinish(chunks) == \E i \in DOMAIN chunks : chunks[i].type = "finish"

\* An answer the step takes for complete says all the provider sent and
\* nothing else, and of a stream that was cut only beginnings are kept; a
\* stream without a finish passes for complete only when the turn was
\* cancelled (openai.go:646-836, assembler.go:51-156, agent.go:246-307).
AnswerIsWhole ==
  outcome \in {"completed", "tools", "max-tokens", "interrupted"} =>
    IF HasFinish(got) /\ outcome # "interrupted" THEN IsWhole(kept, Sent)
    ELSE cancelled /\ IsBeginning(kept, Sent)

\* What an adapter promises: finish is the last chunk, usage comes before it,
\* and a stream that nobody cancelled does not close without one
\* (types.go:277, openai.go:550-559).
FinishComesLast ==
  /\ \A i \in DOMAIN got : got[i].type = "finish" => i = Len(got)
  /\ outcome # "none" /\ pump = "closed" /\ ~HasFinish(got) => cancelled

\* The stream record in the log replays the chunks the step received, up to
\* what a delta says of the identity of its call: the id, which a replayed
\* delta may show earlier, and the index the wire gave the call, which no
\* record keeps (session/types.go:284-366, openai.go:716).
WithoutIdentity(chunks) ==
  [i \in DOMAIN chunks |->
     IF chunks[i].type = "delta" THEN [chunks[i] EXCEPT !.id = "", !.wire = 0] ELSE chunks[i]]
ReplayKeepsDeltas ==
  outcome # "none" =>
    LET replay == ExpandAssistantStream(items)
    IN  /\ WithoutIdentity(replay) = WithoutIdentity(got)
        /\ Assembled(replay) = asm

\* A stream that has begun comes to an end for the step that reads it, also
\* when the provider falls silent, and in any case once the turn is cancelled
\* (openai.go:509-559, 608-617).  A provider that keeps sending lines keeps an
\* uncancelled stream open, for each line renews the timer; that it sends no
\* more than MaxWire of them with data is a bound of the model.
StreamEnds ==
  /\ []<>(scan = "line") \/ (pump = "wait" ~> outcome # "none")
  /\ cancelled /\ pump # "request" ~> outcome # "none"

-----------------------------------------------------------------------------
(* What the repository says and the code does not do.                      *)

\* "finish is the last chunk" of every stream (types.go:277).
EndsWithFinish == outcome # "none" /\ pump = "closed" => HasFinish(got)

\* What is kept of a cut answer is in the order it appeared (assembler.go:146).
KeptInOrder == \A i, j \in DOMAIN kept : i < j => kept[i].buf[1] <= kept[j].buf[1]

\* The stream record expands without loss (session/types.go:255, 340), which
\* fails of the ids of a call and, whatever the ids, of its index on the wire.
ReplayIsLossless == ExpandAssistantStream(items) = got

\* So does a delta's index on the wire survive the replay.
ReplayKeepsWireIndex ==
  LET replay == ExpandAssistantStream(items)
  IN  \A i \in DOMAIN got : got[i].type = "delta" => replay[i].wire = got[i].wire

\* The goroutine that reads the body ends with its stream.
ReaderEnds == pump = "closed" ~> scan = "ended"

=============================================================================
