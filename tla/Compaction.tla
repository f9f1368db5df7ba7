------------------------------ MODULE Compaction ------------------------------
(***************************************************************************)
(* The compaction engine of one session (internal/compaction/engine.go,    *)
(* pairing.go) with its two callers: the turn in flight, before each step  *)
(* and when the context overflows (agent/compaction_host.go), and the      *)
(* /compact command, a goroutine of its own (server/server.go).            *)
(*                                                                         *)
(* Every action appends at most one event, so that the two goroutines can  *)
(* interleave between any two of them.  Token prices are left open: a      *)
(* surface may or may not be above the threshold, and the retained tail    *)
(* may begin at any node.  Pruning is left out: it measures the content    *)
(* nested in the first block of a result, and the results of the agent     *)
(* loop nest nothing (messages.go:30-38), so it replaces none of them.     *)
(***************************************************************************)
EXTENDS Integers, Sequences, FiniteSets, SequencesExt

CONSTANTS
  MaxEvents,     (* bound: events in the log      *)
  MaxTurns,      (* bound: turns                  *)
  MaxSteps,      (* bound: steps of a turn        *)
  MaxCalls,      (* bound: tool calls             *)
  MaxCommands,   (* bound: /compact commands      *)
  MaxCrashes     (* bound: crashes                *)

ASSUME CompactionAssumption ==
  {MaxEvents, MaxTurns, MaxSteps, MaxCalls, MaxCommands, MaxCrashes} \subseteq Nat

VARIABLES
  log, surface,  (* Session.log and Session.surface                         *)
  turn,          (* the goroutine inside Agent.promptMessages               *)
  command,       (* the goroutine of a /compact command                     *)
  engine,        (* Engine.mu with the compaction its holder is in          *)
  spent          (* turns, calls, commands and crashes so far               *)

vars == <<log, surface, turn, command, engine, spent>>

Sess == INSTANCE SessionLog WITH firstLiveSeq <- 0

-----------------------------------------------------------------------------
(* Events: sequences count from 1, seqs from 0.                            *)

Record(type) == [kind |-> "log", op |-> Sess!NoOp, type |-> type,
                 calls |-> <<>>, call |-> 0, covers |-> {}]
Message(type) == [Record(type) EXCEPT !.kind = "message", !.op = Sess!AppendOp]

AssistantMessage(ids) == [Message("assistant/message") EXCEPT !.calls = ids]
ToolResult(id) == [Message("tool/result") EXCEPT !.call = id]
Checkpoint(seqs) ==
  [Message("user/message") EXCEPT !.op = Sess!ReplaceOp(seqs[1], Last(seqs)),
                                  !.covers = ToSet(seqs)]

AppendEvent(e) == Sess!AppendEvent(e)
EventAt(seq) == log[seq + 1]

\* inspectEntryState: the last start of a kind that has no end after it.
Unmatched(type, end) ==
  \E i \in DOMAIN log :
    log[i].type = type /\ \A j \in (i + 1)..Len(log) : log[j].type \notin {type, end}

OpenTurn == Unmatched("turn/start", "turn/end")
CompactionActive == Unmatched("compaction/start", "compaction/end")

-----------------------------------------------------------------------------
(* Tool pairing: the calls that are still open after each node.            *)

eventDelta(e) ==
  CASE e.type = "assistant/message" -> Len(e.calls)
    [] e.type = "tool/result" -> -1
    [] OTHER -> 0

balanceOf(nodes) ==
  LET open[i \in 0..Len(nodes)] == IF i = 0 THEN 0 ELSE open[i - 1] + eventDelta(EventAt(nodes[i]))
  IN  open

CorruptSurface == \E i \in DOMAIN surface : balanceOf(surface)[i] < 0

\* Mutant: a cut may fall anywhere.
BalancedAnywhere(i) == TRUE

\* The cut before node i is balanced.
balancedBefore(i) == balanceOf(surface)[i - 1] = 0

FirstCompactable ==
  IF surface # <<>> /\ EventAt(surface[1]).type = "system/message" THEN 2 ELSE 1

\* selectCompactableRange with the retained tail beginning at node keepFrom:
\* the seqs of the region, none when nothing may be compacted.
selectCompactableRange(keepFrom) ==
  LET first == FirstCompactable
      cuts == {k \in (first + 1)..keepFrom : balancedBefore(k)}
  IN  IF cuts = {} THEN <<>> ELSE SubSeq(surface, first, Max(cuts) - 1)

\* With nothing to retain the tail is the last node; else prices decide.
TailStarts(trigger) == IF trigger = "pressure" THEN DOMAIN surface ELSE {Len(surface)} \ {0}

-----------------------------------------------------------------------------
NoTurn == [pc |-> "off", step |-> 0, todo |-> <<>>, overflows |-> 0, started |-> FALSE]
Unlocked == [by |-> "none", stage |-> "off", trigger |-> "none",
             region |-> <<>>, pre |-> <<>>, attempts |-> 0]

Init ==
  /\ log = <<>> /\ surface = <<>>
  /\ turn = NoTurn
  /\ command = "off"
  /\ engine = Unlocked
  /\ spent = [turns |-> 0, calls |-> 0, commands |-> 0, crashes |-> 0]

\* The goroutine of the turn goes on at pc.
Turn(pc) == turn' = [turn EXCEPT !.pc = pc]

-----------------------------------------------------------------------------
(* The turn.                                                               *)

Prompt ==
  /\ turn.pc = "off" /\ spent.turns < MaxTurns
  /\ spent' = [spent EXCEPT !.turns = @ + 1]
  /\ turn' = [turn EXCEPT !.pc = IF turn.started THEN "start" ELSE "system", !.step = 0]
  /\ UNCHANGED <<log, surface, command, engine>>

InjectSystem ==
  /\ turn.pc = "system"
  /\ AppendEvent(Message("system/message"))
  /\ turn' = [turn EXCEPT !.pc = "start", !.started = TRUE]
  /\ UNCHANGED <<command, engine, spent>>

TurnStart ==
  /\ turn.pc = "start"
  /\ AppendEvent(Record("turn/start"))
  /\ Turn("claim")
  /\ UNCHANGED <<command, engine, spent>>

\* The goal gate may turn a goal round away.
ClaimMessage ==
  /\ turn.pc = "claim"
  /\ \/ AppendEvent(Message("user/message")) /\ Turn("loop")
     \/ AppendEvent(Record("turn/end")) /\ Turn("off")
  /\ UNCHANGED <<command, engine, spent>>

\* The signal is cancelled, or pressureCheck is next.
Loop ==
  /\ turn.pc = "loop"
  /\ Turn("end") \/ (turn.step < MaxSteps /\ Turn("pressure"))
  /\ UNCHANGED <<log, surface, command, engine, spent>>

\* The stream delivers: an answer, calls to run, or calls that are not run
\* because of the token limit or an abort, which ends the turn a first time.
StreamAnswers ==
  /\ turn.pc = "stream"
  /\ \E n \in 0..2 :
       LET ids == [i \in 1..n |-> spent.calls + i] IN
       /\ spent.calls + n <= MaxCalls
       /\ spent' = [spent EXCEPT !.calls = @ + n]
       /\ AppendEvent(AssistantMessage(ids))
       /\ \/ \E pc \in {"end", "ended"} : turn' = [turn EXCEPT !.pc = pc, !.overflows = 0]
          \/ n > 0 /\ turn' = [turn EXCEPT !.pc = "tools", !.todo = ids, !.overflows = 0]
  /\ UNCHANGED <<command, engine>>

\* Nothing to keep, an error, or a context overflow, which is given to
\* overflowRecover at most twice in a row.
StreamFails ==
  /\ turn.pc = "stream"
  /\ \/ Turn("end") \/ Turn("ended")
     \/ turn.overflows < 2 /\ turn' = [turn EXCEPT !.pc = "overflow", !.overflows = @ + 1]
  /\ UNCHANGED <<log, surface, command, engine, spent>>

ToolReturns ==
  /\ turn.pc = "tools" /\ turn.todo # <<>>
  /\ AppendEvent(ToolResult(Head(turn.todo)))
  /\ turn' = [turn EXCEPT !.todo = Tail(@)]
  /\ UNCHANGED <<command, engine, spent>>

ToolsDone ==
  /\ turn.pc = "tools" /\ turn.todo = <<>>
  /\ \E pc \in {"loop", "end"} : Turn(pc)
  /\ UNCHANGED <<log, surface, command, engine, spent>>

\* A turn that failed or was aborted is ended by step and again by turn.
TurnEnd ==
  /\ AppendEvent(Record("turn/end"))
  /\ \/ turn.pc = "ended" /\ Turn("end")
     \/ turn.pc = "end" /\ turn' = [turn EXCEPT !.pc = "off", !.overflows = 0]
  /\ UNCHANGED <<command, engine, spent>>

-----------------------------------------------------------------------------
(* The command.                                                            *)

Compact ==
  /\ command = "off" /\ spent.commands < MaxCommands
  /\ spent' = [spent EXCEPT !.commands = @ + 1]
  /\ command' = "asked"
  /\ UNCHANGED <<log, surface, turn, engine>>

\* What the command says goes to the surface as a message.
Notice ==
  /\ command = "notice"
  /\ AppendEvent(Message("user/message"))
  /\ command' = "off"
  /\ UNCHANGED <<turn, engine, spent>>

-----------------------------------------------------------------------------
(* The engine.                                                             *)

Locks(by, trigger) ==
  engine' = [Unlocked EXCEPT !.by = by, !.stage = "enter", !.trigger = trigger]

\* Mutant: the step looks at nothing before it calls the model.
TurnLocksNot ==
  /\ \/ turn.pc = "pressure" /\ turn' = [turn EXCEPT !.pc = "stream", !.step = @ + 1]
     \/ turn.pc = "overflow" /\ Turn("end")
  /\ UNCHANGED <<log, surface, command, engine, spent>>

TurnLocks ==
  /\ turn.pc \in {"pressure", "overflow"}
  /\ engine.by = "none"
  /\ Locks("turn", turn.pc)
  /\ Turn("compacting")
  /\ UNCHANGED <<log, surface, command, spent>>

CommandLocks ==
  /\ command = "asked"
  /\ engine.by = "none"
  /\ Locks("manual", "manual")
  /\ command' = "compacting"
  /\ UNCHANGED <<log, surface, turn, spent>>

\* The holder returns and lets go of the mutex: the turn goes on whatever the
\* pressure check came to, after an overflow it goes on if room was made.
Leaves(done) ==
  /\ engine' = Unlocked
  /\ IF engine.by = "manual" THEN command' = "notice" /\ UNCHANGED turn
     ELSE /\ turn' = IF engine.trigger = "pressure" THEN [turn EXCEPT !.pc = "stream", !.step = @ + 1]
                     ELSE [turn EXCEPT !.pc = IF done THEN "loop" ELSE "ended"]
          /\ UNCHANGED command

\* Refused: a start without an end is a lock, and a command needs an idle agent.
Busy == CompactionActive \/ (engine.by = "manual" /\ OpenTurn)

\* CompactIfNeeded and CompactNow up to the region: below the threshold, busy,
\* nothing to compact or a corrupt surface end it.
Enter ==
  /\ engine.stage = "enter"
  /\ \/ engine.trigger # "overflow" /\ Busy /\ Leaves(FALSE)
     \/ engine.trigger = "pressure" /\ Leaves(FALSE)
     \/ /\ engine.trigger = "overflow" \/ ~Busy
        /\ \/ surface = <<>> /\ Leaves(FALSE)
           \/ \E k \in TailStarts(engine.trigger) :
                IF CorruptSurface \/ selectCompactableRange(k) = <<>>
                THEN Leaves(FALSE)
                ELSE /\ engine' = [engine EXCEPT !.stage = "begin",
                                                 !.region = selectCompactableRange(k)]
                     /\ UNCHANGED <<turn, command>>
  /\ UNCHANGED <<log, surface, spent>>

\* compactRegion asks again; the region itself cannot have become invalid,
\* since only this holder replaces.
Begin ==
  /\ engine.stage = "begin"
  /\ \/ Busy /\ Leaves(FALSE)
     \/ ~Busy /\ engine' = [engine EXCEPT !.stage = "start"] /\ UNCHANGED <<turn, command>>
  /\ UNCHANGED <<log, surface, spent>>

CompactionStart ==
  /\ engine.stage = "start"
  /\ AppendEvent(Record("compaction/start"))
  /\ engine' = [engine EXCEPT !.stage = "snapshot"]
  /\ UNCHANGED <<turn, command, spent>>

Snapshot ==
  /\ engine.stage = "snapshot"
  /\ engine' = [engine EXCEPT !.stage = "summarize", !.pre = surface]
  /\ UNCHANGED <<log, surface, turn, command, spent>>

\* The model has answered; then the surface must still be the one measured.
Summarize ==
  /\ engine.stage = "summarize"
  /\ \E next \in {"commit", "fail"} :
       /\ next = "commit" => surface = engine.pre
       /\ engine' = [engine EXCEPT !.stage = next]
  /\ UNCHANGED <<log, surface, turn, command, spent>>

Fail ==
  /\ engine.stage = "fail"
  /\ AppendEvent(Record("compaction/end"))
  /\ Leaves(FALSE)
  /\ UNCHANGED spent

CommitSummary ==
  /\ engine.stage = "commit"
  /\ AppendEvent([Record("compaction/summary") EXCEPT !.covers = ToSet(engine.region)])
  /\ engine' = [engine EXCEPT !.stage = "replace"]
  /\ UNCHANGED <<turn, command, spent>>

\* Mutant: everything before the retained tail of now gives way.
ReplaceToTail ==
  /\ engine.stage = "replace"
  /\ AppendEvent([Checkpoint(engine.region) EXCEPT !.op.end = Last(surface)])
  /\ engine' = [engine EXCEPT !.stage = "end"]
  /\ UNCHANGED <<turn, command, spent>>

CommitReplace ==
  /\ engine.stage = "replace"
  /\ AppendEvent(Checkpoint(engine.region))
  /\ engine' = [engine EXCEPT !.stage = "end"]
  /\ UNCHANGED <<turn, command, spent>>

\* Still above the threshold, a pressure compaction tries once more.
CommitEnd ==
  /\ engine.stage = "end"
  /\ AppendEvent(Record("compaction/end"))
  /\ \/ Leaves(TRUE)
     \/ /\ engine.trigger = "pressure" /\ engine.attempts = 0
        /\ engine' = [engine EXCEPT !.stage = "enter", !.attempts = 1]
        /\ UNCHANGED <<turn, command>>
  /\ UNCHANGED spent

-----------------------------------------------------------------------------
(* A crash and Resume of the agent on the session read back: the calls of  *)
(* the open turn get a result each, the turn its end, a compaction nothing.*)

OpenCalls ==
  LET before == {i \in DOMAIN log : log[i].type = "turn/end"}
      from == IF before = {} THEN 1 ELSE Max(before) + 1
      ids[i \in 0..Len(log)] == IF i < from THEN <<>> ELSE ids[i - 1] \o log[i].calls
  IN  ids[Len(log)]

Resume ==
  /\ spent.crashes < MaxCrashes
  /\ spent' = [spent EXCEPT !.crashes = @ + 1]
  /\ LET calls == OpenCalls IN
     /\ Len(log) + Len(calls) < MaxEvents
     /\ log' = log \o [i \in DOMAIN calls |-> ToolResult(calls[i])]
                   \o (IF OpenTurn THEN <<Record("turn/end")>> ELSE <<>>)
     /\ surface' = surface \o [i \in DOMAIN calls |-> Len(log) + i - 1]
  /\ turn' = [NoTurn EXCEPT !.started = TRUE]
  /\ command' = "off"
  /\ engine' = Unlocked

EngineStep ==
  \/ TurnLocks \/ CommandLocks
  \/ Enter \/ Begin \/ CompactionStart \/ Snapshot \/ Summarize \/ Fail
  \/ CommitSummary \/ CommitReplace \/ CommitEnd

TurnStep ==
  \/ InjectSystem \/ TurnStart \/ ClaimMessage \/ Loop
  \/ StreamAnswers \/ StreamFails \/ ToolReturns \/ ToolsDone \/ TurnEnd

Next == Prompt \/ TurnStep \/ Compact \/ Notice \/ EngineStep \/ Resume

Spec == Init /\ [][Next]_vars

-----------------------------------------------------------------------------
(* Properties.                                                             *)

Stages == {"off", "enter", "begin", "start", "snapshot", "summarize", "fail", "commit", "replace", "end"}

TypeOK ==
  /\ Len(log) <= MaxEvents
  /\ ToSet(surface) \subseteq 0..(Len(log) - 1)
  /\ turn.pc \in {"off", "system", "start", "claim", "loop", "pressure", "overflow", "compacting",
                  "stream", "tools", "ended", "end"}
  /\ turn.overflows \in 0..2 /\ turn.step \in 0..MaxSteps
  /\ command \in {"off", "asked", "compacting", "notice"}
  /\ engine.stage \in Stages /\ engine.by \in {"none", "turn", "manual"}
  /\ (engine.by = "turn") = (turn.pc = "compacting")
  /\ (engine.by = "manual") = (command = "compacting")

Shown == ToSet(surface)

\* A call and the first result it got are shown together or hidden together,
\* so that the model never sees half of a pair (pairing.go:1-5, engine.go:17).
\* A second result, from a repair, may appear when the call is long hidden.
PairsStayWhole ==
  \A i, j \in DOMAIN log :
    /\ log[j].type = "tool/result" /\ log[j].call \in ToSet(log[i].calls)
    /\ \A k \in 1..(j - 1) : log[k].call # log[j].call
    => ((i - 1) \in Shown <=> (j - 1) \in Shown)

\* What the surface no longer shows has been summarized: the replace hides
\* what its summary covers although the surface may have grown since
\* (engine.go:447-481).
HiddenWasSummarized ==
  \A i \in DOMAIN log :
    log[i].kind = "message" /\ (i - 1) \notin Shown =>
      \E j \in DOMAIN log : log[j].type = "compaction/summary" /\ (i - 1) \in log[j].covers

\* Nothing is hidden between the request of a step and the last result of the
\* calls it brings: /compact looks for an open turn while it holds the mutex
\* every step takes (engine.go:390-401, compaction_host.go:81-86).
StepsKeepTheirContext ==
  [][turn.pc \in {"stream", "tools"} => Shown \subseteq Shown' \/ spent.crashes' # spent.crashes]_vars

\* The system message at the head of the surface is never compacted (engine.go:16).
SystemHeadStays ==
  [][FirstCompactable = 2 => surface'[1] = surface[1]]_vars

\* In a process that goes on, a compaction is in the log as active exactly
\* while the engine is in one: every start gets its end (engine.go:442-446).
ActiveIsInEngine ==
  spent.crashes = 0 =>
    (CompactionActive <=> engine.stage \in {"snapshot", "summarize", "fail", "commit", "replace", "end"})

-----------------------------------------------------------------------------
(* What the repository says and the code does not do.                      *)

\* The system message never enters a region (engine.go:16).
SystemNeverHidden ==
  \A i \in DOMAIN log : log[i].type = "system/message" => (i - 1) \in Shown

\* The summary is next to its replace (engine.go:11, core-control.md:136).
SummaryNextToReplace ==
  \A i \in DOMAIN log : log[i].op.op = "replace" => log[i - 1].type = "compaction/summary"

\* A command is refused only while this process compacts or the agent is
\* not idle (server.go:175).
RefusedOnlyWhenBusy ==
  engine.stage = "enter" /\ engine.by = "manual" /\ Busy => OpenTurn

=============================================================================
