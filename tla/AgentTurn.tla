------------------------------ MODULE AgentTurn ------------------------------
(***************************************************************************)
(* One agent and its session log (internal/agent/agent.go, tools_exec.go,  *)
(* recover.go): turns made of steps, a model call per step, the tool calls *)
(* the model asks for, cancellation, the death of the process between any  *)
(* two appended events, and the repair of an interrupted turn on resume    *)
(* (InterruptedTurnClosers, internal/session/session.go).                  *)
(*                                                                         *)
(* An event carries what the repair and the properties look at.  Turn and  *)
(* step numbers start at 1; 0 stands for the code's "none open".  The code *)
(* appends its events one by one; an action may append several of them,    *)
(* and Crash then keeps any part of what the last action appended.         *)
(***************************************************************************)
EXTENDS Integers, Sequences, FiniteSets, SequencesExt

CONSTANTS
  MaxTurns,    (* bound: turns in the log                     *)
  MaxSteps,    (* bound: steps in a turn                      *)
  MaxCalls,    (* bound: tool calls the model asks for        *)
  MaxCrashes   (* bound: crashes                              *)

ASSUME AgentAssumption == {MaxTurns, MaxSteps, MaxCalls, MaxCrashes} \subseteq Nat

VARIABLES
  log,         (* Session.log, every event of it also written to the file     *)
  durable,     (* length of the log before the last action                    *)
  pc,          (* where the agent is in Prompt -> turn -> step -> runTool      *)
  phase,       (* Agent.phase: the current turn and step                      *)
  todo,        (* calls of the assistant message still to be run              *)
  concluded,   (* a tool of this step has concluded the turn                  *)
  cancelled,   (* Agent.Signal is cancelled                                   *)
  dispatched,  (* history: calls whose tool was started                       *)
  calls,       (* number of call ids handed out by the model                  *)
  crashes

vars == <<log, durable, pc, phase, todo, concluded, cancelled, dispatched, calls, crashes>>

-----------------------------------------------------------------------------
(* Events.                                                                 *)

Event(kind) == [kind |-> kind, turn |-> phase.turn, step |-> phase.step,
                calls |-> <<>>, call |-> 0, form |-> "none", reason |-> "none"]

TurnEnd(reason) == [Event("turn/end") EXCEPT !.reason = reason]
AssistantMessage(ids) == [Event("assistant/message") EXCEPT !.calls = ids]
ToolCall(id) == [Event("tool/call") EXCEPT !.call = id]

\* frameToolResultMessage puts the result into a text block.
ToolResult(id) == [Event("tool/result") EXCEPT !.call = id, !.form = "text"]

\* Every action that appends remembers how much was in the log before it.
Append2Log(evs) == log' = log \o evs /\ durable' = Len(log)

-----------------------------------------------------------------------------
(* InterruptedTurnClosers: fold the log into what is open, then close it.  *)

NothingOpen == [turn |-> 0, step |-> 0, pending |-> <<>>]

Pending(id, e, recorded) == [id |-> id, turn |-> e.turn, step |-> e.step, recorded |-> recorded]

\* delete(pendingCalls, id)
Without(pending, id) ==
  LET kept[n \in 0..Len(pending)] ==
        IF n = 0 THEN <<>>
        ELSE IF pending[n].id = id THEN kept[n - 1] ELSE Append(kept[n - 1], pending[n])
  IN  kept[Len(pending)]

ScanEvent(open, e) ==
  CASE e.kind = "turn/start" -> [open EXCEPT !.turn = e.turn]
    [] e.kind = "turn/end" -> NothingOpen
    [] e.kind = "step/start" -> [open EXCEPT !.step = e.step]
    [] e.kind = "step/end" -> [open EXCEPT !.step = 0]
    [] e.kind = "assistant/message" ->
         [open EXCEPT !.pending =
            @ \o [i \in DOMAIN e.calls |-> Pending(e.calls[i], e, FALSE)]]
    [] e.kind = "tool/call" ->
         IF \E i \in DOMAIN open.pending : open.pending[i].id = e.call
         THEN [open EXCEPT !.pending =
                 [i \in DOMAIN @ |-> IF @[i].id = e.call THEN [@[i] EXCEPT !.recorded = TRUE]
                                     ELSE @[i]]]
         ELSE [open EXCEPT !.pending = Append(@, Pending(e.call, e, TRUE))]
    [] e.kind = "tool/result" /\ e.form = "tool-result" ->
         [open EXCEPT !.pending = Without(@, e.call)]
    [] OTHER -> open

Open(events) ==
  LET open[n \in 0..Len(events)] ==
        IF n = 0 THEN NothingOpen ELSE ScanEvent(open[n - 1], events[n])
  IN  open[Len(events)]

\* Mutant: the open turn is left open.
ClosersWithoutTurnEnd(events) ==
  LET open == Open(events)
      at(kind) == [Event(kind) EXCEPT !.turn = open.turn, !.step = open.step]
      result(p) == [Event("tool/result") EXCEPT
                      !.turn = p.turn, !.step = p.step, !.call = p.id, !.form = "tool-result",
                      !.reason = IF p.recorded THEN "outcome-unknown" ELSE "not-started"]
  IN  [i \in DOMAIN open.pending |-> result(open.pending[i])]
        \o (IF open.step > 0 THEN <<at("step/end")>> ELSE <<>>)

InterruptedTurnClosers(events) ==
  LET open == Open(events)
      at(kind) == [Event(kind) EXCEPT !.turn = open.turn, !.step = open.step]
      result(p) == [Event("tool/result") EXCEPT
                      !.turn = p.turn, !.step = p.step, !.call = p.id, !.form = "tool-result",
                      !.reason = IF p.recorded THEN "outcome-unknown" ELSE "not-started"]
  IN  [i \in DOMAIN open.pending |-> result(open.pending[i])]
        \o (IF open.step > 0 THEN <<at("step/end")>> ELSE <<>>)
        \o (IF open.turn > 0
            THEN <<[at("turn/end") EXCEPT !.step = 0, !.reason = "interrupted"]>> ELSE <<>>)

\* turnBoundaryFrom: where the resumed agent counts on from.
BoundaryEvent(p, e) ==
  CASE e.kind = "turn/start" -> [turn |-> e.turn, step |-> 0]
    [] e.kind = "step/start" /\ e.turn = p.turn -> [p EXCEPT !.step = e.step]
    [] e.kind = "turn/end" -> [turn |-> p.turn + 1, step |-> 0]
    [] OTHER -> p

\* Mutant: the repaired agent starts numbering again.
boundaryForgotten(events) == [turn |-> 0, step |-> 0]

turnBoundaryFrom(events) ==
  LET boundary[n \in 0..Len(events)] ==
        IF n = 0 THEN [turn |-> 0, step |-> 0] ELSE BoundaryEvent(boundary[n - 1], events[n])
  IN  boundary[Len(events)]

-----------------------------------------------------------------------------
Init ==
  /\ log = <<>> /\ durable = 0
  /\ pc = "idle"
  /\ phase = [turn |-> 0, step |-> 0]
  /\ todo = <<>> /\ concluded = FALSE /\ cancelled = FALSE
  /\ dispatched = {} /\ calls = 0 /\ crashes = 0

\* promptMessages gives the turn a fresh signal and counts the turn.
Prompt ==
  /\ pc = "idle"
  /\ Cardinality({i \in DOMAIN log : log[i].kind = "turn/start"}) < MaxTurns
  /\ phase' = [turn |-> phase.turn + 1, step |-> 0]
  /\ cancelled' = FALSE
  /\ Append2Log(<<[Event("turn/start") EXCEPT !.turn = phase.turn + 1, !.step = 0]>>)
  /\ pc' = "message"
  /\ UNCHANGED <<todo, concluded, dispatched, calls, crashes>>

\* The claimed message goes into the log, unless the goal gate rejects it.
ClaimMessage ==
  /\ pc = "message"
  /\ \/ Append2Log(<<Event("user/message")>>) /\ pc' = "loop"
     \/ Append2Log(<<TurnEnd("blocked")>>) /\ pc' = "idle"
  /\ UNCHANGED <<phase, todo, concluded, cancelled, dispatched, calls, crashes>>

\* Mutant: the signal is looked at before the first step only.
LoopAbortsFirst ==
  /\ pc = "loop" /\ cancelled /\ phase.step = 0
  /\ Append2Log(<<TurnEnd("aborted")>>)
  /\ pc' = "idle"
  /\ UNCHANGED <<phase, todo, concluded, cancelled, dispatched, calls, crashes>>

LoopAborts ==
  /\ pc = "loop" /\ cancelled
  /\ Append2Log(<<TurnEnd("aborted")>>)
  /\ pc' = "idle"
  /\ UNCHANGED <<phase, todo, concluded, cancelled, dispatched, calls, crashes>>

StartStep ==
  /\ pc = "loop" /\ ~cancelled
  /\ phase.step < MaxSteps
  /\ phase' = [phase EXCEPT !.step = @ + 1]
  /\ Append2Log(<<[Event("step/start") EXCEPT !.step = phase.step + 1]>>)
  /\ pc' = "stream"
  /\ UNCHANGED <<todo, concluded, cancelled, dispatched, calls, crashes>>

\* What step leaves behind when it returns: the deferred step/end, then the
\* turn/end that turn() appends for every result of a step.
StepEnds == <<Event("step/end")>>
TurnEnds(reason) == StepEnds \o <<TurnEnd(reason)>>

\* Up to two calls of one assistant message.
Asked(n) == [i \in 1..n |-> calls + i]

\* An error of the stream; overflowRecover may have made room for a retry.
StreamFails ==
  /\ pc = "stream"
  /\ \/ Append2Log(<<Event("assistant/attempt")>> \o StepEnds) /\ pc' = "loop"
     \/ /\ Append2Log(<<Event("assistant/attempt"), TurnEnd("error")>> \o TurnEnds("error"))
        /\ pc' = "idle"
  /\ UNCHANGED <<phase, todo, concluded, cancelled, dispatched, calls, crashes>>

\* The stream was aborted; what was delivered so far is kept, calls included.
StreamAborted ==
  /\ pc = "stream" /\ cancelled
  /\ \/ /\ Append2Log(<<Event("assistant/attempt")>> \o TurnEnds("completed"))
        /\ UNCHANGED calls
     \/ \E n \in 0..2 :
          /\ calls + n <= MaxCalls
          /\ calls' = calls + n
          /\ Append2Log(<<AssistantMessage(Asked(n)), TurnEnd("aborted")>> \o TurnEnds("completed"))
  /\ pc' = "idle"
  /\ UNCHANGED <<phase, todo, concluded, cancelled, dispatched, crashes>>

\* The model ran into its token limit: the calls it asked for are not run,
\* and the result has no reason, so turn() records "completed".
StreamHitsLimit ==
  /\ pc = "stream"
  /\ \E n \in 0..2 :
       /\ calls + n <= MaxCalls
       /\ calls' = calls + n
       /\ Append2Log(<<AssistantMessage(Asked(n))>> \o TurnEnds("completed"))
  /\ pc' = "idle"
  /\ UNCHANGED <<phase, todo, concluded, cancelled, dispatched, crashes>>

StreamAnswers ==
  /\ pc = "stream"
  /\ \/ Append2Log(<<AssistantMessage(<<>>)>> \o TurnEnds("completed"))
     \/ Append2Log(TurnEnds("completed"))      (* an empty message is not kept *)
  /\ pc' = "idle"
  /\ UNCHANGED <<phase, todo, concluded, cancelled, dispatched, calls, crashes>>

StreamAsksTools ==
  /\ pc = "stream"
  /\ \E n \in 1..2 :
       /\ calls + n <= MaxCalls
       /\ calls' = calls + n
       /\ todo' = Asked(n)
       /\ Append2Log(<<AssistantMessage(Asked(n))>>)
  /\ concluded' = FALSE
  /\ pc' = "tools"
  /\ UNCHANGED <<phase, cancelled, dispatched, crashes>>

-----------------------------------------------------------------------------
(* executeToolCalls and runTool: the calls one after another, each in the  *)
(* log before it is dispatched.                                            *)

\* Mutant: the call is dispatched without a record of it.
RecordCallNot ==
  /\ pc = "tools" /\ todo # <<>>
  /\ Append2Log(<<>>)
  /\ pc' = "recorded"
  /\ UNCHANGED <<phase, todo, concluded, cancelled, dispatched, calls, crashes>>

RecordCall ==
  /\ pc = "tools" /\ todo # <<>>
  /\ Append2Log(<<ToolCall(Head(todo))>>)
  /\ pc' = "recorded"
  /\ UNCHANGED <<phase, todo, concluded, cancelled, dispatched, calls, crashes>>

Dispatch ==
  /\ pc = "recorded"
  /\ dispatched' = dispatched \cup {Head(todo)}
  /\ durable' = Len(log)
  /\ pc' = "running"
  /\ UNCHANGED <<log, phase, todo, concluded, cancelled, calls, crashes>>

ToolReturns ==
  /\ pc = "running"
  /\ Append2Log(<<ToolResult(Head(todo))>>)
  /\ todo' = Tail(todo)
  /\ \E concludes \in BOOLEAN : concluded' = (concluded \/ concludes)
  /\ pc' = "tools"
  /\ UNCHANGED <<phase, cancelled, dispatched, calls, crashes>>

\* The tool returns an error: a failed result is recorded, runTool returns
\* neither result nor failure, and executeToolCalls dereferences the result.
ToolErrs ==
  /\ pc = "running"
  /\ Append2Log(<<ToolResult(Head(todo))>>)
  /\ pc' = "down"
  /\ UNCHANGED <<phase, todo, concluded, cancelled, dispatched, calls, crashes>>

\* Mutant: the first result ends the batch of calls.
ToolsDoneEarly ==
  /\ pc = "tools"
  /\ IF concluded
     THEN Append2Log(TurnEnds("completed")) /\ pc' = "idle"
     ELSE Append2Log(StepEnds) /\ pc' = "loop"
  /\ UNCHANGED <<phase, todo, concluded, cancelled, dispatched, calls, crashes>>

ToolsDone ==
  /\ pc = "tools" /\ todo = <<>>
  /\ IF concluded
     THEN Append2Log(TurnEnds("completed")) /\ pc' = "idle"
     ELSE Append2Log(StepEnds) /\ pc' = "loop"
  /\ UNCHANGED <<phase, todo, concluded, cancelled, dispatched, calls, crashes>>

-----------------------------------------------------------------------------
\* A cancel that arrives between turns hits the old signal and is lost.
Cancel ==
  /\ pc \notin {"idle", "down"}
  /\ ~cancelled
  /\ cancelled' = TRUE
  /\ UNCHANGED <<log, durable, pc, phase, todo, concluded, dispatched, calls, crashes>>

\* The process dies.  An event is written before Append returns, so only the
\* events of the last action may be missing.
Crash ==
  /\ pc # "down"
  /\ crashes < MaxCrashes
  /\ crashes' = crashes + 1
  /\ \E n \in durable..Len(log) : log' = SubSeq(log, 1, n) /\ durable' = n
  /\ pc' = "down"
  /\ UNCHANGED <<phase, todo, concluded, cancelled, dispatched, calls>>

\* Resume: append the closers, continue counting at the last boundary.
Resume ==
  /\ pc = "down"
  /\ Append2Log(InterruptedTurnClosers(log))
  /\ phase' = turnBoundaryFrom(log')
  /\ pc' = "idle"
  /\ todo' = <<>> /\ concluded' = FALSE /\ cancelled' = FALSE
  /\ UNCHANGED <<dispatched, calls, crashes>>

AgentStep ==
  \/ ClaimMessage \/ LoopAborts \/ StartStep
  \/ StreamFails \/ StreamAborted \/ StreamHitsLimit \/ StreamAnswers \/ StreamAsksTools
  \/ RecordCall \/ Dispatch \/ ToolReturns \/ ToolErrs \/ ToolsDone

Next == Prompt \/ AgentStep \/ Cancel \/ Crash \/ Resume

Spec == Init /\ [][Next]_vars

\* Model calls and tools return; prompts, cancels and crashes need not come.
FairSpec == Spec /\ WF_vars(AgentStep)

-----------------------------------------------------------------------------
(* Properties.                                                             *)

Ids == 1..MaxCalls

EventType ==
  [kind : {"turn/start", "turn/end", "step/start", "step/end", "user/message",
           "assistant/message", "assistant/attempt", "tool/call", "tool/result"},
   turn : Nat, step : Nat, calls : Seq(Ids), call : Ids \cup {0},
   form : {"none", "text", "tool-result"},
   reason : {"none", "completed", "aborted", "blocked", "error", "interrupted",
             "outcome-unknown", "not-started"}]

TypeOK ==
  /\ log \in Seq(EventType)
  /\ durable \in 0..Len(log)
  /\ pc \in {"idle", "message", "loop", "stream", "tools", "recorded", "running", "down"}
  /\ phase \in [turn : Nat, step : Nat]
  /\ todo \in Seq(Ids)
  /\ concluded \in BOOLEAN /\ cancelled \in BOOLEAN
  /\ dispatched \subseteq Ids
  /\ calls \in 0..MaxCalls /\ crashes \in 0..MaxCrashes

\* Judged by the events themselves, not by the repair's scan: an agent that
\* waits for a prompt has a log in which each turn has an end, each step too,
\* and each call has a result.  Two kinds of events may lack theirs: a step
\* whose turn/end was the last thing of its turn to be written (agent.go:291,
\* 319 append it inside the step), and a call that was never dispatched,
\* because its turn came to an end of its own (session.go:228-234,
\* agent.go:197-228).
TurnEndsLater(i) ==
  \E j \in DOMAIN log : i < j /\ log[j].kind = "turn/end" /\ log[j].turn = log[i].turn
StepEndsLater(i) ==
  \E j \in DOMAIN log :
    i < j /\ log[j].kind = "step/end" /\ log[j].turn = log[i].turn /\ log[j].step = log[i].step
CutShort(i) ==
  \E j \in DOMAIN log :
    /\ i < j /\ log[j].kind = "turn/end" /\ log[j].turn = log[i].turn
    /\ log[j].reason \in {"error", "aborted"}
    /\ \A n \in DOMAIN log : log[n].turn = log[i].turn => n <= j
Answered(k) == \E j \in DOMAIN log : log[j].kind = "tool/result" /\ log[j].call = k
EndsOnItsOwn(i) ==
  \E j \in DOMAIN log :
    log[j].kind = "turn/end" /\ log[j].turn = log[i].turn /\ log[j].reason # "interrupted"

TurnsEnd == \A i \in DOMAIN log : log[i].kind = "turn/start" => TurnEndsLater(i)
StepsEnd ==
  \A i \in DOMAIN log : log[i].kind = "step/start" => StepEndsLater(i) \/ CutShort(i)
CallsEnd ==
  /\ \A k \in dispatched : Answered(k)
  /\ \A i \in DOMAIN log : \A k \in ToSet(log[i].calls) : Answered(k) \/ EndsOnItsOwn(i)
EverythingEnds == pc = "idle" => TurnsEnd /\ StepsEnd /\ CallsEnd

\* Nor does the repair end what was ended: where it ends a turn, it does so
\* only once and nothing else ended the turn; no step has two ends; and no
\* call has two results of the repair, which writes them for turns it ends.
RepairEndsOpenTurns ==
  \A i, j \in DOMAIN log :
    log[i].reason = "interrupted" /\ log[j].kind = "turn/end" /\ log[i].turn = log[j].turn
    => i = j
SameEnding(i, j) ==
  \/ log[i].kind = "step/end" /\ log[j].kind = "step/end"
       /\ log[i].turn = log[j].turn /\ log[i].step = log[j].step
  \/ log[i].form = "tool-result" /\ log[j].form = "tool-result" /\ log[i].call = log[j].call
RepairedTurn(i) ==
  \E j \in DOMAIN log :
    log[j].kind = "turn/end" /\ log[j].turn = log[i].turn /\ log[j].reason = "interrupted"
NothingEndsTwice ==
  /\ RepairEndsOpenTurns
  /\ \A i, j \in DOMAIN log : SameEnding(i, j) => i = j
  /\ pc = "idle" => \A i \in DOMAIN log : log[i].form = "tool-result" => RepairedTurn(i)

RepairIsExact == EverythingEnds /\ NothingEndsTwice

\* Across crashes and resumes turn numbers only grow, and a resume leaves out
\* one number for every turn/end of the last turn at most (agent.go:168,
\* recover.go:27-51).
TurnNumbersIncrease ==
  \A i, j \in DOMAIN log :
    /\ i < j /\ log[i].kind = "turn/start" /\ log[j].kind = "turn/start"
    /\ \A k \in (i + 1)..(j - 1) : log[k].kind # "turn/start"
    => log[j].turn - log[i].turn
         \in 1..(1 + Cardinality({k \in i..j : log[k].kind = "turn/end"}))

\* When the model is called again within a turn, every call it made earlier
\* in that turn has its result in the log (tools_exec.go:24-40).
ThisTurnAnswered ==
  pc = "stream" =>
    \A i \in DOMAIN log, k \in Ids :
      log[i].turn = phase.turn /\ k \in ToSet(log[i].calls)
      => \E j \in DOMAIN log : log[j].kind = "tool/result" /\ log[j].call = k

\* The repair tells the model that a call was never started only when it was
\* not: its tool/call is in the file before the tool runs (tools_exec.go:3-7).
NotStartedIsTrue ==
  \A i \in DOMAIN log : log[i].reason = "not-started" => log[i].call \notin dispatched

\* A cancelled turn comes to an end.
CancelStops == cancelled ~> (~cancelled \/ pc \in {"idle", "down"})

-----------------------------------------------------------------------------
(* What the repository says and the code does not do.                      *)

\* The repair gives every step without an end its end (session.go:228-231).
EveryStepEnds ==
  pc = "idle" => \A i \in DOMAIN log : log[i].kind = "step/start" => StepEndsLater(i)

\* Only calls without a result get one from the repair (session.go:230).
OneResultPerCall ==
  \A i, j \in DOMAIN log :
    log[i].kind = "tool/result" /\ log[j].kind = "tool/result" /\ log[i].call = log[j].call
    => i = j

\* A tool that fails ends as a failed result, not as the end of the process
\* (tools_exec.go:65).
ToolErrorsAreResults ==
  [][pc = "running" => pc' \in {"running", "tools"} \/ crashes' = crashes + 1]_vars

=============================================================================
