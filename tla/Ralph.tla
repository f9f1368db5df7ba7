-------------------------------- MODULE Ralph --------------------------------
(***************************************************************************)
(* One call of the ralph tool (internal/ralph/ralph.go,                    *)
(* internal/server/ralph.go): rounds of fresh child agents towards one     *)
(* objective, each told only the report of the round before, while the     *)
(* turn that made the call may be cancelled at any time.                   *)
(*                                                                         *)
(* Of a report's texts only matters whether they are there and normalized: *)
(* "none", "ok" or "padded".  The steps of a child are those of AgentTurn, *)
(* down to what the loop gets to see of them.                              *)
(***************************************************************************)
EXTENDS Integers, Sequences

CONSTANTS
  Ceiling,   (* the deployment's limit of rounds: 256 in the code              *)
  Requests,  (* what the model asks for as maxRounds; 0 is leaving it out       *)
  Reports    (* the arguments a child may give to structured_output             *)

VARIABLES
  loop,       (* Run: "idle", "check", "spawn", "child", "report", "done"; and   *)
              (* "down", the process                                             *)
  maxRounds, round, previous,   (* locals of Run                                 *)
  child,      (* the child: where it is, the report it has recorded              *)
  cancelled,  (* the signal of the turn that made the call                       *)
  result,     (* what the tool returns                                           *)
  told,       (* history: the prompt of every child that was started             *)
  said,       (* history: what each round's child handed in, in order            *)
  late        (* history: children started after the cancel                      *)

ralphVars == <<loop, maxRounds, round, previous, child, cancelled, result, told, said, late>>

NoReport == [status |-> "none"]

ASSUME RalphAssumption ==
  Ceiling \in Nat \ {0} /\ Requests \subseteq Nat /\ NoReport \notin Reports

NoChild == [pc |-> "off", structured |-> NoReport, concluded |-> FALSE]
NoResult == [status |-> "none"]

\* The tool returns an error, which ends the process (AgentTurn!ToolErrs).
Failed(why) == [status |-> why, rounds |-> round, report |-> NoReport]

Outcome(status, rounds, report) == [status |-> status, rounds |-> rounds, report |-> report]

-----------------------------------------------------------------------------
(* validateReport, after json.Unmarshal.                                   *)

IsReport(r) ==
  /\ r.shaped /\ r.fits
  /\ r.summary = "ok" /\ "padded" \notin {r.evidence, r.nextSteps, r.blocker}
  /\ CASE r.status = "continue" -> r.nextSteps # "none" /\ r.blocker = "none"
       [] r.status = "complete" -> r.evidence # "none" /\ r.nextSteps = "none" /\ r.blocker = "none"
       [] r.status = "blocked" -> r.blocker # "none"
       [] OTHER -> FALSE

-----------------------------------------------------------------------------
RalphInit ==
  /\ loop = "idle" /\ maxRounds = 0 /\ round = 0
  /\ previous = NoReport /\ child = NoChild
  /\ cancelled = FALSE /\ result = NoResult
  /\ told = <<>> /\ said = <<>> /\ late = 0

Return(r) == loop' = "done" /\ result' = r

\* resolveMaxRounds: the ceiling unless the model asks for fewer rounds.
resolveMaxRounds(requested) == IF requested = 0 THEN Ceiling ELSE requested

\* Execute and the head of Run.  A request that is no whole number or below
\* one, a request above the ceiling and a blank objective are errors.
Execute ==
  /\ loop = "idle"
  /\ \/ \E requested \in Requests :
          IF requested > Ceiling
          THEN Return(Failed("refused")) /\ UNCHANGED <<maxRounds, round>>
          ELSE /\ maxRounds' = resolveMaxRounds(requested)
               /\ round' = 1
               /\ loop' = "check"
               /\ UNCHANGED result
     \/ Return(Failed("refused")) /\ UNCHANGED <<maxRounds, round>>
  /\ UNCHANGED <<previous, child, cancelled, told, said, late>>

\* Mutant: the signal is looked at before the first round only.
CheckFirst ==
  /\ loop = "check"
  /\ IF round > maxRounds THEN Return(Outcome("budget-limited", maxRounds, previous))
     ELSE IF cancelled /\ round = 1 THEN Return(Failed("cancelled"))
     ELSE loop' = "spawn" /\ UNCHANGED result
  /\ UNCHANGED <<maxRounds, round, previous, child, cancelled, told, said, late>>

\* The head of the loop: the only place where Run looks at the signal.
Check ==
  /\ loop = "check"
  /\ IF round > maxRounds THEN Return(Outcome("budget-limited", maxRounds, previous))
     ELSE IF cancelled THEN Return(Failed("cancelled"))
     ELSE loop' = "spawn" /\ UNCHANGED result
  /\ UNCHANGED <<maxRounds, round, previous, child, cancelled, told, said, late>>

\* Mutants: a child that could not be started is tried again; the report
\* before is left out of the prompt.
SpawnRetries ==
  /\ loop = "spawn"
  /\ \/ /\ loop' = "child"
        /\ child' = [NoChild EXCEPT !.pc = "ask"]
        /\ told' = Append(told, [round |-> round, of |-> maxRounds, prior |-> previous])
        /\ late' = IF cancelled THEN late + 1 ELSE late
     \/ loop' = "check" /\ UNCHANGED <<child, told, late>>
  /\ UNCHANGED <<maxRounds, round, previous, cancelled, result, said>>

SpawnUninformed ==
  /\ loop = "spawn"
  /\ loop' = "child"
  /\ child' = [NoChild EXCEPT !.pc = "ask"]
  /\ told' = Append(told, [round |-> round, of |-> maxRounds, prior |-> NoReport])
  /\ UNCHANGED <<maxRounds, round, previous, cancelled, result, said, late>>

\* spawnFresh: a session and an agent of its own, with a tool that records
\* the report.  No directory, no child: the round fails.  The child gets the
\* signal of the caller, and Prompt replaces it by one nobody can cancel.
Spawn ==
  /\ loop = "spawn"
  /\ \/ /\ loop' = "child"
        /\ child' = [NoChild EXCEPT !.pc = "ask"]
        /\ told' = Append(told, [round |-> round, of |-> maxRounds, prior |-> previous])
        /\ late' = IF cancelled THEN late + 1 ELSE late
     \/ /\ loop' = "report"
        /\ child' = NoChild
        /\ UNCHANGED <<told, late>>
  /\ UNCHANGED <<maxRounds, round, previous, cancelled, result, said>>

-----------------------------------------------------------------------------
(* The child's turn.                                                       *)

ChildAsks ==
  /\ child.pc = "ask"
  /\ child' = [child EXCEPT !.pc = "tools"]
  /\ UNCHANGED <<loop, maxRounds, round, previous, cancelled, result, told, said, late>>

\* An answer without tools, the token limit, or an error of the stream: Prompt
\* returns no error for any of them.
ChildEnds ==
  /\ child.pc = "ask"
  /\ child' = [child EXCEPT !.pc = "off"]
  /\ loop' = "report"
  /\ UNCHANGED <<maxRounds, round, previous, cancelled, result, told, said, late>>

\* Mutant: the last report of the step counts.
StructuredOutputLast ==
  /\ child.pc = "tools"
  /\ \E r \in Reports :
       /\ child' = [child EXCEPT !.structured = r, !.concluded = TRUE]
       /\ said' = IF Len(said) = round THEN said ELSE Append(said, r)
  /\ UNCHANGED <<loop, maxRounds, round, previous, cancelled, result, told, late>>

\* structured_output: the first call of it is recorded, and it concludes the
\* turn once the other calls of the step have run.
StructuredOutput ==
  /\ child.pc = "tools"
  /\ \E r \in Reports :
       /\ child' = [child EXCEPT !.structured = IF @ = NoReport THEN r ELSE @,
                                 !.concluded = TRUE]
       /\ said' = IF Len(said) = round THEN said ELSE Append(said, r)
  /\ UNCHANGED <<loop, maxRounds, round, previous, cancelled, result, told, late>>

ChildToolErrs ==
  /\ child.pc = "tools"
  /\ child' = [child EXCEPT !.pc = "off"]
  /\ loop' = "down"
  /\ UNCHANGED <<maxRounds, round, previous, cancelled, result, told, said, late>>

ChildToolsDone ==
  /\ child.pc = "tools"
  /\ child' = [child EXCEPT !.pc = IF child.concluded THEN "off" ELSE "ask"]
  /\ loop' = IF child.concluded THEN "report" ELSE loop
  /\ UNCHANGED <<maxRounds, round, previous, cancelled, result, told, said, late>>

ChildStep == ChildAsks \/ ChildEnds \/ StructuredOutput \/ ChildToolErrs \/ ChildToolsDone

-----------------------------------------------------------------------------
\* What Run makes of what the child left behind.
TakeReport ==
  /\ loop = "report"
  /\ LET r == child.structured IN
       IF r = NoReport
       THEN Return(Outcome("round-failed", round, previous)) /\ UNCHANGED <<round, previous>>
       ELSE IF ~IsReport(r)
       THEN Return(Failed("bad-report")) /\ UNCHANGED <<round, previous>>
       ELSE IF r.status # "continue"
       THEN Return(Outcome(r.status, round, r)) /\ UNCHANGED <<round, previous>>
       ELSE loop' = "check" /\ round' = round + 1 /\ previous' = r /\ UNCHANGED result
  /\ said' = IF Len(said) = round THEN said ELSE Append(said, NoReport)
  /\ UNCHANGED <<maxRounds, child, cancelled, told, late>>

\* The turn that called the tool is cancelled.
CancelCall ==
  /\ loop \notin {"idle", "done", "down"} /\ ~cancelled
  /\ cancelled' = TRUE
  /\ UNCHANGED <<loop, maxRounds, round, previous, child, result, told, said, late>>

LoopStep == Check \/ Spawn \/ ChildStep \/ TakeReport

RalphNext == Execute \/ LoopStep \/ CancelCall

RalphSpec == RalphInit /\ [][RalphNext]_ralphVars

\* The loop and its children go on, and a child's model does not call tools
\* for ever: asked again and again it ends its turn.
RalphFairness == WF_ralphVars(LoopStep) /\ SF_ralphVars(ChildEnds) /\ SF_ralphVars(ChildToolsDone)

-----------------------------------------------------------------------------
(* Properties.                                                             *)

Continuing(r) == r # NoReport /\ IsReport(r) /\ r.status = "continue"

\* A child is told what the child before it reported, whatever else was
\* reported earlier or was refused, and nothing before the first round; every
\* child but the last asked to go on (ralph.go:171-208, server/ralph.go:46-60).
HandoffIsFresh ==
  \A n \in DOMAIN told :
    /\ told[n].round = n /\ told[n].of = maxRounds /\ n <= maxRounds
    /\ told[n].prior = IF n = 1 THEN NoReport ELSE said[n - 1]
    /\ n > 1 => Continuing(said[n - 1])

\* The result is what the children said: a verdict is the first report of the
\* last child, the limit is reached after as many reports that asked to go on,
\* and a failed round comes with the report before it (ralph.go:183-211).
ResultIsWhatWasSaid ==
  LET n == Len(said)
      before == IF n = 1 THEN NoReport ELSE said[n - 1]
  IN  result.status \in {"complete", "blocked", "budget-limited", "round-failed"} =>
        /\ result.rounds = n /\ n <= maxRounds
        /\ \A k \in 1..(n - 1) : Continuing(said[k])
        /\ CASE result.status = "budget-limited" ->
                  n = maxRounds /\ Continuing(said[n]) /\ result.report = said[n]
             [] result.status = "round-failed" -> said[n] = NoReport /\ result.report = before
             [] OTHER -> IsReport(said[n]) /\ said[n].status = result.status /\ result.report = said[n]

\* A cancel lets at most the child start that was about to (ralph.go:173).
CancelStartsNoRound == late <= 1

\* The call comes to an end however often its children ask to go on.
LoopEnds == loop = "check" ~> loop \in {"done", "down"}

-----------------------------------------------------------------------------
(* What the repository says and the code does not do.                      *)

\* The loop is cancelled with the turn that called it (server/ralph.go:108),
\* also while a child is at work: an agent looks at its signal before each step
\* (agent.go:201), so a child whose caller is cancelled begins no further one.
CancelReachesChild == [][child.pc = "tools" /\ cancelled => child'.pc # "ask"]_ralphVars

=============================================================================
