------------------------------ MODULE GoalRounds ------------------------------
(***************************************************************************)
(* The autonomous continuation of a goal: goal.Driver with its single      *)
(* flight worker, the turn goroutines of the agent with the gate in front  *)
(* of a goal message, and the session entry that decides who may use the   *)
(* agent (internal/goal/driver.go, internal/server/server.go,              *)
(* internal/agent/agent.go).                                               *)
(*                                                                         *)
(* Every step is one critical section of the code.  A commit of the goal   *)
(* service takes Service.mu and then Session.mu; the append of a goal      *)
(* message holds Session.mu and its listener then takes Service.mu.  Those *)
(* two holds are modelled by svcMu and sessMu; every other section takes   *)
(* and releases its mutex within the step.                                 *)
(***************************************************************************)
EXTENDS GoalService, FiniteSets

CONSTANTS
  Workers,      (* slots for worker goroutines of the driver              *)
  Turns,        (* bound: goroutines running or finishing a turn at once  *)
  BlockedAfter, (* rounds before the model may report a goal blocked      *)
  MaxPrompts,   (* bound: human prompts                                   *)
  MaxTools,     (* bound: goal tool calls that change the goal            *)
  MaxCancels,   (* bound: cancel requests                                 *)
  MaxCommands,  (* bound: /compact commands                               *)
  Free          (* the holder of a mutex nobody holds                     *)

ASSUME RoundsAssumption ==
  /\ Free \notin Workers \cup Turns
  /\ BlockedAfter \in Nat
  /\ "queue-failed" \in BlockCodes /\ "model-reported" \in BlockCodes

VARIABLES
  requested, running, attempt,  (* Driver.requested, .running, .attempt      *)
  worker,    (* the worker goroutines: where each is, and its reservation    *)
  pending,   (* "go DriveRequest()" goroutines that have not run yet         *)
  busy, goalTurn, queued,       (* entry.busy, .goalTurn, Len(entry.queued)  *)
  turn,      (* the turn goroutines, from their first step to finishTurn     *)
  svcMu, sessMu,                (* who holds Service.mu, Session.mu          *)
  main,      (* "serve" in the server; of the headless host the main
                goroutine: "prompt", "drain", "quiet", "exit"             *)
  prompts, tools, cancels, commands   (* counters behind the bounds          *)

driverVars == <<requested, running, attempt, worker, pending>>
hostVars == <<busy, goalTurn, queued, main>>
boundVars == <<prompts, tools, cancels, commands>>
roundsVars == <<serviceVars, driverVars, hostVars, turn, svcMu, sessMu, boundVars>>

NoRound == [id |-> 0, revision |-> 0, round |-> 0]
Sleeping == [pc |-> "off", round |-> NoRound]
Idle == [pc |-> "off", kind |-> "human", round |-> NoRound, cancelled |-> FALSE,
         end |-> "none", wasGoal |-> FALSE, next |-> FALSE, seen |-> NoRound]

HumanTurn == [Idle EXCEPT !.pc = "run"]
GoalTurn(r) == [Idle EXCEPT !.pc = "gate", !.kind = "goal", !.round = r]

\* The steps in which a goroutine is inside the agent's turn.
InTurn(t) == turn[t].pc \in {"gate", "gateService", "disarm", "append", "admit", "run"}

RoundsInit ==
  /\ Init
  /\ requested = FALSE /\ running = FALSE /\ attempt = NoRound
  /\ worker = [w \in Workers |-> Sleeping]
  /\ pending = 0
  /\ goalTurn = FALSE /\ queued = 0
  /\ svcMu = Free /\ sessMu = Free
  /\ prompts = 0 /\ tools = 0 /\ cancels = 0 /\ commands = 0

-----------------------------------------------------------------------------
(* Building blocks.                                                        *)

Go(w, pc) == worker' = [worker EXCEPT ![w].pc = pc]
Turn(t, pc) == turn' = [turn EXCEPT ![t].pc = pc]

\* A commit needs Session.mu while it holds Service.mu; it is entered by
\* Lock and left by releasing Service.mu.
Lock(x) == svcMu = Free /\ svcMu' = x
Release == svcMu' = Free

\* requestDriveLocked and notifyLocked start goroutines; the drive request
\* runs whenever the scheduler lets it.
SpawnRequest == pending' = pending + 1

\* RequestDrive: coalesce, and launch a worker unless one is running.
RequestDrive ==
  /\ requested' = TRUE
  /\ IF running
     THEN UNCHANGED <<running, worker>>
     ELSE \E w \in Workers :
            /\ worker[w].pc = "off"
            /\ running' = TRUE
            /\ worker' = [worker EXCEPT ![w] = [Sleeping EXCEPT !.pc = "head"]]

PendingRequest ==
  /\ pending > 0
  /\ pending' = pending - 1
  /\ RequestDrive
  /\ UNCHANGED <<serviceVars, attempt, hostVars, turn, svcMu, sessMu, boundVars>>

\* Service.Disarm from outside a commit.
DisarmAndRequest ==
  /\ svcMu = Free
  /\ IF act = "armed"
     THEN Disarm /\ SpawnRequest
     ELSE UNCHANGED <<serviceVars, pending>>

-----------------------------------------------------------------------------
(* The worker: requested is cleared, drive() runs, and it exits only in    *)
(* the section that finds no new request.                                  *)

WorkerHead(w) ==
  /\ worker[w].pc = "head"
  /\ requested' = FALSE
  /\ Go(w, "idle")
  /\ UNCHANGED <<serviceVars, running, attempt, pending, hostVars, turn, svcMu, sessMu, boundVars>>

\* Mutant: the worker leaves without looking for a request that came meanwhile.
WorkerTailLeaves(w) ==
  /\ worker[w].pc = "tail"
  /\ worker' = [worker EXCEPT ![w] = Sleeping] /\ running' = FALSE
  /\ UNCHANGED <<serviceVars, requested, attempt, pending, hostVars, turn, svcMu, sessMu, boundVars>>

WorkerTail(w) ==
  /\ worker[w].pc = "tail"
  /\ IF requested
     THEN Go(w, "head") /\ UNCHANGED running
     ELSE worker' = [worker EXCEPT ![w] = Sleeping] /\ running' = FALSE
  /\ UNCHANGED <<serviceVars, requested, attempt, pending, hostVars, turn, svcMu, sessMu, boundVars>>

IdleAndLive == ~busy

DriveIdle(w) ==
  /\ worker[w].pc = "idle"
  /\ Go(w, IF IdleAndLive THEN "recycle" ELSE "tail")
  /\ UNCHANGED <<serviceVars, requested, running, attempt, pending, hostVars, turn, svcMu, sessMu, boundVars>>

\* A reservation nobody consumed is dropped and the goal left alone.  No
\* code sets attemptState.stale, so every reservation takes this branch.
DriveRecycle(w) ==
  /\ worker[w].pc = "recycle"
  /\ attempt' = NoRound
  /\ Go(w, IF attempt # NoRound THEN "tail" ELSE "reserve")
  /\ UNCHANGED <<serviceVars, requested, running, pending, hostVars, turn, svcMu, sessMu, boundVars>>

DriveReserve(w) ==
  /\ worker[w].pc = "reserve"
  /\ svcMu = Free
  /\ IF Reservable /\ state.rounds >= state.goal.cap
     THEN Lock(w) /\ Go(w, "limit")
     ELSE /\ UNCHANGED svcMu
          /\ IF Reservable
             THEN worker' = [worker EXCEPT ![w] = [pc |-> "book", round |-> NextRound]]
             ELSE Go(w, "tail")
  /\ UNCHANGED <<serviceVars, requested, running, attempt, pending, hostVars, turn, sessMu, boundVars>>

DriveLimit(w) ==
  /\ worker[w].pc = "limit"
  /\ svcMu = w /\ sessMu = Free
  /\ \E now \in Clock : BlockAtLimit(now)
  /\ Release /\ SpawnRequest
  /\ Go(w, "tail")
  /\ UNCHANGED <<requested, running, attempt, hostVars, turn, sessMu, boundVars>>

DriveBook(w) ==
  /\ worker[w].pc = "book"
  /\ attempt' = worker[w].round
  /\ Go(w, "start")
  /\ UNCHANGED <<serviceVars, requested, running, pending, hostVars, turn, svcMu, sessMu, boundVars>>

\* Mutant: the agent is claimed on the strength of the earlier idle check.
DriveStartUnchecked(w) ==
  /\ worker[w].pc = "start"
  /\ busy' = TRUE /\ goalTurn' = TRUE
  /\ Go(w, "tail")
  /\ \E t \in Turns :
       /\ turn[t].pc = "off"
       /\ turn' = [turn EXCEPT ![t] = GoalTurn(worker[w].round)]
  /\ UNCHANGED <<serviceVars, requested, running, attempt, pending, queued, main, svcMu, sessMu, boundVars>>

\* entry.RunRound: claim the agent, or fail because someone else has it.
DriveStart(w) ==
  /\ worker[w].pc = "start"
  /\ IF busy
     THEN Go(w, "unbook") /\ UNCHANGED <<busy, goalTurn, turn>>
     ELSE /\ busy' = TRUE /\ goalTurn' = TRUE
          /\ Go(w, "tail")
          /\ \E t \in Turns :
               /\ turn[t].pc = "off"
               /\ turn' = [turn EXCEPT ![t] = GoalTurn(worker[w].round)]
  /\ UNCHANGED <<serviceVars, requested, running, attempt, pending, queued, main, svcMu, sessMu, boundVars>>

DriveUnbook(w) ==
  LET r == worker[w].round IN
  /\ worker[w].pc = "unbook"
  /\ attempt' = IF attempt.id = r.id /\ attempt.round = r.round THEN NoRound ELSE attempt
  /\ Go(w, "failed")
  /\ UNCHANGED <<serviceVars, requested, running, pending, hostVars, turn, svcMu, sessMu, boundVars>>

\* queue-failed: the view is read first, then Block takes the lock again.
DriveFailed(w) ==
  LET r == worker[w].round IN
  /\ worker[w].pc = "failed"
  /\ svcMu = Free
  /\ Go(w, IF Current(r.id, r.revision) /\ Reservable THEN "block" ELSE "tail")
  /\ UNCHANGED <<serviceVars, requested, running, attempt, pending, hostVars, turn, svcMu, sessMu, boundVars>>

DriveBlock(w) ==
  LET r == worker[w].round IN
  /\ worker[w].pc = "block"
  /\ \/ /\ Lock(w)
        /\ UNCHANGED <<serviceVars, worker, pending>>
     \/ /\ svcMu = w
        /\ IF Current(r.id, r.revision) /\ state.goal.phase = "active"
           THEN /\ sessMu = Free
                /\ \E now \in Clock : Block(r.id, r.revision, "queue-failed", now)
                /\ SpawnRequest
           ELSE UNCHANGED <<serviceVars, pending>>
        /\ Release
        /\ Go(w, "tail")
  /\ UNCHANGED <<requested, running, attempt, hostVars, turn, sessMu, boundVars>>

WorkerStep(w) ==
  \/ WorkerHead(w) \/ WorkerTail(w)
  \/ DriveIdle(w) \/ DriveRecycle(w) \/ DriveReserve(w) \/ DriveLimit(w)
  \/ DriveBook(w) \/ DriveStart(w) \/ DriveUnbook(w) \/ DriveFailed(w) \/ DriveBlock(w)

-----------------------------------------------------------------------------
(* A goal turn: the gate in two sections (Driver.mu, then Service.mu), the *)
(* append of the goal message, the listener that advances the mirror.      *)

GateDriver(t) ==
  /\ turn[t].pc = "gate"
  /\ IF attempt = turn[t].round
     THEN Turn(t, "gateService") /\ UNCHANGED attempt
     ELSE Turn(t, "disarm") /\ attempt' = NoRound
  /\ UNCHANGED <<serviceVars, requested, running, worker, pending, hostVars, svcMu, sessMu, boundVars>>

\* Mutant: the driver's own reservation is all the gate asks for.
GateServiceOpen(t) ==
  /\ turn[t].pc = "gateService"
  /\ svcMu = Free
  /\ Turn(t, "append")
  /\ UNCHANGED <<serviceVars, driverVars, hostVars, svcMu, sessMu, boundVars>>

GateService(t) ==
  /\ turn[t].pc = "gateService"
  /\ svcMu = Free
  /\ Turn(t, IF GateCheck(turn[t].round) THEN "append" ELSE "disarm")
  /\ UNCHANGED <<serviceVars, driverVars, hostVars, svcMu, sessMu, boundVars>>

\* The gate rejected: fail closed, the message is not appended and the turn
\* ends as blocked.
GateDisarm(t) ==
  /\ turn[t].pc = "disarm"
  /\ DisarmAndRequest
  /\ turn' = [turn EXCEPT ![t].pc = "finish", ![t].end = "blocked"]
  /\ UNCHANGED <<requested, running, attempt, worker, hostVars, svcMu, sessMu, boundVars>>

AppendGoalMessage(t) ==
  /\ turn[t].pc = "append"
  /\ sessMu = Free
  /\ AppendRound(turn[t].round)
  /\ sessMu' = t
  /\ Turn(t, "admit")
  /\ UNCHANGED <<state, act, minted, driverVars, hostVars, svcMu, boundVars>>

AdmitGoalMessage(t) ==
  /\ turn[t].pc = "admit"
  /\ svcMu = Free
  /\ AdmitRound(turn[t].round)
  /\ sessMu' = Free
  /\ Turn(t, "run")
  /\ UNCHANGED <<act, folded, corrupt, events, minted, driverVars, hostVars, svcMu, boundVars>>

-----------------------------------------------------------------------------
(* The model's goal tools, called inside a turn.  A human turn may use all *)
(* of them, a goal round may end its own goal.                             *)

HumanTool(now) ==
  LET id == state.goal.id  rev == state.goal.revision IN
  \/ \E cap \in RoundCaps : Create(cap, now) \/ Edit(id, rev, cap, now)
  \/ Pause(id, rev, now)
  \/ state.goal.phase # "paused" /\ Resume(id, rev, now)
  \/ Complete(id, rev, now)
  \/ Block(id, rev, "model-reported", now)

\* completionAuthority: the round's own goal, at the revision and round the
\* turn was started for.
HasAuthority(r) ==
  state.goal.id = r.id /\ state.goal.revision = r.revision /\ state.rounds = r.round

RoundTool(r, now) ==
  /\ HasAuthority(r)
  /\ \/ Complete(r.id, r.revision, now)
     \/ state.rounds >= BlockedAfter /\ Block(r.id, r.revision, "model-reported", now)

\* A call the service refuses comes back as an error of the tool, which
\* runTool answers with a nil result: the process dies of it (AgentTurn).
\* What is left to this module are the calls that commit.
CallTool(t) ==
  /\ turn[t].pc = "run"
  /\ turn[t].kind = "goal" => HasAuthority(turn[t].round) /\ state.goal.phase # "complete"
  /\ tools < MaxTools
  /\ Lock(t)
  /\ tools' = tools + 1
  /\ UNCHANGED <<serviceVars, driverVars, hostVars, turn, sessMu, prompts, cancels, commands>>

ToolCommits(t) ==
  /\ turn[t].pc = "run"
  /\ svcMu = t /\ sessMu = Free
  /\ \E now \in Clock :
       IF turn[t].kind = "human" THEN HumanTool(now) ELSE RoundTool(turn[t].round, now)
  /\ SpawnRequest
  /\ Release
  /\ UNCHANGED <<requested, running, attempt, worker, hostVars, turn, sessMu, boundVars>>

\* The loop of steps ends; only a cancelled turn ends as aborted.
EndTurn(t) ==
  /\ turn[t].pc = "run"
  /\ svcMu # t
  /\ \E kind \in {"completed", "max-tokens", "aborted"} :
       /\ kind = "aborted" => turn[t].cancelled
       /\ turn' = [turn EXCEPT ![t].pc = "finish", ![t].end = kind]
  /\ UNCHANGED <<serviceVars, driverVars, hostVars, svcMu, sessMu, boundVars>>

-----------------------------------------------------------------------------
(* finishTurn and OnTurnEnd.                                               *)

\* Mutant: the agent is released although a prompt waits.
FinishTurnReleases(t) ==
  /\ turn[t].pc = "finish"
  /\ goalTurn' = FALSE /\ busy' = FALSE /\ UNCHANGED queued
  /\ turn' = [turn EXCEPT ![t].pc = "fence", ![t].wasGoal = goalTurn]
  /\ UNCHANGED <<serviceVars, driverVars, svcMu, sessMu, main, boundVars>>

\* finishTurn: the flag is read and reset, and the agent goes to the prompt
\* that waits, or is free.
FinishTurn(t) ==
  /\ turn[t].pc = "finish"
  /\ goalTurn' = FALSE
  /\ busy' = (queued > 0)
  /\ queued' = IF queued > 0 THEN queued - 1 ELSE 0
  /\ turn' = [turn EXCEPT ![t].pc = "fence", ![t].wasGoal = goalTurn, ![t].next = queued > 0]
  /\ UNCHANGED <<serviceVars, driverVars, svcMu, sessMu, main, boundVars>>

OnTurnEndFence(t) ==
  /\ turn[t].pc = "fence"
  /\ IF turn[t].wasGoal /\ turn[t].end = "max-tokens"
     THEN DisarmAndRequest /\ Turn(t, "clear")
     ELSE /\ UNCHANGED <<serviceVars, pending>>
          /\ IF turn[t].wasGoal /\ turn[t].end = "aborted"
             THEN /\ svcMu = Free
                  /\ turn' = [turn EXCEPT
                       ![t].pc = IF state.goal.phase = "active" THEN "pause" ELSE "clear",
                       ![t].seen = IF state.goal.phase = "active"
                                   THEN [NoRound EXCEPT !.id = state.goal.id,
                                                        !.revision = state.goal.revision]
                                   ELSE NoRound]
             ELSE Turn(t, "clear")
  /\ UNCHANGED <<requested, running, attempt, worker, hostVars, svcMu, sessMu, boundVars>>

\* Pause of the goal seen above; refused when it moved in between.
OnTurnEndPause(t) ==
  LET seen == turn[t].seen IN
  /\ turn[t].pc = "pause"
  /\ \/ /\ Lock(t)
        /\ UNCHANGED <<serviceVars, turn, pending>>
     \/ /\ svcMu = t
        /\ IF Current(seen.id, seen.revision) /\ state.goal.phase = "active"
           THEN /\ sessMu = Free
                /\ \E now \in Clock : Pause(seen.id, seen.revision, now)
                /\ SpawnRequest
           ELSE UNCHANGED <<serviceVars, pending>>
        /\ Release
        /\ Turn(t, "clear")
  /\ UNCHANGED <<requested, running, attempt, worker, hostVars, sessMu, boundVars>>

OnTurnEndClear(t) ==
  /\ turn[t].pc = "clear"
  /\ attempt' = NoRound
  /\ Turn(t, "request")
  /\ UNCHANGED <<serviceVars, requested, running, worker, pending, hostVars, svcMu, sessMu, boundVars>>

\* Mutant: the end of a turn asks for no drive.
OnTurnEndSilent(t) ==
  /\ turn[t].pc = "request"
  /\ turn' = [turn EXCEPT ![t] = IF turn[t].next THEN HumanTurn ELSE Idle]
  /\ UNCHANGED <<serviceVars, driverVars, hostVars, svcMu, sessMu, boundVars>>

\* The last step asks for a drive and starts the human prompt finishTurn
\* took from the queue.
OnTurnEndRequest(t) ==
  /\ turn[t].pc = "request"
  /\ RequestDrive
  /\ turn' = [turn EXCEPT ![t] = IF turn[t].next THEN HumanTurn ELSE Idle]
  /\ UNCHANGED <<serviceVars, attempt, pending, hostVars, svcMu, sessMu, boundVars>>

TurnStep(t) ==
  \/ GateDriver(t) \/ GateService(t) \/ GateDisarm(t)
  \/ AppendGoalMessage(t) \/ AdmitGoalMessage(t)
  \/ ToolCommits(t) \/ EndTurn(t)
  \/ FinishTurn(t) \/ OnTurnEndFence(t) \/ OnTurnEndPause(t)
  \/ OnTurnEndClear(t) \/ OnTurnEndRequest(t)

\* What happens behind either host.
RoundsNext ==
  \/ \E w \in Workers : WorkerStep(w)
  \/ PendingRequest
  \/ \E t \in Turns : CallTool(t) \/ TurnStep(t)

\* The Go scheduler runs every goroutine that can run, and a turn's model
\* calls end; prompts, cancels, commands and tool calls owe nobody anything.
RoundsFairness ==
  /\ \A w \in Workers : WF_roundsVars(WorkerStep(w))
  /\ WF_roundsVars(PendingRequest)
  /\ \A t \in Turns : WF_roundsVars(TurnStep(t))

-----------------------------------------------------------------------------
(* Properties of the composition, whoever the host is.                     *)

RoundRef == [id : Nat, revision : Nat, round : Nat]

WorkerPlaces == {"off", "head", "idle", "recycle", "reserve", "limit", "book", "start",
                 "unbook", "failed", "block", "tail"}
WorkerStates == [pc : WorkerPlaces, round : RoundRef]

TurnPlaces == {"off", "gate", "gateService", "disarm", "append", "admit", "run",
               "finish", "fence", "pause", "clear", "request"}
TurnStates == [pc : TurnPlaces, kind : {"human", "goal"}, round : RoundRef, cancelled : BOOLEAN,
               end : {"none", "completed", "max-tokens", "aborted", "blocked"},
               wasGoal : BOOLEAN, next : BOOLEAN, seen : RoundRef]

RoundsTypeOK ==
  /\ TypeOK
  /\ requested \in BOOLEAN /\ running \in BOOLEAN /\ attempt \in RoundRef
  /\ worker \in [Workers -> WorkerStates]
  /\ pending \in Nat /\ queued \in Nat
  /\ busy \in BOOLEAN /\ goalTurn \in BOOLEAN
  /\ turn \in [Turns -> TurnStates]
  /\ svcMu \in Workers \cup Turns \cup {Free} /\ sessMu \in Turns \cup {Free}
  /\ main \in {"serve", "prompt", "drain", "quiet", "exit"}

\* finishTurn reports each turn to the driver as what it was: a goal turn's
\* fences never apply to a human turn, nor the reverse (server.go:215-232).
TurnReportedAsItWas ==
  \A t \in Turns : turn[t].pc \in {"fence", "pause", "clear", "request"} =>
    turn[t].wasGoal = (turn[t].kind = "goal")

\* A request to drive is never lost: while one is recorded a worker is in
\* flight that has yet to look at it, and there is one worker at most
\* (driver.go:82-137).
RequestNeverLost ==
  /\ requested => running
  /\ running => Cardinality({w \in Workers : worker[w].pc # "off"}) = 1
  /\ ~running => \A w \in Workers : worker[w].pc = "off"

\* Outside the append itself the mirror is the log's fold, and the log can
\* be folded: a restart would mount the session with the same goal
\* (goal.go:653-655, server/goal.go:50-51).
LogAgrees == ~corrupt /\ (sessMu = Free => state = folded)

\* The same, as long as nobody cancels: then no commit can fall between the
\* gate of a goal message and its append.
LogAgreesUncancelled == cancels = 0 => LogAgrees

\* No goroutine sits in a commit, Service.mu held and Session.mu wanted,
\* while the append of a goal message holds Session.mu and its listener
\* wants Service.mu: the public methods may be called concurrently
\* (goal.go:340-342).
Committing(x) ==
  /\ svcMu = x
  /\ \/ x \in Workers /\ worker[x].pc = "limit"
     \/ x \in Turns /\ turn[x].pc = "run"
     \/ /\ x \in Turns /\ turn[x].pc = "pause"
        /\ Current(turn[x].seen.id, turn[x].seen.revision) /\ state.goal.phase = "active"
NoLockCycle == sessMu # Free => \A x \in Workers \cup Turns : ~Committing(x)

=============================================================================
