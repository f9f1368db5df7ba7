----------------------------- MODULE ServerRounds -----------------------------
(***************************************************************************)
(* GoalRounds behind the server's session entry: prompts, cancels and      *)
(* /compact commands arrive from any connection at any time.               *)
(***************************************************************************)
EXTENDS GoalRounds

ServerInit == RoundsInit /\ main = "serve" /\ busy = FALSE /\ turn = [t \in Turns |-> Idle]

StartHuman ==
  /\ main = "serve"
  /\ prompts < MaxPrompts
  /\ prompts' = prompts + 1
  /\ IF busy
     THEN queued' = queued + 1 /\ UNCHANGED <<busy, turn>>
     ELSE /\ busy' = TRUE
          /\ \E t \in Turns : turn[t].pc = "off" /\ turn' = [turn EXCEPT ![t] = HumanTurn]
          /\ UNCHANGED queued
  /\ UNCHANGED <<serviceVars, driverVars, goalTurn, main, svcMu, sessMu, tools, cancels, commands>>

\* A cancel reaches the context of the turn in flight; with none it is lost.
Cancel ==
  /\ main = "serve"
  /\ cancels < MaxCancels
  /\ cancels' = cancels + 1
  /\ \E t \in Turns : InTurn(t) /\ turn' = [turn EXCEPT ![t].cancelled = TRUE]
  /\ UNCHANGED <<serviceVars, driverVars, hostVars, svcMu, sessMu, prompts, tools, commands>>

\* The end of a /compact command: driveAfterCommand.
Compacted ==
  /\ main = "serve"
  /\ commands < MaxCommands
  /\ commands' = commands + 1
  /\ RequestDrive
  /\ UNCHANGED <<serviceVars, attempt, pending, hostVars, turn, svcMu, sessMu, prompts, tools, cancels>>

ServerNext == RoundsNext \/ StartHuman \/ Cancel \/ Compacted

ServerSpec == ServerInit /\ [][ServerNext]_roundsVars

FairServerSpec == ServerSpec /\ RoundsFairness

-----------------------------------------------------------------------------
(* Properties.                                                             *)

\* Whoever is inside a turn of the agent holds busy until finishTurn has
\* released it, and holds it alone (server.go:86-90, 214-229, 270-278).
TurnHoldsAgent ==
  \A t \in Turns : InTurn(t) \/ turn[t].pc = "finish" =>
    /\ busy
    /\ \A u \in Turns \ {t} : ~InTurn(u) /\ turn[u].pc # "finish"

\* Human input is waiting only while a turn is in flight or about to start,
\* so a goal round can never pass a queued prompt (server.go:119-120, 212-226).
HumanFirst == queued > 0 => busy

\* A prompt that had to wait is eventually run (server.go:212-226).
QueuedPromptRuns == queued > 0 ~> queued = 0

\* An armed active goal does not sit still: a round of it is admitted, or
\* something withdraws the grant (driver.go:141-159).
GoalContinues ==
  \A n \in 0..1 :
    (Reservable /\ state.rounds = n /\ n < state.goal.cap)
      ~> (~Reservable \/ state.rounds # n \/ n >= state.goal.cap)

=============================================================================
