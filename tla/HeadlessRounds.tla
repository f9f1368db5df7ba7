---------------------------- MODULE HeadlessRounds ----------------------------
(***************************************************************************)
(* GoalRounds behind the headless host (internal/app/headless.go): the one *)
(* human turn is run by the main goroutine, which never claims busy, and   *)
(* the process exits as soon as drain finds host and driver quiet.         *)
(***************************************************************************)
EXTENDS GoalRounds

\* Everything but the place of the main goroutine.
othersVars == <<serviceVars, driverVars, busy, goalTurn, queued, turn, svcMu, sessMu, boundVars>>

HeadlessInit ==
  /\ RoundsInit
  /\ busy = FALSE
  /\ \E t \in Turns : turn = [u \in Turns |-> IF u = t THEN HumanTurn ELSE Idle]
  /\ main = "prompt"

\* a.Prompt and turnDone have returned to the main goroutine.
MainReturns ==
  /\ main = "prompt"
  /\ \A t \in Turns : turn[t].pc = "off" \/ turn[t].kind = "goal"
  /\ main' = "drain"
  /\ UNCHANGED othersVars

\* drain reads busy and then, in another section, Driver.Quiet.
DrainBusy ==
  /\ main = "drain"
  /\ ~busy
  /\ main' = "quiet"
  /\ UNCHANGED othersVars

Quiet == ~requested /\ ~running /\ attempt = NoRound

DrainQuiet ==
  /\ main = "quiet"
  /\ ~Quiet
  /\ main' = "drain"
  /\ UNCHANGED othersVars

\* The process ends, and every goroutine with it.
Exit ==
  /\ main = "quiet"
  /\ Quiet
  /\ main' = "exit"
  /\ pending' = 0
  /\ worker' = [w \in Workers |-> Sleeping]
  /\ turn' = [t \in Turns |-> Idle]
  /\ UNCHANGED <<serviceVars, requested, running, attempt, busy, goalTurn, queued, svcMu, sessMu,
                 boundVars>>

MainStep == MainReturns \/ DrainBusy \/ DrainQuiet \/ Exit

HeadlessNext == RoundsNext \/ MainStep

HeadlessSpec == HeadlessInit /\ [][HeadlessNext]_roundsVars

-----------------------------------------------------------------------------
(* Properties.                                                             *)

\* The process exits only between rounds: drain waits until no turn is in
\* flight (headless.go:163-165).
ExitsBetweenRounds ==
  [][Exit => \A t \in Turns : turn[t].pc \notin {"append", "admit", "run"}]_roundsVars

=============================================================================
