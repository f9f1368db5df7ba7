---------------------------- MODULE MCGoalService ----------------------------
(* Small instance of GoalService: caps 1 and 2 (and absent), a clock that  *)
(* may step back, a log of five goal events.                               *)
EXTENDS GoalService

MCRoundCaps == {0, 1, 2}
MCBlockCodes == {"round-limit", "model-reported"}
MCClock == {0, 1}
=============================================================================
