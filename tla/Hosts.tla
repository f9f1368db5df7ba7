-------------------------------- MODULE Hosts --------------------------------
(***************************************************************************)
(* The two hosts of the goal driver side by side: a process is either the  *)
(* server or the headless host, for good.                                  *)
(***************************************************************************)
EXTENDS ServerRounds, HeadlessRounds

IsServer == main = "serve"

HostsInit == ServerInit \/ HeadlessInit

\* What either host does, and what only one of them does.
HostsNext == RoundsNext \/ StartHuman \/ Cancel \/ Compacted \/ MainStep

HostsSpec == HostsInit /\ [][HostsNext]_roundsVars

-----------------------------------------------------------------------------
(* Properties.                                                             *)

\* The main goroutine of the headless host does not claim the agent for its
\* own turn, so a goal round may overlap it: what follows holds behind the
\* server, and RoundsWithinBudget behind both hosts.

\* Whoever is inside a turn holds the agent alone, and the turn is reported to
\* the driver as what it was (server.go:86-90, 214-232, 270-278).
ServerTurnsApart == IsServer => TurnHoldsAgent /\ TurnReportedAsItWas

\* While nobody cancels, the mirror is what a restart folds from the log
\* (goal.go:653-655, server/goal.go:50-51).
ServerLogAgrees == IsServer => LogAgreesUncancelled

=============================================================================
