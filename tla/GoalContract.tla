----------------------------- MODULE GoalContract -----------------------------
(***************************************************************************)
(* What the goal service promises its callers, without revisions, events   *)
(* or clocks: a goal moves along the phase graph, only an active goal is   *)
(* continued, only a grant (open, continue, arm) lets the process continue *)
(* it, and every round is paid for from the goal's own budget.             *)
(***************************************************************************)
EXTENDS Integers

VARIABLES
  phase,   (* "none" when the session has no goal                *)
  armed,   (* may this process start the next round by itself?   *)
  spent,   (* rounds charged to the current goal                 *)
  cap      (* rounds the current goal may be charged             *)

contractVars == <<phase, armed, spent, cap>>

Unfinished == {"active", "paused", "blocked"}

Init == phase = "none" /\ armed = FALSE /\ spent = 0 /\ cap = 0

\* A new goal, when there is none or the last one is complete.
Open ==
  /\ phase \in {"none", "complete"}
  /\ phase' = "active" /\ armed' = TRUE /\ spent' = 0
  /\ cap' \in Nat \ {0}

\* A change of objective or cap; it neither moves the phase nor grants.
Amend ==
  /\ phase # "none"
  /\ cap' \in Nat \ {0}
  /\ UNCHANGED <<phase, armed, spent>>

Stop ==
  /\ phase = "active"
  /\ phase' \in {"paused", "blocked"} /\ armed' = FALSE
  /\ UNCHANGED <<spent, cap>>

Finish ==
  /\ phase \in Unfinished
  /\ phase' = "complete" /\ armed' = FALSE
  /\ UNCHANGED <<spent, cap>>

Continue ==
  /\ phase \in Unfinished /\ ~(phase = "active" /\ armed)
  /\ spent < cap
  /\ phase' = "active" /\ armed' = TRUE
  /\ UNCHANGED <<spent, cap>>

Drop ==
  /\ phase # "none"
  /\ phase' = "none" /\ armed' = FALSE /\ spent' = 0 /\ cap' = 0

\* Withdrawn by the user, by a fence, or by a restart of the process.
Withdraw == armed' = FALSE /\ UNCHANGED <<phase, spent, cap>>

Grant ==
  /\ phase = "active" /\ spent < cap
  /\ armed' = TRUE
  /\ UNCHANGED <<phase, spent, cap>>

Round ==
  /\ phase = "active" /\ armed
  /\ spent < cap
  /\ spent' = spent + 1
  /\ UNCHANGED <<phase, armed, cap>>

Next ==
  \/ Open \/ Amend \/ Stop \/ Finish \/ Continue \/ Drop
  \/ Withdraw \/ Grant \/ Round

Spec == Init /\ [][Next]_contractVars

=============================================================================
