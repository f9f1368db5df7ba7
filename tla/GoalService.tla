----------------------------- MODULE GoalService -----------------------------
(***************************************************************************)
(* goal.Service (internal/goal/goal.go): the goal of one session.  Every   *)
(* operation runs under the service's mutex; a committing operation first  *)
(* appends a goal/change event to the session log, then advances the       *)
(* in-process projection by applyChange.  The same applyChange rebuilds    *)
(* the projection from the log (Fold) when a service is constructed.       *)
(*                                                                         *)
(* This module is the serial view: one operation at a time.  GoalRounds    *)
(* composes the same operations with the driver, the turn goroutines and   *)
(* the two mutexes.                                                        *)
(***************************************************************************)
EXTENDS Integers

CONSTANTS
  RoundCaps,            (* values a caller passes as maxGoalRounds; 0 = absent *)
  DefaultMaxGoalRounds, (* the cap used when none is given                     *)
  BlockCodes,           (* codes of a block reason (lower-kebab in the code)   *)
  Clock,                (* wall clock readings: time.Now() may go backwards    *)
  MaxEvents             (* bound: goal events appended to the log              *)

ASSUME ServiceAssumption ==
  /\ RoundCaps \subseteq Nat
  /\ DefaultMaxGoalRounds \in Nat \ {0}
  /\ "none" \notin BlockCodes
  /\ "round-limit" \in BlockCodes
  /\ Clock \subseteq Nat
  /\ MaxEvents \in Nat

VARIABLES
  state,    (* Service.state: the process mirror of the projection            *)
  act,      (* Service.act: process-local activation, never persisted         *)
  folded,   (* what Fold rebuilds from the events in the log so far           *)
  corrupt,  (* TRUE when Fold rejects the log (the session cannot be mounted) *)
  events,   (* number of goal events in the log                               *)
  minted    (* number of goal ids handed out by newGoalID                     *)

serviceVars == <<state, act, folded, corrupt, events, minted>>

-----------------------------------------------------------------------------
(* The projection (FoldState) and the events that move it.                 *)

Phases == {"active", "paused", "blocked", "complete"}

NoGoal == [id |-> 0, revision |-> 0, phase |-> "none", cap |-> 0, reason |-> "none"]

NoState == [goal |-> NoGoal, rounds |-> 0, createdAt |-> 0, updatedAt |-> 0]

HasGoal(st) == st.goal.id # 0

\* A goal/change event: the next snapshot with the counters it carries.
\* A clear carries only the tombstone's id and revision.
Change(op, goal, st, now) ==
  [op |-> op, goal |-> goal, rounds |-> st.rounds,
   createdAt |-> st.createdAt, updatedAt |-> now]

TransitionOK(cur, op, next, rounds) ==
  \/ op = "edit" /\ next.phase = cur.phase /\ next.reason = cur.reason
  \/ op = "pause" /\ cur.phase = "active" /\ next.phase = "paused" /\ next.reason = "none"
  \/ op = "resume" /\ cur.phase \in {"active", "paused", "blocked"}
       /\ next.phase = "active" /\ rounds < next.cap /\ next.reason = "none"
  \/ op = "complete" /\ cur.phase \in {"active", "paused", "blocked"}
       /\ next.phase = "complete" /\ next.reason = "none"
  \/ op = "block" /\ cur.phase = "active" /\ next.phase = "blocked" /\ next.reason # "none"

ClearOK(st, ch) ==
  /\ HasGoal(st)
  /\ ch.goal.id = st.goal.id /\ ch.goal.revision = st.goal.revision + 1
  /\ ch.updatedAt >= st.updatedAt

SnapshotOK(st, ch) ==
  /\ ch.goal.cap >= 1
  /\ ch.rounds >= 0
  /\ ch.updatedAt >= ch.createdAt
  /\ \/ /\ ch.op = "create"
        /\ ch.rounds = 0 /\ ch.goal.revision = 1 /\ ch.goal.phase = "active"
        /\ HasGoal(st) => st.goal.phase = "complete"
        /\ ch.goal.reason = "none"
     \/ /\ ch.op # "create"
        /\ HasGoal(st)
        /\ ch.goal.id = st.goal.id /\ ch.goal.revision = st.goal.revision + 1
        /\ ch.createdAt = st.createdAt /\ ch.updatedAt >= st.updatedAt
        /\ ch.rounds = st.rounds
        /\ TransitionOK(st.goal, ch.op, ch.goal, st.rounds)

\* applyChange: which changes it accepts, and the projection it returns.
ChangeOK(st, ch) ==
  IF ch.op = "clear" THEN ClearOK(st, ch) ELSE SnapshotOK(st, ch)

applyChange(st, ch) ==
  IF ch.op = "clear" THEN NoState
  ELSE [goal |-> ch.goal, rounds |-> ch.rounds,
        createdAt |-> ch.createdAt, updatedAt |-> ch.updatedAt]

\* The user/message of a goal round, as Fold checks it.
RoundOK(st, r) ==
  /\ HasGoal(st) /\ st.goal.phase = "active"
  /\ r.id = st.goal.id /\ r.revision = st.goal.revision
  /\ r.round = st.rounds + 1 /\ r.round <= st.goal.cap

\* Fold is a left fold over the log: appending an event advances the
\* projection by one step, and an event it rejects makes the log unreadable
\* for good.
AppendChange(ch) ==
  /\ events < MaxEvents
  /\ events' = events + 1
  /\ IF ~corrupt /\ ChangeOK(folded, ch)
     THEN folded' = applyChange(folded, ch) /\ UNCHANGED corrupt
     ELSE corrupt' = TRUE /\ UNCHANGED folded

AppendRound(r) ==
  /\ events < MaxEvents
  /\ events' = events + 1
  /\ IF ~corrupt /\ RoundOK(folded, r)
     THEN folded' = [folded EXCEPT !.rounds = r.round] /\ UNCHANGED corrupt
     ELSE corrupt' = TRUE /\ UNCHANGED folded

-----------------------------------------------------------------------------
(* Service operations.                                                     *)

Init ==
  /\ state = NoState /\ folded = NoState
  /\ act = "disarmed"
  /\ corrupt = FALSE
  /\ events = 0 /\ minted = 0

\* commitLocked: the event is in the log before applyChange looks at it.
commitLocked(ch, activation) ==
  /\ AppendChange(ch)
  /\ IF ChangeOK(state, ch)
     THEN state' = applyChange(state, ch) /\ act' = activation
     ELSE UNCHANGED <<state, act>>

\* Mutant: the clock is taken as it is.
clockAsItIs(prev, now) == now

nextMutationTime(prev, now) == IF now < prev THEN prev ELSE now

\* expectCurrentLocked: callers name the revision they saw.
Current(id, revision) ==
  HasGoal(state) /\ id = state.goal.id /\ revision = state.goal.revision

Revise(op, next, now, activation) ==
  commitLocked(Change(op, [next EXCEPT !.revision = @ + 1], state,
                      nextMutationTime(state.updatedAt, now)), activation)

\* Mutant: a new goal takes over the id of the completed one.
CreateReusesId(cap, now) ==
  LET g == [id |-> IF HasGoal(state) THEN state.goal.id ELSE minted + 1,
            revision |-> 1, phase |-> "active",
            cap |-> IF cap = 0 THEN DefaultMaxGoalRounds ELSE cap, reason |-> "none"]
  IN  /\ HasGoal(state) => state.goal.phase = "complete"
      /\ minted' = minted + 1
      /\ commitLocked([op |-> "create", goal |-> g, rounds |-> 0,
                       createdAt |-> now, updatedAt |-> now], "armed")

Create(cap, now) ==
  LET chosen == IF cap = 0 THEN DefaultMaxGoalRounds ELSE cap
      g == [id |-> minted + 1, revision |-> 1, phase |-> "active",
            cap |-> chosen, reason |-> "none"]
  IN  /\ HasGoal(state) => state.goal.phase = "complete"
      /\ minted' = minted + 1
      /\ commitLocked([op |-> "create", goal |-> g, rounds |-> 0,
                       createdAt |-> now, updatedAt |-> now], "armed")

\* Edit: an absent cap (0) edits the objective only.
Edit(id, revision, cap, now) ==
  /\ Current(id, revision)
  /\ Revise("edit", IF cap = 0 THEN state.goal ELSE [state.goal EXCEPT !.cap = cap],
            now, act)
  /\ UNCHANGED minted

transitionLocked(id, revision, op, allowed, phase, now) ==
  /\ Current(id, revision)
  /\ state.goal.phase \in allowed
  /\ Revise(op, [state.goal EXCEPT !.phase = phase, !.reason = "none"], now, "disarmed")
  /\ UNCHANGED minted

Pause(id, revision, now) ==
  transitionLocked(id, revision, "pause", {"active"}, "paused", now)

Complete(id, revision, now) ==
  transitionLocked(id, revision, "complete", {"active", "paused", "blocked"}, "complete", now)

Resume(id, revision, now) ==
  /\ Current(id, revision)
  /\ state.goal.phase \in {"active", "paused", "blocked"}
  /\ ~(state.goal.phase = "active" /\ act = "armed")
  /\ state.rounds < state.goal.cap
  /\ Revise("resume", [state.goal EXCEPT !.phase = "active", !.reason = "none"], now, "armed")
  /\ UNCHANGED minted

Block(id, revision, code, now) ==
  /\ Current(id, revision)
  /\ state.goal.phase = "active"
  /\ Revise("block", [state.goal EXCEPT !.phase = "blocked", !.reason = code], now, "disarmed")
  /\ UNCHANGED minted

Clear(id, revision, now) ==
  /\ Current(id, revision)
  /\ commitLocked(Change("clear", [NoGoal EXCEPT !.id = id, !.revision = revision + 1], state,
                         nextMutationTime(state.updatedAt, now)), "disarmed")
  /\ UNCHANGED minted

Disarm ==
  /\ act = "armed"
  /\ act' = "disarmed"
  /\ UNCHANGED <<state, folded, corrupt, events, minted>>

\* Mutant: the budget is not looked at.
ArmWithoutBudget ==
  /\ act = "disarmed"
  /\ state.goal.phase = "active"
  /\ act' = "armed"
  /\ UNCHANGED <<state, folded, corrupt, events, minted>>

Arm ==
  /\ act = "disarmed"
  /\ state.goal.phase = "active" /\ state.rounds < state.goal.cap
  /\ act' = "armed"
  /\ UNCHANGED <<state, folded, corrupt, events, minted>>

GateCheck(r) == RoundOK(state, r)

\* Mutant: a round of an older revision counts as well.
AdmitRoundAnyRevision(r) ==
  state' = IF HasGoal(state) /\ state.goal.id = r.id /\ state.rounds = r.round - 1
           THEN [state EXCEPT !.rounds = r.round] ELSE state

\* AdmitRound, the session listener: advance the mirror after the goal
\* message is in the log.
AdmitRound(r) ==
  state' = IF HasGoal(state) /\ state.goal.id = r.id /\ state.goal.revision = r.revision
              /\ state.rounds = r.round - 1
           THEN [state EXCEPT !.rounds = r.round]
           ELSE state

\* ReserveNextRound: what the driver may start next, or a block at the cap.
Reservable ==
  HasGoal(state) /\ state.goal.phase = "active" /\ act = "armed"

NextRound ==
  [id |-> state.goal.id, revision |-> state.goal.revision, round |-> state.rounds + 1]

BlockAtLimit(now) ==
  /\ Reservable
  /\ state.rounds >= state.goal.cap
  /\ Block(state.goal.id, state.goal.revision, "round-limit", now)

\* One goal round, run alone: the gate checks the reservation, the message
\* is appended and its listener advances the mirror.
RunRound ==
  /\ Reservable /\ state.rounds < state.goal.cap
  /\ GateCheck(NextRound)
  /\ AppendRound(NextRound)
  /\ AdmitRound(NextRound)
  /\ UNCHANGED <<act, minted>>

\* NewService on the same log: a new process, or the session mounted again.
NewService ==
  /\ ~corrupt
  /\ state' = folded
  /\ act' = "disarmed"
  /\ UNCHANGED <<folded, corrupt, events, minted>>

Next ==
  \/ \E now \in Clock :
       \/ \E cap \in RoundCaps : Create(cap, now)
       \/ \E id \in 1..minted, revision \in 1..(events + 1) :
            \/ \E cap \in RoundCaps : Edit(id, revision, cap, now)
            \/ Pause(id, revision, now)
            \/ Resume(id, revision, now)
            \/ Complete(id, revision, now)
            \/ \E code \in BlockCodes : Block(id, revision, code, now)
            \/ Clear(id, revision, now)
       \/ BlockAtLimit(now)
  \/ Disarm
  \/ Arm
  \/ RunRound
  \/ NewService

Spec == Init /\ [][Next]_serviceVars

-----------------------------------------------------------------------------
(* Properties.                                                             *)

Goal == [id : Nat, revision : Nat, phase : Phases \cup {"none"}, cap : Nat,
         reason : BlockCodes \cup {"none"}]

FoldState == [goal : Goal, rounds : Nat, createdAt : Nat, updatedAt : Nat]

TypeOK ==
  /\ state \in FoldState /\ folded \in FoldState
  /\ act \in {"armed", "disarmed"}
  /\ corrupt \in BOOLEAN
  /\ events \in Nat /\ minted \in Nat

\* The log is always readable and rebuilds exactly the state the process
\* acts on: commitLocked writes no change applyChange would refuse, at any
\* clock reading, and the mirror AdmitRound keeps is Fold's (goal.go:653-655).
MirrorsLog == ~corrupt /\ state = folded

\* The process may continue on its own only towards an active goal
\* (goal.go:638-639): every way out of active, and every restart, disarms.
ArmedOnlyActive == act = "armed" => state.goal.phase = "active"

\* A block reason is on record exactly while the goal is blocked: no resume,
\* completion or new goal keeps an old reason (goal.go:72).
ReasonOnlyBlocked == (state.goal.phase = "blocked") <=> (state.goal.reason # "none")

\* A round is charged to the budget once, in order, to the goal it was
\* reserved for, and only while the cap leaves room (goal.go:656-680).
BudgetStep ==
  state'.goal.id = state.goal.id /\ state'.rounds # state.rounds
  => /\ state'.rounds = state.rounds + 1
     /\ state'.rounds <= state.goal.cap
     /\ state.goal.phase = "active"
RoundsWithinBudget == [][BudgetStep]_serviceVars

\* Revisions are a compare-and-swap ticket: one revision per change, and a
\* goal that replaces another is never mistaken for it (goal.go:432-444).
RevisionStep ==
  state'.goal # state.goal
  => \/ /\ state'.goal.id = state.goal.id
        /\ state'.goal.revision = state.goal.revision + 1
     \/ state'.goal.id = 0
     \/ state'.goal.id > minted
RevisionsAdvance == [][RevisionStep]_serviceVars

\* Completion is final: a completed goal is never active, paused or blocked
\* again (goal.go:240, 248), only edited, cleared or replaced.
CompleteStep ==
  state.goal.phase = "complete" /\ state'.goal.id = state.goal.id
  => state'.goal.phase = "complete"
CompleteIsFinal == [][CompleteStep]_serviceVars

\* The service keeps the promise GoalContract states: revisions, events and
\* clock readings change nothing about which moves are possible.
Contract == INSTANCE GoalContract
  WITH phase <- state.goal.phase, armed <- (act = "armed"),
       spent <- state.rounds, cap <- state.goal.cap

\* The goal service refines its contract (goal.go:453-651).
KeepsContract == Contract!Spec

=============================================================================
