----------------------------- MODULE GoalProofs ------------------------------
(***************************************************************************)
(* Theorems about the goal service, for every set of caps, codes and clock *)
(* readings and every length of log, and then about the goal driver that   *)
(* runs the service behind either host, for every number of workers and    *)
(* turns and every bound.                                                  *)
(***************************************************************************)
EXTENDS Hosts, FiniteSetTheorems, TLAPS

-----------------------------------------------------------------------------
(* The service alone.                                                      *)

\* A current goal is complete as a record; an absent one leaves nothing.
Coherent ==
  /\ ~HasGoal(state) => state = NoState
  /\ HasGoal(state) =>
       /\ state.goal.phase \in Phases
       /\ state.goal.revision >= 1 /\ state.goal.cap >= 1
       /\ state.updatedAt >= state.createdAt
       /\ state.goal.id <= minted

\* What the process holds is sound, whatever is in the log.
Core == TypeOK /\ ArmedOnlyActive /\ ReasonOnlyBlocked /\ Coherent

\* The inductive invariant.
IInv == Core /\ MirrorsLog

-----------------------------------------------------------------------------
(* What a commit does, once for all operations.                            *)

LEMMA NoStateType == NoState \in FoldState /\ NoGoal \in Goal
BY DEF NoState, NoGoal, FoldState, Goal

\* If applyChange accepts the change, the mirror takes the step, and the log,
\* if it agreed, takes the same one.
LEMMA CommitStep ==
  ASSUME Core, NEW ch, NEW activation,
         ChangeOK(state, ch), applyChange(state, ch) \in FoldState,
         commitLocked(ch, activation)
  PROVE  /\ state' = applyChange(state, ch) /\ act' = activation
         /\ folded' \in FoldState /\ corrupt' \in BOOLEAN
         /\ events' = events + 1
         /\ MirrorsLog => MirrorsLog'
<1>1. applyChange(folded, ch) = applyChange(state, ch)
  BY DEF applyChange
<1>2. folded \in FoldState /\ corrupt \in BOOLEAN
  BY DEF Core, TypeOK
<1> QED BY <1>1, <1>2 DEF MirrorsLog, commitLocked, AppendChange

\* A projection that holds a coherent goal.
Sound(st) ==
  /\ st \in FoldState
  /\ HasGoal(st)
  /\ st.updatedAt >= st.createdAt

\* A revision that stays within the phase graph is one applyChange accepts.
LEMMA RevisionAccepted ==
  ASSUME NEW st, Sound(st), NEW op, op \notin {"clear", "create"},
         NEW next \in Goal, next.id = st.goal.id, next.revision = st.goal.revision,
         next.cap >= 1, TransitionOK(st.goal, op, next, st.rounds),
         NEW now \in Nat
  PROVE  LET g == [next EXCEPT !.revision = @ + 1]
             t == nextMutationTime(st.updatedAt, now)
             ch == Change(op, g, st, t)
         IN  /\ ChangeOK(st, ch)
             /\ applyChange(st, ch) = [goal |-> g, rounds |-> st.rounds,
                                     createdAt |-> st.createdAt, updatedAt |-> t]
             /\ g \in Goal /\ t \in Nat /\ t >= st.updatedAt
<1> DEFINE g == [next EXCEPT !.revision = @ + 1]
           t == nextMutationTime(st.updatedAt, now)
           ch == Change(op, g, st, t)
<1>1. /\ g \in Goal /\ g.id = st.goal.id /\ g.revision = st.goal.revision + 1
      /\ g.cap >= 1 /\ g.phase = next.phase /\ g.reason = next.reason /\ g.cap = next.cap
  BY DEF Goal
<1>2. t \in Nat /\ t >= st.updatedAt
  BY DEF nextMutationTime, FoldState, Sound
<1>3. /\ st.rounds \in Nat /\ st.createdAt \in Nat /\ st.updatedAt \in Nat
      /\ st.updatedAt >= st.createdAt
      /\ st = [goal |-> st.goal, rounds |-> st.rounds,
               createdAt |-> st.createdAt, updatedAt |-> st.updatedAt]
  BY DEF FoldState, Sound
<1>4. /\ ch.op = op /\ ch.goal = g /\ ch.rounds = st.rounds
      /\ ch.createdAt = st.createdAt /\ ch.updatedAt = t
  BY DEF Change
<1> HIDE DEF g, t, ch
<1>5. TransitionOK(st.goal, ch.op, ch.goal, st.rounds)
  BY <1>1, <1>4 DEF TransitionOK
<1>6. ch.updatedAt >= ch.createdAt
  BY <1>2, <1>3, <1>4
<1>7. SnapshotOK(st, ch)
  BY <1>1, <1>2, <1>3, <1>4, <1>5, <1>6 DEF SnapshotOK, Sound
<1>8. ChangeOK(st, ch)
  BY <1>4, <1>7 DEF ChangeOK
<1>9. applyChange(st, ch) = [goal |-> g, rounds |-> st.rounds,
                             createdAt |-> st.createdAt, updatedAt |-> t]
  BY <1>4 DEF applyChange
<1> QED BY <1>1, <1>2, <1>8, <1>9 DEF g, t, ch

\* A committed revision keeps the invariant and leaves the rounds alone.
LEMMA ReviseStep ==
  ASSUME Core, HasGoal(state), NEW op, op \notin {"clear", "create"},
         NEW next \in Goal, next.id = state.goal.id,
         next.revision = state.goal.revision, next.cap >= 1, next.phase \in Phases,
         (next.phase = "blocked") <=> (next.reason # "none"),
         TransitionOK(state.goal, op, next, state.rounds),
         NEW now \in Nat, NEW activation \in {"armed", "disarmed"},
         activation = "armed" => next.phase = "active",
         Revise(op, next, now, activation), minted' = minted
  PROVE  /\ Core' /\ (MirrorsLog => MirrorsLog')
         /\ state'.goal = [next EXCEPT !.revision = @ + 1]
         /\ state'.rounds = state.rounds
         /\ act' = activation
<1> DEFINE g == [next EXCEPT !.revision = @ + 1]
           t == nextMutationTime(state.updatedAt, now)
           ch == Change(op, g, state, t)
<1>1. Sound(state)
  BY DEF Core, TypeOK, Coherent, Sound
<1>2. /\ ChangeOK(state, ch)
      /\ applyChange(state, ch) = [goal |-> g, rounds |-> state.rounds,
                                   createdAt |-> state.createdAt, updatedAt |-> t]
      /\ g \in Goal /\ t \in Nat /\ t >= state.updatedAt
  BY <1>1, RevisionAccepted
<1>3. commitLocked(ch, activation)
  BY DEF Revise
<1> HIDE DEF g, t, ch
<1>10. applyChange(state, ch) \in FoldState
  BY <1>1, <1>2 DEF FoldState, Sound
<1>4. /\ state' = [goal |-> g, rounds |-> state.rounds,
                   createdAt |-> state.createdAt, updatedAt |-> t]
      /\ act' = activation /\ folded' \in FoldState /\ corrupt' \in BOOLEAN
      /\ events' = events + 1
      /\ MirrorsLog => MirrorsLog'
  BY <1>2, <1>3, <1>10, CommitStep
<1>5. /\ g.id = next.id /\ g.revision = next.revision + 1 /\ g.cap = next.cap
      /\ g.phase = next.phase /\ g.reason = next.reason
  BY DEF Goal, g
<1>6. TypeOK'
  BY <1>1, <1>2, <1>4 DEF Core, TypeOK, FoldState, Sound
<1>7. ArmedOnlyActive'
  BY <1>4, <1>5 DEF ArmedOnlyActive
<1>8. ReasonOnlyBlocked'
  BY <1>4, <1>5 DEF ReasonOnlyBlocked
<1>9. Coherent'
  <2>1. t >= state.createdAt
    BY <1>1, <1>2 DEF Sound, FoldState
  <2>2. g.revision >= 1 /\ g.cap >= 1 /\ g.phase \in Phases /\ g.id <= minted'
    BY <1>2, <1>5 DEF Core, Coherent, Goal
  <2>3. state'.goal.id # 0
    BY <1>4, <1>5 DEF HasGoal
  <2> QED BY <1>4, <2>1, <2>2, <2>3 DEF Coherent, HasGoal
<1> QED BY <1>4, <1>6, <1>7, <1>8, <1>9 DEF Core, g

-----------------------------------------------------------------------------
(* Every operation keeps the invariant, respects the action properties and *)
(* is a move of the contract.                                              *)

Kept ==
  /\ Core' /\ (MirrorsLog => MirrorsLog')
  /\ minted' >= minted
  /\ BudgetStep /\ RevisionStep /\ CompleteStep
  /\ Contract!Next

\* From the effect of a revision to everything it has to keep, except which
\* move of the contract it is.
LEMMA RevisedSteps ==
  ASSUME Core, HasGoal(state), NEW next \in Goal, next.id = state.goal.id,
         next.revision = state.goal.revision,
         state.goal.phase = "complete" => next.phase = "complete",
         state'.goal = [next EXCEPT !.revision = @ + 1],
         state'.rounds = state.rounds
  PROVE  /\ BudgetStep /\ RevisionStep /\ CompleteStep
         /\ state'.goal.phase = next.phase /\ state'.goal.cap = next.cap
<1>1. /\ state'.goal.id = state.goal.id
      /\ state'.goal.revision = state.goal.revision + 1
      /\ state'.goal.phase = next.phase /\ state'.goal.cap = next.cap
  BY DEF Goal
<1> QED BY <1>1 DEF BudgetStep, RevisionStep, CompleteStep

LEMMA StateFacts ==
  ASSUME Core
  PROVE  /\ state.goal \in Goal /\ state.rounds \in Nat
         /\ HasGoal(state) => /\ state.goal.phase \in Phases
                              /\ state.goal.phase # "none"
                              /\ state.goal.cap >= 1 /\ state.goal.cap \in Nat
         /\ ~HasGoal(state) => state = NoState /\ state.goal.phase = "none"
         /\ (state.goal.phase = "blocked") <=> (state.goal.reason # "none")
BY DEF Core, TypeOK, FoldState, Goal, Coherent, Phases, ReasonOnlyBlocked,
       NoState, NoGoal

LEMMA EditKeeps ==
  ASSUME Core, NEW id, NEW revision, NEW cap \in RoundCaps, NEW now \in Clock,
         Edit(id, revision, cap, now)
  PROVE  Kept
<1> DEFINE next == IF cap = 0 THEN state.goal ELSE [state.goal EXCEPT !.cap = cap]
<1>1. HasGoal(state) /\ Revise("edit", next, now, act) /\ minted' = minted
  BY DEF Edit, Current
<1>2. cap \in Nat /\ now \in Nat
  BY ServiceAssumption
<1>3. /\ next \in Goal /\ next.id = state.goal.id /\ next.revision = state.goal.revision
      /\ next.cap >= 1 /\ next.phase = state.goal.phase /\ next.reason = state.goal.reason
  BY <1>1, <1>2, StateFacts DEF Goal
<1>4. TransitionOK(state.goal, "edit", next, state.rounds)
  BY <1>3 DEF TransitionOK
<1>5. act \in {"armed", "disarmed"} /\ (act = "armed" => next.phase = "active")
  BY <1>3 DEF Core, TypeOK, ArmedOnlyActive
<1> HIDE DEF next
<1>6. /\ Core' /\ (MirrorsLog => MirrorsLog') /\ state'.goal = [next EXCEPT !.revision = @ + 1]
      /\ state'.rounds = state.rounds /\ act' = act
  BY <1>1, <1>2, <1>3, <1>4, <1>5, StateFacts, ReviseStep
<1>7. /\ BudgetStep /\ RevisionStep /\ CompleteStep
      /\ state'.goal.phase = next.phase /\ state'.goal.cap = next.cap
  BY <1>1, <1>3, <1>6, RevisedSteps
<1>8. Contract!Amend
  BY <1>1, <1>3, <1>6, <1>7, StateFacts DEF Contract!Amend, Goal
<1>9. minted' >= minted
  BY <1>1 DEF Core, TypeOK
<1> QED BY <1>6, <1>7, <1>8, <1>9 DEF Kept, Contract!Next

LEMMA PauseKeeps ==
  ASSUME Core, NEW id, NEW revision, NEW now \in Clock,
         Pause(id, revision, now)
  PROVE  Kept
<1> DEFINE next == [state.goal EXCEPT !.phase = "paused", !.reason = "none"]
<1>1. /\ HasGoal(state) /\ state.goal.phase \in {"active"}
      /\ Revise("pause", next, now, "disarmed") /\ minted' = minted
  BY DEF Pause, transitionLocked, Current
<1>2. now \in Nat
  BY ServiceAssumption
<1>3. /\ next \in Goal /\ next.id = state.goal.id /\ next.revision = state.goal.revision
      /\ next.cap = state.goal.cap /\ next.phase = "paused" /\ next.reason = "none"
  BY <1>1, StateFacts DEF Goal, Phases
<1>4. TransitionOK(state.goal, "pause", next, state.rounds)
  BY <1>1, <1>3 DEF TransitionOK
<1>5. (next.phase = "blocked") <=> (next.reason # "none")
  BY <1>3
<1> HIDE DEF next
<1>6. /\ Core' /\ (MirrorsLog => MirrorsLog') /\ state'.goal = [next EXCEPT !.revision = @ + 1]
      /\ state'.rounds = state.rounds /\ act' = "disarmed"
  BY <1>1, <1>2, <1>3, <1>4, <1>5, StateFacts, ReviseStep DEF Phases
<1>7. /\ BudgetStep /\ RevisionStep /\ CompleteStep
      /\ state'.goal.phase = next.phase /\ state'.goal.cap = next.cap
  BY <1>1, <1>3, <1>6, RevisedSteps
<1>8. Contract!Stop
  BY <1>1, <1>3, <1>6, <1>7, StateFacts DEF Contract!Stop, Contract!Unfinished, Core, TypeOK
<1>9. minted' >= minted
  BY <1>1 DEF Core, TypeOK
<1> QED BY <1>6, <1>7, <1>8, <1>9 DEF Kept, Contract!Next

LEMMA CompleteKeeps ==
  ASSUME Core, NEW id, NEW revision, NEW now \in Clock,
         Complete(id, revision, now)
  PROVE  Kept
<1> DEFINE next == [state.goal EXCEPT !.phase = "complete", !.reason = "none"]
<1>1. /\ HasGoal(state) /\ state.goal.phase \in {"active", "paused", "blocked"}
      /\ Revise("complete", next, now, "disarmed") /\ minted' = minted
  BY DEF Complete, transitionLocked, Current
<1>2. now \in Nat
  BY ServiceAssumption
<1>3. /\ next \in Goal /\ next.id = state.goal.id /\ next.revision = state.goal.revision
      /\ next.cap = state.goal.cap /\ next.phase = "complete" /\ next.reason = "none"
  BY <1>1, StateFacts DEF Goal, Phases
<1>4. TransitionOK(state.goal, "complete", next, state.rounds)
  BY <1>1, <1>3 DEF TransitionOK
<1>5. (next.phase = "blocked") <=> (next.reason # "none")
  BY <1>3
<1> HIDE DEF next
<1>6. /\ Core' /\ (MirrorsLog => MirrorsLog') /\ state'.goal = [next EXCEPT !.revision = @ + 1]
      /\ state'.rounds = state.rounds /\ act' = "disarmed"
  BY <1>1, <1>2, <1>3, <1>4, <1>5, StateFacts, ReviseStep DEF Phases
<1>7. /\ BudgetStep /\ RevisionStep /\ CompleteStep
      /\ state'.goal.phase = next.phase /\ state'.goal.cap = next.cap
  BY <1>1, <1>3, <1>6, RevisedSteps
<1>8. Contract!Finish
  BY <1>1, <1>3, <1>6, <1>7, StateFacts DEF Contract!Finish, Contract!Unfinished, Core, TypeOK
<1>9. minted' >= minted
  BY <1>1 DEF Core, TypeOK
<1> QED BY <1>6, <1>7, <1>8, <1>9 DEF Kept, Contract!Next

LEMMA ResumeKeeps ==
  ASSUME Core, NEW id, NEW revision, NEW now \in Clock,
         Resume(id, revision, now)
  PROVE  Kept
<1> DEFINE next == [state.goal EXCEPT !.phase = "active", !.reason = "none"]
<1>1. /\ HasGoal(state) /\ state.goal.phase \in {"active", "paused", "blocked"}
      /\ Revise("resume", next, now, "armed") /\ minted' = minted
      /\ state.rounds < state.goal.cap
      /\ ~(state.goal.phase = "active" /\ act = "armed")
  BY DEF Resume, Current
<1>2. now \in Nat
  BY ServiceAssumption
<1>3. /\ next \in Goal /\ next.id = state.goal.id /\ next.revision = state.goal.revision
      /\ next.cap = state.goal.cap /\ next.phase = "active" /\ next.reason = "none"
  BY <1>1, StateFacts DEF Goal, Phases
<1>4. TransitionOK(state.goal, "resume", next, state.rounds)
  BY <1>1, <1>3 DEF TransitionOK
<1>5. (next.phase = "blocked") <=> (next.reason # "none")
  BY <1>3
<1> HIDE DEF next
<1>6. /\ Core' /\ (MirrorsLog => MirrorsLog') /\ state'.goal = [next EXCEPT !.revision = @ + 1]
      /\ state'.rounds = state.rounds /\ act' = "armed"
  BY <1>1, <1>2, <1>3, <1>4, <1>5, StateFacts, ReviseStep DEF Phases
<1>7. /\ BudgetStep /\ RevisionStep /\ CompleteStep
      /\ state'.goal.phase = next.phase /\ state'.goal.cap = next.cap
  BY <1>1, <1>3, <1>6, RevisedSteps
<1>8. Contract!Continue
  BY <1>1, <1>3, <1>6, <1>7, StateFacts DEF Contract!Continue, Contract!Unfinished, Core, TypeOK
<1>9. minted' >= minted
  BY <1>1 DEF Core, TypeOK
<1> QED BY <1>6, <1>7, <1>8, <1>9 DEF Kept, Contract!Next

LEMMA BlockKeeps ==
  ASSUME Core, NEW id, NEW revision, NEW code \in BlockCodes, NEW now \in Clock,
         Block(id, revision, code, now)
  PROVE  Kept
<1> DEFINE next == [state.goal EXCEPT !.phase = "blocked", !.reason = code]
<1>1. /\ HasGoal(state) /\ state.goal.phase \in {"active"}
      /\ Revise("block", next, now, "disarmed") /\ minted' = minted
  BY DEF Block, Current
<1>2. now \in Nat
  BY ServiceAssumption
<1>3. /\ next \in Goal /\ next.id = state.goal.id /\ next.revision = state.goal.revision
      /\ next.cap = state.goal.cap /\ next.phase = "blocked" /\ next.reason = code
  BY <1>1, StateFacts DEF Goal, Phases
<1>4. TransitionOK(state.goal, "block", next, state.rounds)
  BY <1>1, <1>3, ServiceAssumption DEF TransitionOK
<1>5. (next.phase = "blocked") <=> (next.reason # "none")
  BY <1>3, ServiceAssumption
<1> HIDE DEF next
<1>6. /\ Core' /\ (MirrorsLog => MirrorsLog') /\ state'.goal = [next EXCEPT !.revision = @ + 1]
      /\ state'.rounds = state.rounds /\ act' = "disarmed"
  BY <1>1, <1>2, <1>3, <1>4, <1>5, StateFacts, ReviseStep DEF Phases
<1>7. /\ BudgetStep /\ RevisionStep /\ CompleteStep
      /\ state'.goal.phase = next.phase /\ state'.goal.cap = next.cap
  BY <1>1, <1>3, <1>6, RevisedSteps
<1>8. Contract!Stop
  BY <1>1, <1>3, <1>6, <1>7, StateFacts DEF Contract!Stop, Contract!Unfinished, Core, TypeOK
<1>9. minted' >= minted
  BY <1>1 DEF Core, TypeOK
<1> QED BY <1>6, <1>7, <1>8, <1>9 DEF Kept, Contract!Next

LEMMA CreateKeeps ==
  ASSUME Core, NEW cap \in RoundCaps, NEW now \in Clock, Create(cap, now)
  PROVE  Kept
<1> DEFINE chosen == IF cap = 0 THEN DefaultMaxGoalRounds ELSE cap
           g == [id |-> minted + 1, revision |-> 1, phase |-> "active",
                 cap |-> chosen, reason |-> "none"]
           ch == [op |-> "create", goal |-> g, rounds |-> 0,
                  createdAt |-> now, updatedAt |-> now]
<1>1. /\ HasGoal(state) => state.goal.phase = "complete"
      /\ minted' = minted + 1 /\ commitLocked(ch, "armed")
  BY DEF Create
<1>2. chosen \in Nat \ {0} /\ now \in Nat /\ minted \in Nat
  BY ServiceAssumption DEF Core, TypeOK
<1>3. g \in Goal
  BY <1>2 DEF Goal, Phases
<1>4. ChangeOK(state, ch)
  BY <1>1, <1>2 DEF ChangeOK, SnapshotOK
<1>5. applyChange(state, ch) = [goal |-> g, rounds |-> 0, createdAt |-> now, updatedAt |-> now]
  BY DEF applyChange
<1> HIDE DEF ch
<1>14. applyChange(state, ch) \in FoldState
  BY <1>2, <1>3, <1>5 DEF FoldState
<1>6. /\ state' = [goal |-> g, rounds |-> 0, createdAt |-> now, updatedAt |-> now]
      /\ act' = "armed" /\ folded' \in FoldState /\ corrupt' \in BOOLEAN
      /\ events' = events + 1
      /\ MirrorsLog => MirrorsLog'
  BY <1>1, <1>4, <1>5, <1>14, CommitStep
<1>7. /\ state'.goal.id = minted + 1 /\ state'.goal.phase = "active"
      /\ state'.goal.cap = chosen /\ state'.rounds = 0 /\ state'.goal.reason = "none"
  BY <1>6
<1>8. TypeOK'
  BY <1>1, <1>2, <1>3, <1>6 DEF Core, TypeOK, FoldState
<1>9. ArmedOnlyActive' /\ ReasonOnlyBlocked'
  BY <1>7 DEF ArmedOnlyActive, ReasonOnlyBlocked
<1>10. Coherent'
  BY <1>1, <1>2, <1>6, <1>7 DEF Coherent, HasGoal, Phases
<1>11. state.goal.id <= minted
  BY <1>2 DEF Core, Coherent, HasGoal
<1>12. BudgetStep /\ RevisionStep /\ CompleteStep
  BY <1>2, <1>7, <1>11, StateFacts DEF BudgetStep, RevisionStep, CompleteStep, Goal
<1>13. Contract!Open
  BY <1>1, <1>2, <1>6, <1>7, StateFacts DEF Contract!Open
<1>15. minted' >= minted
  BY <1>1, <1>2
<1> QED BY <1>6, <1>8, <1>9, <1>10, <1>12, <1>13, <1>15 DEF Core, Kept, Contract!Next

LEMMA ClearKeeps ==
  ASSUME Core, NEW id, NEW revision, NEW now \in Clock, Clear(id, revision, now)
  PROVE  Kept
<1> DEFINE t == nextMutationTime(state.updatedAt, now)
           g == [NoGoal EXCEPT !.id = id, !.revision = revision + 1]
           ch == Change("clear", g, state, t)
<1>1. /\ HasGoal(state) /\ id = state.goal.id /\ revision = state.goal.revision
      /\ minted' = minted /\ commitLocked(ch, "disarmed")
  BY DEF Clear, Current
<1>2. t >= state.updatedAt
  BY ServiceAssumption DEF nextMutationTime, Core, TypeOK, FoldState
<1>3. g.id = state.goal.id /\ g.revision = state.goal.revision + 1
  BY <1>1 DEF NoGoal
<1>4. ch.op = "clear" /\ ch.goal = g /\ ch.updatedAt = t
  BY DEF Change
<1> HIDE DEF t, g, ch
<1>5. ChangeOK(state, ch) /\ applyChange(state, ch) = NoState
  BY <1>1, <1>2, <1>3, <1>4 DEF ChangeOK, ClearOK, applyChange
<1>6. /\ state' = NoState /\ act' = "disarmed"
      /\ folded' \in FoldState /\ corrupt' \in BOOLEAN /\ events' = events + 1
      /\ MirrorsLog => MirrorsLog'
  BY <1>1, <1>5, NoStateType, CommitStep
<1>7. /\ state'.goal.id = 0 /\ state'.goal.phase = "none" /\ state'.goal.cap = 0
      /\ state'.rounds = 0 /\ state'.goal.reason = "none"
  BY <1>6 DEF NoState, NoGoal
<1>8. TypeOK'
  BY <1>1, <1>6, NoStateType DEF Core, TypeOK
<1>9. ArmedOnlyActive' /\ ReasonOnlyBlocked' /\ Coherent'
  BY <1>6, <1>7 DEF ArmedOnlyActive, ReasonOnlyBlocked, Coherent, HasGoal
<1>10. BudgetStep /\ RevisionStep /\ CompleteStep
  BY <1>1, <1>7 DEF BudgetStep, RevisionStep, CompleteStep, HasGoal
<1>11. Contract!Drop
  BY <1>1, <1>6, <1>7, StateFacts DEF Contract!Drop
<1>12. minted' >= minted
  BY <1>1 DEF Core, TypeOK
<1> QED BY <1>6, <1>8, <1>9, <1>10, <1>11, <1>12 DEF Core, Kept, Contract!Next

LEMMA BlockAtLimitKeeps ==
  ASSUME Core, NEW now \in Clock, BlockAtLimit(now)
  PROVE  Kept
BY BlockKeeps, ServiceAssumption DEF BlockAtLimit

LEMMA RunRoundKeeps ==
  ASSUME IInv, RunRound
  PROVE  Kept
<1> DEFINE r == NextRound
<1>1. /\ HasGoal(state) /\ state.goal.phase = "active" /\ act = "armed"
      /\ state.rounds < state.goal.cap
      /\ GateCheck(r) /\ AppendRound(r) /\ AdmitRound(r)
      /\ act' = act /\ minted' = minted
  BY DEF RunRound, Reservable
<1>2. /\ r.id = state.goal.id /\ r.revision = state.goal.revision
      /\ r.round = state.rounds + 1
  BY DEF NextRound
<1> HIDE DEF r
<1>3. minted \in Nat /\ state.rounds \in Nat /\ state.goal.cap \in Nat /\ state \in FoldState
  BY <1>1, StateFacts DEF IInv, Core, TypeOK
<1>4. state' = [state EXCEPT !.rounds = r.round]
  BY <1>1, <1>2, <1>3 DEF AdmitRound
<1>5. folded' = [folded EXCEPT !.rounds = r.round] /\ corrupt' = corrupt /\ events' = events + 1
  BY <1>1 DEF AppendRound, GateCheck, IInv, MirrorsLog
<1>6. /\ state' \in FoldState /\ state'.goal = state.goal
      /\ state'.rounds = state.rounds + 1
      /\ state'.createdAt = state.createdAt /\ state'.updatedAt = state.updatedAt
  BY <1>2, <1>3, <1>4 DEF FoldState
<1>7. MirrorsLog'
  BY <1>4, <1>5 DEF IInv, MirrorsLog
<1>8. TypeOK'
  BY <1>1, <1>5, <1>6, <1>7 DEF IInv, Core, TypeOK, MirrorsLog
<1>9. ArmedOnlyActive' /\ ReasonOnlyBlocked' /\ Coherent'
  BY <1>1, <1>6 DEF IInv, Core, ArmedOnlyActive, ReasonOnlyBlocked, Coherent, HasGoal
<1>10. BudgetStep /\ RevisionStep /\ CompleteStep
  BY <1>1, <1>3, <1>6 DEF BudgetStep, RevisionStep, CompleteStep
<1>11. Contract!Round
  BY <1>1, <1>6 DEF Contract!Round
<1> QED BY <1>1, <1>3, <1>7, <1>8, <1>9, <1>10, <1>11 DEF Core, Kept, Contract!Next

\* The moves of the activation alone.
LEMMA ActivationKeeps ==
  ASSUME Core, Disarm \/ Arm
  PROVE  Kept
<1>1. /\ state' = state /\ folded' = folded /\ corrupt' = corrupt
      /\ events' = events /\ minted' = minted
      /\ act' \in {"armed", "disarmed"}
      /\ act' = "armed" => state.goal.phase = "active" /\ state.rounds < state.goal.cap
  BY DEF Disarm, Arm
<1>2. Core' /\ (MirrorsLog => MirrorsLog') /\ minted' >= minted
  BY <1>1 DEF Core, TypeOK, MirrorsLog, ArmedOnlyActive, ReasonOnlyBlocked, Coherent, HasGoal
<1>3. BudgetStep /\ RevisionStep /\ CompleteStep
  BY <1>1 DEF BudgetStep, RevisionStep, CompleteStep
<1>4. Contract!Withdraw \/ Contract!Grant
  BY <1>1 DEF Contract!Withdraw, Contract!Grant
<1> QED BY <1>2, <1>3, <1>4 DEF Kept, Contract!Next

\* A service constructed anew from a log that agrees.
LEMMA NewServiceKeeps ==
  ASSUME IInv, NewService
  PROVE  Kept
<1>1. /\ state' = state /\ folded' = folded /\ corrupt' = corrupt
      /\ events' = events /\ minted' = minted /\ act' = "disarmed"
  BY DEF NewService, IInv, MirrorsLog
<1>2. Core' /\ (MirrorsLog => MirrorsLog') /\ minted' >= minted
  BY <1>1 DEF IInv, Core, TypeOK, MirrorsLog, ArmedOnlyActive, ReasonOnlyBlocked, Coherent, HasGoal
<1>3. BudgetStep /\ RevisionStep /\ CompleteStep
  BY <1>1 DEF BudgetStep, RevisionStep, CompleteStep
<1>4. Contract!Withdraw
  BY <1>1 DEF Contract!Withdraw
<1> QED BY <1>2, <1>3, <1>4 DEF Kept, Contract!Next

LEMMA NextKeeps ==
  ASSUME IInv, Next
  PROVE  Kept
BY CreateKeeps, EditKeeps, PauseKeeps, CompleteKeeps, ResumeKeeps, BlockKeeps,
   ClearKeeps, BlockAtLimitKeeps, RunRoundKeeps, ActivationKeeps, NewServiceKeeps
DEF Next, IInv

LEMMA StutterKeeps ==
  ASSUME IInv, UNCHANGED serviceVars
  PROVE  IInv' /\ UNCHANGED <<state.goal.phase, act = "armed", state.rounds, state.goal.cap>>
BY DEF serviceVars, IInv, Core, TypeOK, MirrorsLog, ArmedOnlyActive, ReasonOnlyBlocked,
       Coherent, HasGoal

LEMMA InitInvariant == Init => IInv
<1> SUFFICES ASSUME Init PROVE IInv
  OBVIOUS
<1>1. TypeOK
  BY NoStateType DEF Init, TypeOK
<1>2. state.goal.id = 0 /\ state.goal.phase = "none" /\ state.goal.reason = "none"
  BY DEF Init, NoState, NoGoal
<1>3. MirrorsLog /\ ArmedOnlyActive /\ ReasonOnlyBlocked /\ Coherent
  BY <1>2 DEF Init, MirrorsLog, ArmedOnlyActive, ReasonOnlyBlocked, Coherent, HasGoal
<1> QED BY <1>1, <1>3 DEF IInv, Core

-----------------------------------------------------------------------------
(* The theorems.                                                           *)

LEMMA Invariance == Spec => []IInv
<1>1. IInv /\ [Next]_serviceVars => IInv'
  BY NextKeeps, StutterKeeps DEF Kept, IInv
<1> QED BY InitInvariant, <1>1, PTL DEF Spec

\* Every reachable state of the service is of its type (goal.go:343-356).
THEOREM TypeCorrect == Spec => []TypeOK
<1>1. IInv => TypeOK
  BY DEF IInv, Core
<1> QED BY Invariance, <1>1, PTL

\* The log can always be folded, and folds to what the process holds
\* (goal.go:296-334, 400-414, 668-680).
THEOREM LogMirrored == Spec => []MirrorsLog
<1>1. IInv => MirrorsLog
  BY DEF IInv
<1> QED BY Invariance, <1>1, PTL

\* Only an active goal is ever armed (goal.go:528-651).
THEOREM NeverArmedInactive == Spec => []ArmedOnlyActive
<1>1. IInv => ArmedOnlyActive
  BY DEF IInv, Core
<1> QED BY Invariance, <1>1, PTL

\* A block reason is on record exactly while the goal is blocked
\* (goal.go:510-598).
THEOREM ReasonTracksBlock == Spec => []ReasonOnlyBlocked
<1>1. IInv => ReasonOnlyBlocked
  BY DEF IInv, Core
<1> QED BY Invariance, <1>1, PTL

\* Rounds are charged one by one, within the cap, to an active goal
\* (goal.go:656-703).
THEOREM BudgetKept == Spec => RoundsWithinBudget
<1>1. IInv /\ [Next]_serviceVars => [BudgetStep]_serviceVars
  BY NextKeeps DEF Kept
<1> QED BY Invariance, <1>1, PTL DEF Spec, RoundsWithinBudget

\* A revision number is never reused for a different snapshot of a goal
\* (goal.go:432-526).
THEOREM RevisionsNeverReused == Spec => RevisionsAdvance
<1>1. IInv /\ [Next]_serviceVars => [RevisionStep]_serviceVars
  BY NextKeeps DEF Kept
<1> QED BY Invariance, <1>1, PTL DEF Spec, RevisionsAdvance

\* A completed goal stays complete (goal.go:225-271).
THEOREM CompletionFinal == Spec => CompleteIsFinal
<1>1. IInv /\ [Next]_serviceVars => [CompleteStep]_serviceVars
  BY NextKeeps DEF Kept
<1> QED BY Invariance, <1>1, PTL DEF Spec, CompleteIsFinal

\* The service implements its contract: initial states map to initial
\* states, every operation to a move of the contract or to a stutter.
THEOREM ServiceKeepsContract == Spec => KeepsContract
<1>1. Init => Contract!Init
  BY DEF Init, Contract!Init, NoState, NoGoal
<1>2. IInv /\ [Next]_serviceVars => [Contract!Next]_(Contract!contractVars)
  BY NextKeeps, StutterKeeps DEF Kept, Contract!contractVars
<1> QED BY Invariance, <1>1, <1>2, PTL DEF Spec, KeepsContract, Contract!Spec


-----------------------------------------------------------------------------
(* The driver and its hosts: types.                                        *)

LEMMA RecordTypes ==
  /\ NoRound \in RoundRef /\ Sleeping \in WorkerStates
  /\ Idle \in TurnStates /\ HumanTurn \in TurnStates
  /\ \A r \in RoundRef : GoalTurn(r) \in TurnStates
BY DEF NoRound, RoundRef, Sleeping, WorkerStates, WorkerPlaces, Idle, HumanTurn, GoalTurn,
       TurnStates, TurnPlaces

\* One worker goes to another place.
LEMMA GoMoves ==
  ASSUME worker \in [Workers -> WorkerStates], NEW w \in Workers, NEW pc \in WorkerPlaces,
         Go(w, pc)
  PROVE  /\ worker' \in [Workers -> WorkerStates]
         /\ worker'[w].pc = pc /\ worker'[w].round = worker[w].round
         /\ \A v \in Workers \ {w} : worker'[v] = worker[v]
BY DEF Go, WorkerStates

\* One turn goes to another place.
LEMMA TurnMoves ==
  ASSUME turn \in [Turns -> TurnStates], NEW t \in Turns, NEW pc \in TurnPlaces,
         Turn(t, pc)
  PROVE  /\ turn' \in [Turns -> TurnStates]
         /\ turn'[t].pc = pc /\ turn'[t].kind = turn[t].kind
         /\ turn'[t].round = turn[t].round /\ turn'[t].cancelled = turn[t].cancelled
         /\ turn'[t].end = turn[t].end /\ turn'[t].wasGoal = turn[t].wasGoal
         /\ turn'[t].next = turn[t].next
         /\ \A u \in Turns \ {t} : turn'[u] = turn[u]
BY DEF Turn, TurnStates

Ends == {"none", "completed", "max-tokens", "aborted", "blocked"}

\* One turn goes on and takes down how it ended, or what it saw.
LEMMA TurnNotes ==
  ASSUME turn \in [Turns -> TurnStates], NEW t \in Turns, NEW pc \in TurnPlaces,
         \/ \E end \in Ends : turn' = [turn EXCEPT ![t].pc = pc, ![t].end = end]
         \/ \E goal, next \in BOOLEAN :
              turn' = [turn EXCEPT ![t].pc = pc, ![t].wasGoal = goal, ![t].next = next]
         \/ \E seen \in RoundRef : turn' = [turn EXCEPT ![t].pc = pc, ![t].seen = seen]
  PROVE  turn' \in [Turns -> TurnStates]
<1>1. turn[t] \in TurnStates
  OBVIOUS
<1>2. CASE \E end \in Ends : turn' = [turn EXCEPT ![t].pc = pc, ![t].end = end]
  <2>1. PICK end \in Ends : turn' = [turn EXCEPT ![t] = [@ EXCEPT !.pc = pc, !.end = end]]
    BY <1>2
  <2>2. [turn[t] EXCEPT !.pc = pc, !.end = end] \in TurnStates
    BY <1>1 DEF TurnStates, Ends
  <2> QED BY <2>1, <2>2
<1>3. CASE \E goal, next \in BOOLEAN :
             turn' = [turn EXCEPT ![t].pc = pc, ![t].wasGoal = goal, ![t].next = next]
  <2>1. PICK goal \in BOOLEAN, next \in BOOLEAN :
          turn' = [turn EXCEPT ![t] = [@ EXCEPT !.pc = pc, !.wasGoal = goal, !.next = next]]
    BY <1>3
  <2>2. [turn[t] EXCEPT !.pc = pc, !.wasGoal = goal, !.next = next] \in TurnStates
    BY <1>1 DEF TurnStates
  <2> QED BY <2>1, <2>2
<1>4. CASE \E seen \in RoundRef : turn' = [turn EXCEPT ![t].pc = pc, ![t].seen = seen]
  <2>1. PICK seen \in RoundRef : turn' = [turn EXCEPT ![t] = [@ EXCEPT !.pc = pc, !.seen = seen]]
    BY <1>4
  <2>2. [turn[t] EXCEPT !.pc = pc, !.seen = seen] \in TurnStates
    BY <1>1 DEF TurnStates
  <2> QED BY <2>1, <2>2
<1> QED BY <1>2, <1>3, <1>4

\* A request wakes the worker, if none is awake.
LEMMA RequestWakes ==
  ASSUME worker \in [Workers -> WorkerStates], RequestDrive
  PROVE  /\ worker' \in [Workers -> WorkerStates]
         /\ requested' = TRUE /\ running' \in BOOLEAN \cup {running}
         /\ \/ running /\ UNCHANGED <<running, worker>>
            \/ /\ ~running /\ running'
               /\ \E w \in Workers : /\ worker[w].pc = "off" /\ worker'[w].pc = "head"
                                     /\ \A v \in Workers \ {w} : worker'[v] = worker[v]
BY RecordTypes, ZenonT(60) DEF RequestDrive, Sleeping, WorkerStates, WorkerPlaces

\* The part of the type that is not the goal service's.
DriverTyped ==
  /\ requested \in BOOLEAN /\ running \in BOOLEAN /\ attempt \in RoundRef
  /\ worker \in [Workers -> WorkerStates]
  /\ pending \in Nat
HostTyped ==
  /\ queued \in Nat /\ busy \in BOOLEAN /\ goalTurn \in BOOLEAN
  /\ turn \in [Turns -> TurnStates]
  /\ svcMu \in Workers \cup Turns \cup {Free} /\ sessMu \in Turns \cup {Free}
  /\ main \in {"serve", "prompt", "drain", "quiet", "exit"}

LEMMA TypeParts == RoundsTypeOK <=> TypeOK /\ DriverTyped /\ HostTyped
BY DEF RoundsTypeOK, DriverTyped, HostTyped

-----------------------------------------------------------------------------
(* What a step does to the goal service.                                   *)

\* Every step of the composition does this to the process's state.
Orderly ==
  /\ Core' /\ minted' >= minted
  /\ BudgetStep /\ RevisionStep

LEMMA OperationIsOrderly ==
  ASSUME Core, Kept \/ UNCHANGED serviceVars
  PROVE  Orderly /\ (MirrorsLog => MirrorsLog')
<1>1. CASE Kept
  BY <1>1 DEF Kept, Orderly
<1>2. CASE UNCHANGED serviceVars
  <2>1. Core' /\ (MirrorsLog => MirrorsLog') /\ minted' >= minted
    BY <1>2 DEF serviceVars, Core, TypeOK, MirrorsLog, ArmedOnlyActive, ReasonOnlyBlocked,
                Coherent, HasGoal
  <2>2. BudgetStep /\ RevisionStep
    BY <1>2 DEF serviceVars, BudgetStep, RevisionStep
  <2> QED BY <2>1, <2>2 DEF Orderly
<1> QED BY <1>1, <1>2

LEMMA DisarmKept ==
  ASSUME Core, DisarmAndRequest, pending \in Nat
  PROVE  (Kept \/ UNCHANGED serviceVars) /\ pending' \in Nat
BY ActivationKeeps DEF DisarmAndRequest, SpawnRequest

LEMMA WorkerKept ==
  ASSUME Core, NEW w \in Workers, WorkerStep(w)
  PROVE  Kept \/ UNCHANGED serviceVars
<1>1. CASE DriveLimit(w)
  BY <1>1, BlockAtLimitKeeps DEF DriveLimit
<1>2. CASE DriveBlock(w)
  BY <1>2, BlockKeeps, RoundsAssumption DEF DriveBlock
<1>3. CASE \/ WorkerHead(w) \/ WorkerTail(w) \/ DriveIdle(w) \/ DriveRecycle(w)
           \/ DriveReserve(w) \/ DriveBook(w) \/ DriveStart(w) \/ DriveUnbook(w)
           \/ DriveFailed(w)
  BY <1>3 DEF WorkerHead, WorkerTail, DriveIdle, DriveRecycle, DriveReserve, DriveBook,
              DriveStart, DriveUnbook, DriveFailed
<1> QED BY <1>1, <1>2, <1>3 DEF WorkerStep

LEMMA ToolKept ==
  ASSUME Core, NEW t \in Turns, ToolCommits(t)
  PROVE  Kept
<1>1. PICK now \in Clock :
        IF turn[t].kind = "human" THEN HumanTool(now) ELSE RoundTool(turn[t].round, now)
  BY DEF ToolCommits
<1>2. CASE HumanTool(now)
  BY <1>2, CreateKeeps, EditKeeps, PauseKeeps, ResumeKeeps, CompleteKeeps, BlockKeeps,
     RoundsAssumption DEF HumanTool
<1>3. CASE RoundTool(turn[t].round, now)
  BY <1>3, CompleteKeeps, BlockKeeps, RoundsAssumption DEF RoundTool
<1> QED BY <1>1, <1>2, <1>3

\* All that a turn does, but the append of a goal message and its listener.
LEMMA TurnKept ==
  ASSUME Core, pending \in Nat, NEW t \in Turns, CallTool(t) \/ TurnStep(t),
         ~AppendGoalMessage(t), ~AdmitGoalMessage(t)
  PROVE  Kept \/ UNCHANGED serviceVars
<1>1. CASE ToolCommits(t)
  BY <1>1, ToolKept
<1>2. CASE OnTurnEndPause(t)
  BY <1>2, PauseKeeps DEF OnTurnEndPause
<1>3. CASE GateDisarm(t)
  BY <1>3, DisarmKept DEF GateDisarm
<1>4. CASE OnTurnEndFence(t)
  BY <1>4, DisarmKept DEF OnTurnEndFence
<1>5. CASE \/ CallTool(t) \/ GateDriver(t) \/ GateService(t) \/ EndTurn(t) \/ FinishTurn(t)
           \/ OnTurnEndClear(t) \/ OnTurnEndRequest(t)
  BY <1>5 DEF CallTool, GateDriver, GateService, EndTurn, FinishTurn, OnTurnEndClear,
              OnTurnEndRequest
<1> QED BY <1>1, <1>2, <1>3, <1>4, <1>5 DEF TurnStep

\* The steps of the hosts themselves.
HostStep == StartHuman \/ Cancel \/ Compacted \/ MainStep

LEMMA HostLeavesService ==
  ASSUME HostStep
  PROVE  UNCHANGED serviceVars
BY DEF HostStep, StartHuman, Cancel, Compacted, MainStep, MainReturns, DrainBusy, DrainQuiet, Exit,
       othersVars

\* The step of the composition, sorted by what it means for the service.
LEMMA ServiceSteps ==
  ASSUME Core, pending \in Nat, HostsNext
  PROVE  \/ Kept \/ UNCHANGED serviceVars
         \/ \E t \in Turns : AppendGoalMessage(t) \/ AdmitGoalMessage(t)
<1>1. CASE \E w \in Workers : WorkerStep(w)
  BY <1>1, WorkerKept
<1>2. CASE PendingRequest
  BY <1>2 DEF PendingRequest
<1>3. CASE \E t \in Turns : CallTool(t) \/ TurnStep(t)
  BY <1>3, TurnKept
<1>4. CASE HostStep
  BY <1>4, HostLeavesService
<1> QED BY <1>1, <1>2, <1>3, <1>4 DEF HostsNext, RoundsNext, HostStep

-----------------------------------------------------------------------------
(* Types are kept.                                                         *)

LEMMA NextRoundTyped ==
  ASSUME TypeOK
  PROVE  NextRound \in RoundRef
BY DEF TypeOK, FoldState, Goal, NextRound, RoundRef

LEMMA WorkerTyped ==
  ASSUME TypeOK, DriverTyped, HostTyped, NEW w \in Workers, WorkerStep(w)
  PROVE  DriverTyped' /\ HostTyped'
<1>1. CASE WorkerHead(w) \/ DriveIdle(w)
  BY <1>1, GoMoves DEF WorkerHead, DriveIdle, DriverTyped, HostTyped, WorkerPlaces, hostVars
<1>2. CASE WorkerTail(w)
  BY <1>2, GoMoves, RecordTypes DEF WorkerTail, DriverTyped, HostTyped, WorkerPlaces, hostVars
<1>3. CASE DriveRecycle(w) \/ DriveUnbook(w)
  BY <1>3, GoMoves, RecordTypes
  DEF DriveRecycle, DriveUnbook, DriverTyped, HostTyped, WorkerPlaces, hostVars
<1>4. CASE DriveReserve(w)
  BY <1>4, GoMoves, NextRoundTyped
  DEF DriveReserve, Lock, DriverTyped, HostTyped, WorkerStates, WorkerPlaces, hostVars
<1>5. CASE DriveLimit(w)
  BY <1>5, GoMoves DEF DriveLimit, Release, SpawnRequest, DriverTyped, HostTyped, WorkerPlaces, hostVars
<1>6. CASE DriveBook(w)
  BY <1>6, GoMoves DEF DriveBook, DriverTyped, HostTyped, WorkerStates, WorkerPlaces, hostVars
<1>7. CASE DriveStart(w)
  <2>1. worker[w].round \in RoundRef
    BY DEF DriverTyped, WorkerStates
  <2> QED BY <1>7, <2>1, GoMoves, RecordTypes DEF DriveStart, DriverTyped, HostTyped, WorkerPlaces
<1>8. CASE DriveFailed(w)
  BY <1>8, GoMoves DEF DriveFailed, DriverTyped, HostTyped, WorkerPlaces, hostVars
<1>9. CASE DriveBlock(w)
  BY <1>9, GoMoves DEF DriveBlock, Lock, Release, SpawnRequest, DriverTyped, HostTyped,
                       WorkerPlaces, hostVars
<1> QED BY <1>1, <1>2, <1>3, <1>4, <1>5, <1>6, <1>7, <1>8, <1>9 DEF WorkerStep

LEMMA TurnTyped ==
  ASSUME TypeOK, DriverTyped, HostTyped, NEW t \in Turns, CallTool(t) \/ TurnStep(t)
  PROVE  DriverTyped' /\ HostTyped'
<1>1. CASE CallTool(t)
  BY <1>1 DEF CallTool, Lock, DriverTyped, HostTyped, driverVars, hostVars
<1>2. CASE GateDriver(t)
  BY <1>2, TurnMoves, RecordTypes DEF GateDriver, DriverTyped, HostTyped, TurnPlaces, hostVars
<1>3. CASE GateService(t)
  BY <1>3, TurnMoves DEF GateService, DriverTyped, HostTyped, TurnPlaces, driverVars, hostVars
<1>4. CASE GateDisarm(t)
  <2>1. turn' \in [Turns -> TurnStates]
    BY <1>4, TurnNotes DEF GateDisarm, HostTyped, TurnPlaces, Ends
  <2> QED BY <1>4, <2>1 DEF GateDisarm, DisarmAndRequest, SpawnRequest, DriverTyped, HostTyped,
                            hostVars
<1>5. CASE AppendGoalMessage(t) \/ AdmitGoalMessage(t)
  BY <1>5, TurnMoves DEF AppendGoalMessage, AdmitGoalMessage, DriverTyped, HostTyped, TurnPlaces,
                         driverVars, hostVars
<1>6. CASE ToolCommits(t)
  BY <1>6 DEF ToolCommits, SpawnRequest, Release, DriverTyped, HostTyped, hostVars
<1>7. CASE EndTurn(t)
  <2>1. turn' \in [Turns -> TurnStates]
    BY <1>7, TurnNotes DEF EndTurn, HostTyped, TurnPlaces, Ends
  <2> QED BY <1>7, <2>1 DEF EndTurn, DriverTyped, HostTyped, driverVars, hostVars
<1>8. CASE FinishTurn(t)
  <2>1. turn' \in [Turns -> TurnStates]
    <3>1. goalTurn \in BOOLEAN /\ "fence" \in TurnPlaces /\ (queued > 0) \in BOOLEAN
      BY DEF HostTyped, TurnPlaces
    <3>2. \E next \in BOOLEAN :
            turn' = [turn EXCEPT ![t].pc = "fence", ![t].wasGoal = goalTurn, ![t].next = next]
      BY <1>8, <3>1, Zenon DEF FinishTurn
    <3> QED BY <3>1, <3>2, TurnNotes DEF HostTyped
  <2>2. busy' \in BOOLEAN /\ goalTurn' \in BOOLEAN
    <3>1. (queued > 0) \in BOOLEAN
      OBVIOUS
    <3> QED BY <1>8, <3>1, Zenon DEF FinishTurn
  <2>3. queued' \in Nat
    BY <1>8 DEF FinishTurn, HostTyped
  <2> QED BY <1>8, <2>1, <2>2, <2>3 DEF FinishTurn, DriverTyped, HostTyped, driverVars
<1>9. CASE OnTurnEndFence(t)
  <2>1. /\ pending' \in Nat /\ UNCHANGED <<requested, running, attempt, worker, hostVars, svcMu, sessMu>>
    BY <1>9 DEF OnTurnEndFence, DisarmAndRequest, SpawnRequest, DriverTyped
  <2>2. state.goal.id \in Nat /\ state.goal.revision \in Nat
    BY DEF TypeOK, FoldState, Goal
  <2>3. \/ Turn(t, "clear")
        \/ \E pc \in {"pause", "clear"}, seen \in RoundRef :
             turn' = [turn EXCEPT ![t].pc = pc, ![t].seen = seen]
    <3>1. [NoRound EXCEPT !.id = state.goal.id, !.revision = state.goal.revision] \in RoundRef
      BY <2>2 DEF NoRound, RoundRef
    <3> QED BY <1>9, <3>1, RecordTypes DEF OnTurnEndFence
  <2>4. turn' \in [Turns -> TurnStates]
    BY <2>3, TurnMoves, TurnNotes DEF HostTyped, TurnPlaces
  <2> QED BY <2>1, <2>4 DEF DriverTyped, HostTyped, hostVars
<1>10. CASE OnTurnEndPause(t)
  <2>1. turn' \in [Turns -> TurnStates]
    BY <1>10, TurnMoves DEF OnTurnEndPause, HostTyped, TurnPlaces
  <2>2. pending' \in Nat /\ svcMu' \in {Free, t}
    BY <1>10 DEF OnTurnEndPause, Lock, Release, SpawnRequest, DriverTyped
  <2> QED BY <1>10, <2>1, <2>2 DEF OnTurnEndPause, DriverTyped, HostTyped, hostVars
<1>11. CASE OnTurnEndClear(t)
  BY <1>11, TurnMoves, RecordTypes DEF OnTurnEndClear, DriverTyped, HostTyped, TurnPlaces, hostVars
<1>12. CASE OnTurnEndRequest(t)
  <2>1. turn' \in [Turns -> TurnStates]
    BY <1>12, RecordTypes DEF OnTurnEndRequest, HostTyped
  <2> QED BY <1>12, <2>1, RequestWakes DEF OnTurnEndRequest, DriverTyped, HostTyped, hostVars
<1> QED BY <1>1, <1>2, <1>3, <1>4, <1>5, <1>6, <1>7, <1>8, <1>9, <1>10, <1>11, <1>12 DEF TurnStep

LEMMA HostStepTyped ==
  ASSUME DriverTyped, HostTyped, HostStep \/ PendingRequest
  PROVE  DriverTyped' /\ HostTyped'
<1>1. CASE PendingRequest
  <2>1. worker' \in [Workers -> WorkerStates] /\ requested' = TRUE /\ running' \in BOOLEAN
    BY <1>1, RequestWakes DEF PendingRequest, DriverTyped
  <2>2. pending' \in Nat
    BY <1>1 DEF PendingRequest, DriverTyped
  <2> QED BY <1>1, <2>1, <2>2 DEF PendingRequest, DriverTyped, HostTyped, hostVars
<1>2. CASE StartHuman
  <2>1. CASE busy
    BY <1>2, <2>1 DEF StartHuman, DriverTyped, HostTyped, driverVars
  <2>2. CASE ~busy
    <3>1. turn' \in [Turns -> TurnStates]
      BY <1>2, <2>2, RecordTypes DEF StartHuman, HostTyped
    <3> QED BY <1>2, <2>2, <3>1 DEF StartHuman, DriverTyped, HostTyped, driverVars
  <2> QED BY <2>1, <2>2
<1>3. CASE Cancel
  BY <1>3, ZenonT(60) DEF Cancel, DriverTyped, HostTyped, TurnStates, driverVars, hostVars
<1>4. CASE Compacted
  BY <1>4, RequestWakes DEF Compacted, DriverTyped, HostTyped, hostVars
<1>5. CASE MainStep
  BY <1>5, RecordTypes
  DEF MainStep, MainReturns, DrainBusy, DrainQuiet, Exit, othersVars, DriverTyped, HostTyped,
      driverVars
<1> QED BY <1>1, <1>2, <1>3, <1>4, <1>5 DEF HostStep

-----------------------------------------------------------------------------
(* The budget, behind either host.                                         *)

\* A round the gate let through: its goal has been there, and if it is still
\* current at the round's revision it is active and has room for the round.
Granted(r) ==
  /\ r.id \in 1..minted
  /\ state.goal.id = r.id => r.revision <= state.goal.revision
  /\ state.goal.id = r.id /\ state.goal.revision = r.revision =>
       state.goal.phase = "active" /\ r.round <= state.goal.cap

GrantsHold ==
  \A t \in Turns : turn[t].pc \in {"append", "admit"} => Granted(turn[t].round)

\* The inductive invariant behind either host.
BothInv == Core /\ DriverTyped /\ HostTyped /\ GrantsHold

\* A change of the goal takes a grant back or leaves it as it was.
LEMMA GrantsLast ==
  ASSUME Core, Orderly, NEW r \in RoundRef, Granted(r)
  PROVE  Granted(r)'
<1>1. /\ minted \in Nat /\ minted' \in Nat /\ minted' >= minted
      /\ state.goal \in Goal /\ state'.goal \in Goal
  BY DEF Core, Orderly, TypeOK, FoldState
<1>2. r.id \in 1..minted'
  BY <1>1 DEF Granted, RoundRef
<1>3. CASE state'.goal = state.goal
  BY <1>2, <1>3 DEF Granted
<1>4. CASE state'.goal.id = state.goal.id /\ state'.goal.revision = state.goal.revision + 1
  BY <1>1, <1>2, <1>4 DEF Granted, Goal, RoundRef
<1>5. CASE state'.goal.id = 0 \/ state'.goal.id > minted
  BY <1>1, <1>2, <1>5 DEF Granted, Goal, RoundRef
<1> QED BY <1>3, <1>4, <1>5 DEF Orderly, RevisionStep

\* What passes the gate is granted.
LEMMA GateGrants ==
  ASSUME Core, NEW r \in RoundRef, GateCheck(r)
  PROVE  Granted(r)
BY DEF Core, TypeOK, FoldState, Goal, Coherent, GateCheck, RoundOK, HasGoal, Granted, RoundRef

LEMMA AppendIsOrderly ==
  ASSUME BothInv, NEW t \in Turns, AppendGoalMessage(t)
  PROVE  Orderly
<1> DEFINE r == turn[t].round
<1>1. /\ state' = state /\ act' = act /\ minted' = minted
      /\ events' = events + 1 /\ corrupt' \in BOOLEAN
      /\ folded' = folded \/ folded' = [folded EXCEPT !.rounds = r.round]
  BY DEF AppendGoalMessage, AppendRound, BothInv, Core, TypeOK
<1>2. r.round \in Nat
  BY DEF BothInv, HostTyped, TurnStates, RoundRef
<1> HIDE DEF r
<1>3. folded' \in FoldState
  BY <1>1, <1>2 DEF BothInv, Core, TypeOK, FoldState
<1>4. Core'
  BY <1>1, <1>3 DEF BothInv, Core, TypeOK, ArmedOnlyActive, ReasonOnlyBlocked, Coherent, HasGoal
<1>5. BudgetStep /\ RevisionStep /\ minted' >= minted
  BY <1>1 DEF BudgetStep, RevisionStep, BothInv, Core, TypeOK
<1> QED BY <1>4, <1>5 DEF Orderly

LEMMA AdmitIsOrderly ==
  ASSUME BothInv, NEW t \in Turns, AdmitGoalMessage(t)
  PROVE  Orderly
<1> DEFINE r == turn[t].round
<1>1. /\ act' = act /\ folded' = folded /\ corrupt' = corrupt /\ events' = events
      /\ minted' = minted
      /\ \/ state' = state
         \/ /\ state.goal.id = r.id /\ state.goal.revision = r.revision
            /\ state.rounds = r.round - 1 /\ state' = [state EXCEPT !.rounds = r.round]
  BY DEF AdmitGoalMessage, AdmitRound
<1>2. r \in RoundRef /\ Granted(r)
  BY DEF BothInv, HostTyped, TurnStates, GrantsHold, AdmitGoalMessage
<1> HIDE DEF r
<1>3. /\ state' \in FoldState /\ state'.goal = state.goal
      /\ state'.createdAt = state.createdAt /\ state'.updatedAt = state.updatedAt
      /\ state' = state \/ state'.rounds = r.round
  BY <1>1, <1>2 DEF BothInv, Core, TypeOK, FoldState, RoundRef
<1>4. BudgetStep /\ RevisionStep /\ minted' >= minted
  BY <1>1, <1>2, <1>3
  DEF BudgetStep, RevisionStep, BothInv, Core, TypeOK, FoldState, Granted, RoundRef
<1>5. ~HasGoal(state) => state' = state
  BY <1>1, <1>2 DEF HasGoal, Granted, RoundRef, BothInv, Core, TypeOK
<1>6. Core'
  BY <1>1, <1>3, <1>5
  DEF BothInv, Core, TypeOK, ArmedOnlyActive, ReasonOnlyBlocked, Coherent, HasGoal
<1> QED BY <1>4, <1>6 DEF Orderly

\* Every step of either host treats the goal service by its rules.
LEMMA StepIsOrderly ==
  ASSUME BothInv, HostsNext
  PROVE  Orderly
BY ServiceSteps, OperationIsOrderly, AppendIsOrderly, AdmitIsOrderly DEF BothInv, DriverTyped

\* Most steps of the workers, the calls of a tool and what the hosts do beside
\* touch no turn.
LEMMA WhoTouchesTurns ==
  ASSUME HostsNext
  PROVE  \/ UNCHANGED <<turn, busy, goalTurn>>
         \/ \E w \in Workers : DriveStart(w)
         \/ \E t \in Turns :
              \/ GateDriver(t) \/ GateService(t) \/ GateDisarm(t)
              \/ AppendGoalMessage(t) \/ AdmitGoalMessage(t) \/ EndTurn(t) \/ FinishTurn(t)
              \/ OnTurnEndFence(t) \/ OnTurnEndPause(t) \/ OnTurnEndClear(t)
              \/ OnTurnEndRequest(t)
         \/ StartHuman \/ Cancel \/ Exit
<1>1. CASE \E w \in Workers : WorkerStep(w)
  BY <1>1 DEF WorkerStep, WorkerHead, WorkerTail, DriveIdle, DriveRecycle, DriveReserve,
              DriveLimit, DriveBook, DriveUnbook, DriveFailed, DriveBlock, hostVars
<1>2. CASE PendingRequest \/ Compacted \/ MainStep
  BY <1>2 DEF PendingRequest, Compacted, MainStep, MainReturns, DrainBusy, DrainQuiet, othersVars,
              hostVars
<1>3. CASE \E t \in Turns : CallTool(t) \/ TurnStep(t)
  BY <1>3 DEF CallTool, TurnStep, ToolCommits, hostVars
<1> QED BY <1>1, <1>2, <1>3 DEF HostsNext, RoundsNext

\* The server stays the server, and the headless host the headless host.
LEMMA HostForGood ==
  ASSUME HostsNext
  PROVE  /\ IsServer' <=> IsServer
         /\ IsServer => ~Exit
<1>1. CASE \E w \in Workers : WorkerStep(w)
  BY <1>1 DEF WorkerStep, WorkerHead, WorkerTail, DriveIdle, DriveRecycle, DriveReserve,
              DriveLimit, DriveBook, DriveStart, DriveUnbook, DriveFailed, DriveBlock, hostVars,
              IsServer, Exit
<1>2. CASE PendingRequest \/ StartHuman \/ Cancel \/ Compacted
  BY <1>2 DEF PendingRequest, StartHuman, Cancel, Compacted, hostVars, IsServer, Exit
<1>3. CASE \E t \in Turns : CallTool(t) \/ TurnStep(t)
  BY <1>3 DEF CallTool, TurnStep, GateDriver, GateService, GateDisarm, AppendGoalMessage,
              AdmitGoalMessage, ToolCommits, EndTurn, FinishTurn, OnTurnEndFence,
              OnTurnEndPause, OnTurnEndClear, OnTurnEndRequest, hostVars, IsServer, Exit
<1>4. CASE MainStep
  BY <1>4 DEF MainStep, MainReturns, DrainBusy, DrainQuiet, Exit, othersVars, IsServer
<1> QED BY <1>1, <1>2, <1>3, <1>4 DEF HostsNext, RoundsNext

\* What a step may do to one turn: nothing; end it, or start a human one;
\* start a goal turn; take the turn to its next place; cancel it.
Same(u) == turn'[u].kind = turn[u].kind /\ turn'[u].round = turn[u].round
Fresh(u) == ~turn'[u].cancelled /\ turn'[u].end = "none"
Goes(u, from, to) == turn[u].pc = from /\ turn'[u].pc = to

StartsGoal(u) ==
  /\ ~busy /\ \E w \in Workers : DriveStart(w)
  /\ Goes(u, "off", "gate") /\ turn'[u].kind = "goal" /\ Fresh(u)

GoesOn(u) ==
  /\ Same(u) /\ turn'[u].cancelled = turn[u].cancelled /\ turn'[u].end = turn[u].end
  /\ \/ Goes(u, "gate", "gateService") \/ Goes(u, "gate", "disarm")
     \/ Goes(u, "gateService", "append") /\ GateCheck(turn[u].round)
     \/ Goes(u, "gateService", "disarm")
     \/ Goes(u, "append", "admit") /\ AppendGoalMessage(u)
     \/ Goes(u, "admit", "run") /\ AdmitGoalMessage(u)
     \/ Goes(u, "finish", "fence")
     \/ Goes(u, "fence", "pause") /\ turn[u].end = "aborted"
     \/ Goes(u, "fence", "clear") \/ Goes(u, "pause", "clear") \/ Goes(u, "clear", "request")

Finishes(u) ==
  /\ Same(u) /\ turn'[u].cancelled = turn[u].cancelled
  /\ Goes(u, "disarm", "finish") \/ Goes(u, "run", "finish")
  /\ turn'[u].end = "aborted" => turn[u].cancelled

IsCancelled(u) ==
  /\ Cancel /\ Same(u)
  /\ turn'[u].pc = turn[u].pc /\ turn'[u].end = turn[u].end

Life(u) ==
  \/ turn'[u] = turn[u]
  \/ turn'[u] \in {Idle, HumanTurn} /\ (turn[u].pc \in {"off", "request"} \/ Exit)
  \/ StartsGoal(u) \/ GoesOn(u) \/ Finishes(u) \/ IsCancelled(u)

LEMMA LifeOfATurn ==
  ASSUME HostTyped, HostsNext, NEW u \in Turns
  PROVE  Life(u)
<1>1. CASE UNCHANGED <<turn, busy, goalTurn>>
  BY <1>1 DEF Life
<1>2. ASSUME NEW w \in Workers, DriveStart(w)
      PROVE  Life(u)
  <2>1. CASE busy
    BY <1>2, <2>1 DEF DriveStart, Life
  <2>2. CASE ~busy
    <3>1. PICK t \in Turns : turn[t].pc = "off" /\ turn' = [turn EXCEPT ![t] = GoalTurn(worker[w].round)]
      BY <1>2, <2>2 DEF DriveStart
    <3>2. /\ GoalTurn(worker[w].round).pc = "gate" /\ GoalTurn(worker[w].round).kind = "goal"
          /\ ~GoalTurn(worker[w].round).cancelled /\ GoalTurn(worker[w].round).end = "none"
      BY DEF GoalTurn, Idle
    <3>3. turn'[u] = turn[u] \/ (turn[u].pc = "off" /\ turn'[u] = GoalTurn(worker[w].round))
      BY <3>1 DEF HostTyped
    <3> QED BY <1>2, <2>2, <3>2, <3>3 DEF Life, StartsGoal, Goes, Fresh
  <2> QED BY <2>1, <2>2
<1>3. ASSUME NEW t \in Turns,
             GateDriver(t) \/ GateService(t) \/ AppendGoalMessage(t) \/ AdmitGoalMessage(t)
             \/ OnTurnEndPause(t) \/ OnTurnEndClear(t)
      PROVE  Life(u)
  <2> DEFINE To(pc) ==
               /\ Turn(t, pc) \/ UNCHANGED turn
               /\ \/ turn[t].pc = "gate" /\ pc \in {"gateService", "disarm"}
                  \/ turn[t].pc = "gateService" /\ pc = "disarm"
                  \/ turn[t].pc = "gateService" /\ pc = "append" /\ GateCheck(turn[t].round)
                  \/ turn[t].pc = "append" /\ pc = "admit" /\ AppendGoalMessage(t)
                  \/ turn[t].pc = "admit" /\ pc = "run" /\ AdmitGoalMessage(t)
                  \/ turn[t].pc = "pause" /\ pc = "clear"
                  \/ turn[t].pc = "clear" /\ pc = "request"
  <2>1. PICK pc \in TurnPlaces : To(pc)
    <3>1. GateDriver(t) => To("gateService") \/ To("disarm")
      BY DEF GateDriver
    <3>2. GateService(t) => To("append") \/ To("disarm")
      BY DEF GateService
    <3>3. (AppendGoalMessage(t) => To("admit")) /\ (AdmitGoalMessage(t) => To("run"))
      BY DEF AppendGoalMessage, AdmitGoalMessage
    <3>4. (OnTurnEndPause(t) => To("clear")) /\ (OnTurnEndClear(t) => To("request"))
      BY DEF OnTurnEndPause, OnTurnEndClear
    <3> HIDE DEF To
    <3> QED BY <1>3, <3>1, <3>2, <3>3, <3>4 DEF TurnPlaces
  <2>2. CASE UNCHANGED turn
    BY <2>2 DEF Life
  <2>3. CASE Turn(t, pc)
    <3>1. GoesOn(t) /\ (u # t => turn'[u] = turn[u])
      BY <2>1, <2>3, TurnMoves DEF HostTyped, GoesOn, Same, Goes
    <3> QED BY <3>1 DEF Life
  <2> QED BY <2>1, <2>2, <2>3
<1>4. ASSUME NEW t \in Turns, GateDisarm(t) \/ EndTurn(t)
      PROVE  Life(u)
  <2>1. Finishes(t) /\ (u # t => turn'[u] = turn[u])
    BY <1>4 DEF GateDisarm, EndTurn, HostTyped, TurnStates, Finishes, Same, Goes
  <2> QED BY <2>1 DEF Life
<1>5. ASSUME NEW t \in Turns, FinishTurn(t)
      PROVE  Life(u)
  <2>1. GoesOn(t) /\ (u # t => turn'[u] = turn[u])
    BY <1>5 DEF FinishTurn, HostTyped, TurnStates, GoesOn, Same, Goes
  <2> QED BY <2>1 DEF Life
<1>6. ASSUME NEW t \in Turns, OnTurnEndFence(t)
      PROVE  Life(u)
  <2>1. GoesOn(t) /\ (u # t => turn'[u] = turn[u])
    BY <1>6 DEF OnTurnEndFence, Turn, HostTyped, TurnStates, GoesOn, Same, Goes
  <2> QED BY <2>1 DEF Life
<1>7. CASE (\E t \in Turns : OnTurnEndRequest(t)) \/ StartHuman \/ Exit
  BY <1>7 DEF OnTurnEndRequest, StartHuman, Exit, HostTyped, Life
<1>8. CASE Cancel
  <2>1. PICK t \in Turns : turn' = [turn EXCEPT ![t].cancelled = TRUE]
    BY <1>8 DEF Cancel
  <2>2. IsCancelled(t) /\ (u # t => turn'[u] = turn[u])
    BY <1>8, <2>1 DEF HostTyped, TurnStates, IsCancelled, Same
  <2> QED BY <2>2 DEF Life
<1> QED BY <1>1, <1>2, <1>3, <1>4, <1>5, <1>6, <1>7, <1>8, WhoTouchesTurns

\* The only way to the append of a goal message leads through the gate.
LEMMA OnlyThroughTheGate ==
  ASSUME HostTyped, HostsNext, NEW u \in Turns, turn'[u].pc \in {"append", "admit"}
  PROVE  /\ turn'[u].round = turn[u].round
         /\ turn[u].pc \in {"append", "admit"} \/ GateCheck(turn[u].round)
<1>1. Idle.pc = "off" /\ HumanTurn.pc = "run"
  BY DEF Idle, HumanTurn
<1> QED BY <1>1, LifeOfATurn
        DEF Life, StartsGoal, GoesOn, Finishes, IsCancelled, Same, Goes

LEMMA BothInit == HostsInit => BothInv
<1> SUFFICES ASSUME HostsInit PROVE BothInv
  OBVIOUS
<1>1. RoundsInit /\ busy = FALSE /\ main \in {"serve", "prompt"}
  BY DEF HostsInit, ServerInit, HeadlessInit
<1>2. turn \in [Turns -> TurnStates] /\ \A t \in Turns : turn[t].pc \in {"off", "run"}
  <2>1. HumanTurn.pc = "run" /\ Idle.pc = "off"
    BY DEF HumanTurn, Idle
  <2> QED BY <2>1, RecordTypes DEF HostsInit, ServerInit, HeadlessInit
<1>3. Core
  BY <1>1, InitInvariant DEF RoundsInit, IInv
<1>4. DriverTyped /\ HostTyped
  BY <1>1, <1>2, RecordTypes DEF RoundsInit, DriverTyped, HostTyped
<1>5. GrantsHold
  BY <1>2 DEF GrantsHold
<1> QED BY <1>3, <1>4, <1>5 DEF BothInv

LEMMA BothStep ==
  ASSUME BothInv, HostsNext
  PROVE  BothInv'
<1>1. Orderly
  BY StepIsOrderly
<1>2. DriverTyped' /\ HostTyped'
  BY WorkerTyped, TurnTyped, HostStepTyped DEF BothInv, Core, HostsNext, RoundsNext, HostStep
<1>3. GrantsHold'
  <2> SUFFICES ASSUME NEW t \in Turns, turn'[t].pc \in {"append", "admit"}
               PROVE  Granted(turn[t].round)'
    BY DEF GrantsHold
  <2>1. PICK r : r = turn[t].round
    OBVIOUS
  <2>2. r \in RoundRef /\ turn'[t].round = r
    BY <2>1, OnlyThroughTheGate DEF BothInv, HostTyped, TurnStates
  <2>3. Granted(r)
    <3>1. CASE GateCheck(turn[t].round)
      BY <2>1, <2>2, <3>1, GateGrants DEF BothInv
    <3>2. CASE turn[t].pc \in {"append", "admit"}
      BY <2>1, <3>2 DEF BothInv, GrantsHold
    <3> QED BY <3>1, <3>2, OnlyThroughTheGate DEF BothInv
  <2>4. Granted(r)'
    BY <1>1, <2>2, <2>3, GrantsLast DEF BothInv
  <2> QED BY <2>2, <2>4 DEF Granted
<1> QED BY <1>1, <1>2, <1>3 DEF BothInv, Orderly

LEMMA BothStutter ==
  ASSUME BothInv, UNCHANGED roundsVars
  PROVE  BothInv'
<1>1. UNCHANGED serviceVars /\ UNCHANGED <<driverVars, hostVars, turn, svcMu, sessMu>>
  BY DEF roundsVars
<1>2. Core'
  BY <1>1, OperationIsOrderly DEF BothInv, Orderly
<1>3. DriverTyped' /\ HostTyped'
  BY <1>1 DEF BothInv, driverVars, hostVars, DriverTyped, HostTyped
<1>4. GrantsHold'
  BY <1>1 DEF BothInv, serviceVars, GrantsHold, Granted
<1> QED BY <1>2, <1>3, <1>4 DEF BothInv

LEMMA BothInvariance == HostsSpec => []BothInv
<1>1. BothInv /\ [HostsNext]_roundsVars => BothInv'
  BY BothStep, BothStutter
<1> QED BY BothInit, <1>1, PTL DEF HostsSpec

\* Behind either host every state is of its type.
THEOREM HostsTypeCorrect == HostsSpec => []RoundsTypeOK
<1>1. BothInv => RoundsTypeOK
  BY TypeParts DEF BothInv, Core
<1> QED BY BothInvariance, <1>1, PTL

\* Behind either host, with any number of turns, workers, tool calls and
\* cancels in between, a round is charged once, in order, within the cap and
\* to an active goal (driver.go:178-239, goal.go:656-680).
THEOREM HostsBudgetKept == HostsSpec => RoundsWithinBudget
<1>1. BothInv /\ [HostsNext]_roundsVars => [BudgetStep]_serviceVars
  <2> SUFFICES ASSUME BothInv, [HostsNext]_roundsVars PROVE BudgetStep \/ UNCHANGED serviceVars
    OBVIOUS
  <2>1. CASE HostsNext
    BY <2>1, StepIsOrderly DEF Orderly
  <2>2. CASE UNCHANGED roundsVars
    BY <2>2 DEF roundsVars
  <2> QED BY <2>1, <2>2
<1> QED BY BothInvariance, <1>1, PTL DEF HostsSpec, RoundsWithinBudget

-----------------------------------------------------------------------------
(* The server: who holds the agent.                                        *)

\* The goroutine the busy flag stands for: inside a turn, about to release
\* it, or on its way to the prompt it took from the queue.
Ending(t) == turn[t].pc \in {"fence", "pause", "clear", "request"}
Inside(t) == InTurn(t) \/ turn[t].pc = "finish"
Holder(t) == Inside(t) \/ (Ending(t) /\ turn[t].next)

\* The busy and goalTurn flags say what the goroutines are doing.
OneHolder ==
  \A t \in Turns : Holder(t) => busy /\ \A u \in Turns \ {t} : ~Holder(u)
GoalTurnIsOne ==
  /\ \A t \in Turns : Inside(t) => (goalTurn <=> turn[t].kind = "goal")
  /\ \A t \in Turns : Ending(t) /\ turn[t].next => ~goalTurn
  /\ ~busy => ~goalTurn
FlagsTellTruth == OneHolder /\ GoalTurnIsOne

\* The inductive invariant of the session entry.
EntryInv == IsServer => FlagsTellTruth /\ TurnReportedAsItWas

\* The step of a goroutine that stays inside its turn.
LEMMA InsideMoves ==
  ASSUME FlagsTellTruth, TurnReportedAsItWas, NEW t \in Turns, Inside(t), Inside(t)',
         turn'[t].kind = turn[t].kind, \A u \in Turns \ {t} : turn'[u] = turn[u],
         busy' = busy, goalTurn' = goalTurn
  PROVE  FlagsTellTruth' /\ TurnReportedAsItWas'
BY DEF FlagsTellTruth, OneHolder, GoalTurnIsOne, TurnReportedAsItWas, Holder, Inside, InTurn, Ending

\* The step of a goroutine that stays in OnTurnEnd.
LEMMA EndingMoves ==
  ASSUME FlagsTellTruth, TurnReportedAsItWas, NEW t \in Turns, Ending(t), Ending(t)',
         turn'[t].kind = turn[t].kind, turn'[t].wasGoal = turn[t].wasGoal,
         turn'[t].next = turn[t].next, \A u \in Turns \ {t} : turn'[u] = turn[u],
         busy' = busy, goalTurn' = goalTurn
  PROVE  FlagsTellTruth' /\ TurnReportedAsItWas'
BY DEF FlagsTellTruth, OneHolder, GoalTurnIsOne, TurnReportedAsItWas, Holder, Inside, InTurn, Ending

\* A goroutine that starts a turn while the agent is free.
LEMMA HolderStarts ==
  ASSUME FlagsTellTruth, TurnReportedAsItWas, ~busy, NEW t \in Turns, Inside(t)',
         busy', goalTurn' <=> turn'[t].kind = "goal",
         \A u \in Turns \ {t} : turn'[u] = turn[u]
  PROVE  FlagsTellTruth' /\ TurnReportedAsItWas'
BY DEF FlagsTellTruth, OneHolder, GoalTurnIsOne, TurnReportedAsItWas, Holder, Inside, InTurn, Ending

LEMMA EntryStep ==
  ASSUME HostTyped, IsServer, FlagsTellTruth, TurnReportedAsItWas, HostsNext
  PROVE  FlagsTellTruth' /\ TurnReportedAsItWas'
<1> DEFINE Moves(t, pc) ==
             /\ turn'[t].pc = pc /\ turn'[t].kind = turn[t].kind
             /\ turn'[t].wasGoal = turn[t].wasGoal /\ turn'[t].next = turn[t].next
             /\ \A u \in Turns \ {t} : turn'[u] = turn[u]
             /\ busy' = busy /\ goalTurn' = goalTurn
<1>1. ASSUME UNCHANGED <<turn, busy, goalTurn>>
      PROVE  FlagsTellTruth' /\ TurnReportedAsItWas'
  BY <1>1 DEF FlagsTellTruth, OneHolder, GoalTurnIsOne, TurnReportedAsItWas, Holder, Inside, InTurn, Ending
<1>2. CASE \E w \in Workers : DriveStart(w)
  <2>1. CASE busy
    BY <1>1, <1>2, <2>1 DEF DriveStart
  <2>2. CASE ~busy
    <3>1. PICK t \in Turns : /\ turn[t].pc = "off" /\ busy' /\ goalTurn'
                            /\ turn'[t].pc = "gate" /\ turn'[t].kind = "goal"
                            /\ \A u \in Turns \ {t} : turn'[u] = turn[u]
      <4>1. PICK w \in Workers : DriveStart(w)
        BY <1>2
      <4>2. PICK t \in Turns : /\ turn[t].pc = "off" /\ busy' = TRUE /\ goalTurn' = TRUE
                              /\ turn' = [turn EXCEPT ![t] = GoalTurn(worker[w].round)]
        BY <4>1, <2>2 DEF DriveStart
      <4>3. GoalTurn(worker[w].round).pc = "gate" /\ GoalTurn(worker[w].round).kind = "goal"
        BY DEF GoalTurn, Idle
      <4> QED BY <4>2, <4>3 DEF HostTyped
    <3> QED BY <2>2, <3>1, HolderStarts DEF Inside, InTurn
  <2> QED BY <2>1, <2>2
<1>3. ASSUME NEW t \in Turns,
             \/ GateDriver(t) \/ GateService(t) \/ GateDisarm(t) \/ AppendGoalMessage(t)
             \/ AdmitGoalMessage(t) \/ EndTurn(t)
      PROVE  FlagsTellTruth' /\ TurnReportedAsItWas'
  <2>1. \E pc \in {"gateService", "disarm", "append", "admit", "run", "finish"} : Moves(t, pc)
    <3>1. CASE GateDriver(t) \/ GateService(t)
      BY <3>1 DEF GateDriver, GateService, Turn, HostTyped, TurnStates, hostVars
    <3>2. CASE AppendGoalMessage(t) \/ AdmitGoalMessage(t)
      BY <3>2 DEF AppendGoalMessage, AdmitGoalMessage, Turn, HostTyped, TurnStates, hostVars
    <3>3. CASE GateDisarm(t) \/ EndTurn(t)
      BY <3>3 DEF GateDisarm, EndTurn, HostTyped, TurnStates, hostVars
    <3> QED BY <1>3, <3>1, <3>2, <3>3
  <2>2. Inside(t)
    BY <1>3 DEF GateDriver, GateService, GateDisarm, AppendGoalMessage, AdmitGoalMessage, EndTurn,
                Inside, InTurn
  <2>3. Inside(t)'
    BY <2>1 DEF Inside, InTurn
  <2> QED BY <2>1, <2>2, <2>3, InsideMoves
<1>4. ASSUME NEW t \in Turns, OnTurnEndFence(t) \/ OnTurnEndPause(t) \/ OnTurnEndClear(t)
      PROVE  FlagsTellTruth' /\ TurnReportedAsItWas'
  <2>1. \E pc \in {"pause", "clear", "request"} : Moves(t, pc)
    <3>1. CASE OnTurnEndFence(t)
      BY <3>1 DEF OnTurnEndFence, Turn, HostTyped, TurnStates, hostVars
    <3>2. CASE OnTurnEndPause(t) \/ OnTurnEndClear(t)
      BY <3>2 DEF OnTurnEndPause, OnTurnEndClear, Turn, HostTyped, TurnStates, hostVars
    <3> QED BY <1>4, <3>1, <3>2
  <2>2. Ending(t)
    BY <1>4 DEF OnTurnEndFence, OnTurnEndPause, OnTurnEndClear, Ending
  <2>3. Ending(t)'
    BY <2>1 DEF Ending
  <2> QED BY <2>1, <2>2, <2>3, EndingMoves
<1>5. ASSUME NEW t \in Turns, FinishTurn(t)
      PROVE  FlagsTellTruth' /\ TurnReportedAsItWas'
  <2>1. /\ turn[t].pc = "finish" /\ turn'[t].pc = "fence" /\ turn'[t].kind = turn[t].kind
        /\ \A u \in Turns \ {t} : turn'[u] = turn[u]
    BY <1>5 DEF FinishTurn, HostTyped, TurnStates
  <2>2. \A u \in Turns \ {t} : ~Holder(u)
    BY <2>1 DEF FlagsTellTruth, OneHolder, Holder, Inside
  <2>3. ~goalTurn' /\ (turn'[t].next => busy')
    BY <1>5 DEF FinishTurn, HostTyped, TurnStates
  <2>4. turn'[t].wasGoal = (turn'[t].kind = "goal")
    <3>1. turn'[t].wasGoal = goalTurn /\ goalTurn \in BOOLEAN
      BY <1>5 DEF FinishTurn, HostTyped, TurnStates
    <3>2. goalTurn <=> turn'[t].kind = "goal"
      BY <2>1 DEF FlagsTellTruth, GoalTurnIsOne, Inside
    <3> QED BY <3>1, <3>2
  <2>5. OneHolder'
    BY <2>1, <2>2, <2>3 DEF OneHolder, Holder, Inside, InTurn, Ending
  <2>6. GoalTurnIsOne'
    BY <2>1, <2>2, <2>3 DEF GoalTurnIsOne, Holder, Inside, InTurn, Ending
  <2>7. TurnReportedAsItWas'
    BY <2>1, <2>4 DEF TurnReportedAsItWas
  <2> QED BY <2>5, <2>6, <2>7 DEF FlagsTellTruth
<1>6. ASSUME NEW t \in Turns, OnTurnEndRequest(t)
      PROVE  FlagsTellTruth' /\ TurnReportedAsItWas'
  <2>1. /\ turn[t].pc = "request" /\ busy' = busy /\ goalTurn' = goalTurn
        /\ turn'[t].pc = (IF turn[t].next THEN "run" ELSE "off")
        /\ turn'[t].kind = "human"
        /\ \A u \in Turns \ {t} : turn'[u] = turn[u]
    BY <1>6 DEF OnTurnEndRequest, HostTyped, HumanTurn, Idle, hostVars
  <2>2. Inside(t)' => Holder(t) /\ ~goalTurn'
    BY <2>1 DEF FlagsTellTruth, GoalTurnIsOne, Holder, Inside, InTurn, Ending
  <2>3. ~Ending(t)' /\ (Holder(t)' => Holder(t))
    BY <2>1, <2>2 DEF Holder, Ending
  <2>4. \A u \in Turns \ {t} : (Holder(u)' <=> Holder(u)) /\ (Inside(u)' <=> Inside(u))
                              /\ (Ending(u)' <=> Ending(u))
    BY <2>1 DEF Holder, Inside, InTurn, Ending
  <2>5. OneHolder'
    BY <2>1, <2>3, <2>4 DEF FlagsTellTruth, OneHolder
  <2>6. GoalTurnIsOne'
    BY <2>1, <2>2, <2>3, <2>4 DEF FlagsTellTruth, GoalTurnIsOne
  <2>7. TurnReportedAsItWas'
    BY <2>1 DEF TurnReportedAsItWas
  <2> QED BY <2>5, <2>6, <2>7 DEF FlagsTellTruth
<1>7. CASE StartHuman
  <2>1. CASE busy
    BY <1>1, <1>7, <2>1 DEF StartHuman
  <2>2. CASE ~busy
    <3>1. PICK t \in Turns : /\ turn[t].pc = "off" /\ busy' /\ goalTurn' = goalTurn
                            /\ turn'[t].pc = "run" /\ turn'[t].kind = "human"
                            /\ \A u \in Turns \ {t} : turn'[u] = turn[u]
      BY <1>7, <2>2 DEF StartHuman, HumanTurn, Idle, HostTyped
    <3>2. ~goalTurn'
      BY <2>2, <3>1 DEF FlagsTellTruth, GoalTurnIsOne
    <3> QED BY <2>2, <3>1, <3>2, HolderStarts DEF Inside, InTurn
  <2> QED BY <2>1, <2>2
<1>8. CASE Cancel
  <2>1. PICK t \in Turns : InTurn(t) /\ turn' = [turn EXCEPT ![t].cancelled = TRUE]
    BY <1>8 DEF Cancel
  <2>2. Moves(t, turn[t].pc)
    BY <1>8, <2>1 DEF Cancel, HostTyped, TurnStates, hostVars
  <2>3. Inside(t) /\ Inside(t)'
    BY <2>1, <2>2 DEF Inside, InTurn
  <2> QED BY <2>2, <2>3, InsideMoves
<1> QED BY <1>1, <1>2, <1>3, <1>4, <1>5, <1>6, <1>7, <1>8, WhoTouchesTurns, HostForGood

LEMMA EntryInvariance == HostsSpec => []EntryInv
<1>1. HostsInit => EntryInv
  <2> SUFFICES ASSUME ServerInit PROVE FlagsTellTruth /\ TurnReportedAsItWas
    BY DEF HostsInit, HeadlessInit, EntryInv, IsServer
  <2>1. /\ ~busy /\ ~goalTurn
        /\ \A t \in Turns : turn[t].pc = "off"
    BY DEF ServerInit, RoundsInit, Idle
  <2> QED BY <2>1 DEF FlagsTellTruth, OneHolder, GoalTurnIsOne, TurnReportedAsItWas, Holder, Inside,
                      InTurn, Ending
<1>2. BothInv /\ EntryInv /\ [HostsNext]_roundsVars => EntryInv'
  <2>1. ASSUME BothInv, EntryInv, HostsNext PROVE EntryInv'
    BY <2>1, EntryStep, HostForGood DEF BothInv, EntryInv
  <2>2. ASSUME EntryInv, UNCHANGED roundsVars PROVE EntryInv'
    BY <2>2 DEF roundsVars, hostVars, EntryInv, IsServer, FlagsTellTruth, OneHolder, GoalTurnIsOne,
                TurnReportedAsItWas, Holder, Inside, InTurn, Ending
  <2> QED BY <2>1, <2>2
<1> QED BY BothInvariance, <1>1, <1>2, PTL DEF HostsSpec

\* Behind the server at most one goroutine is inside a turn, it holds the
\* agent, and its end is reported to the driver as what it was, with any
\* number of prompts, rounds and cancels (server.go:214-232, 270-278).
THEOREM ServerTurnsAreApart == HostsSpec => []ServerTurnsApart
<1>1. EntryInv => ServerTurnsApart
  BY DEF EntryInv, FlagsTellTruth, OneHolder, ServerTurnsApart, TurnHoldsAgent, Holder, Inside
<1> QED BY EntryInvariance, <1>1, PTL

\* Behind either host a prompt waits only while the agent is taken: no goal
\* round can pass it (server.go:212-226).
THEOREM HumanGoesFirst == HostsSpec => []HumanFirst
<1>1. HostsInit => HumanFirst
  BY DEF HostsInit, ServerInit, HeadlessInit, RoundsInit, HumanFirst
<1>2. BothInv /\ HumanFirst /\ [HostsNext]_roundsVars => HumanFirst'
  <2> SUFFICES ASSUME BothInv, HumanFirst, [HostsNext]_roundsVars PROVE HumanFirst'
    OBVIOUS
  <2>1. CASE \E w \in Workers : WorkerStep(w)
    BY <2>1 DEF WorkerStep, WorkerHead, WorkerTail, DriveIdle, DriveRecycle, DriveReserve,
                DriveLimit, DriveBook, DriveStart, DriveUnbook, DriveFailed, DriveBlock, hostVars,
                HumanFirst
  <2>2. CASE \E t \in Turns : FinishTurn(t)
    BY <2>2 DEF FinishTurn, HumanFirst, BothInv, HostTyped
  <2>3. CASE \E t \in Turns : (CallTool(t) \/ TurnStep(t)) /\ ~FinishTurn(t)
    BY <2>3 DEF CallTool, TurnStep, GateDriver, GateService, GateDisarm, AppendGoalMessage,
                AdmitGoalMessage, ToolCommits, EndTurn, OnTurnEndFence, OnTurnEndPause,
                OnTurnEndClear, OnTurnEndRequest, hostVars, HumanFirst
  <2>4. CASE HostStep \/ PendingRequest
    BY <2>4 DEF HostStep, StartHuman, Cancel, Compacted, MainStep, MainReturns, DrainBusy,
                DrainQuiet, Exit, othersVars, PendingRequest, hostVars, HumanFirst
  <2>5. CASE UNCHANGED roundsVars
    BY <2>5 DEF roundsVars, hostVars, HumanFirst
  <2> QED BY <2>1, <2>2, <2>3, <2>4, <2>5 DEF HostsNext, RoundsNext, HostStep
<1> QED BY BothInvariance, <1>1, <1>2, PTL DEF HostsSpec

-----------------------------------------------------------------------------
(* The server: the log and the mirror.                                     *)

\* There is one worker at most.
SingleFlight ==
  /\ ~running => \A w \in Workers : worker[w].pc = "off"
  /\ \A v, w \in Workers : worker[v].pc # "off" /\ worker[w].pc # "off" => v = w

\* A request that is recorded has a worker, and a flight is somebody's.
RequestKept ==
  /\ requested => running
  /\ running => \E w \in Workers : worker[w].pc # "off"

\* A worker that found the agent idle is not overtaken by a goal turn: only
\* the worker itself would start one.
PastIdle(w) ==
  worker[w].pc \in {"recycle", "reserve", "limit", "book", "start", "unbook", "failed", "block"}
WorkerAlone ==
  (\E w \in Workers : PastIdle(w)) => \A t \in Turns : Inside(t) => turn[t].kind = "human"

\* Only a goal turn appends, and sessMu is held by the turn that has.
AppendShape ==
  \A t \in Turns :
    /\ turn[t].pc \in {"gate", "gateService", "disarm", "append", "admit"} => turn[t].kind = "goal"
    /\ turn[t].pc = "admit" <=> sessMu = t

\* As long as nobody cancels, what the gate let through is still what Fold
\* expects when it is appended, and when the listener hears of it.
Undisturbed ==
  /\ ~corrupt
  /\ sessMu = Free => state = folded
  /\ \A t \in Turns :
       /\ ~turn[t].cancelled /\ turn[t].end # "aborted" /\ turn[t].pc # "pause"
       /\ turn[t].pc \in {"append", "admit"} => RoundOK(state, turn[t].round)
       /\ turn[t].pc = "admit" => folded = [state EXCEPT !.rounds = turn[t].round.round]

\* The inductive invariant of the log behind the server.
LogInv ==
  /\ cancels \in Nat
  /\ IsServer => SingleFlight /\ WorkerAlone /\ AppendShape /\ (cancels = 0 => Undisturbed)

\* A step of one worker leaves the others alone, and ends it only together
\* with the running flag.
LEMMA OneWorker ==
  ASSUME DriverTyped, NEW w \in Workers, WorkerStep(w)
  PROVE  /\ worker[w].pc # "off"
         /\ \A v \in Workers \ {w} : worker'[v] = worker[v]
         /\ IF worker'[w].pc = "off" THEN ~running' ELSE running' = running
         /\ requested' => requested /\ running' = running
<1>1. CASE WorkerTail(w)
  BY <1>1 DEF WorkerTail, Go, Sleeping, DriverTyped, WorkerStates
<1>2. CASE DriveReserve(w)
  BY <1>2 DEF DriveReserve, Go, DriverTyped, WorkerStates
<1>3. CASE WorkerHead(w) \/ DriveIdle(w) \/ DriveRecycle(w) \/ DriveFailed(w)
  BY <1>3 DEF WorkerHead, DriveIdle, DriveRecycle, DriveFailed, Go, DriverTyped, WorkerStates
<1>4. CASE DriveLimit(w) \/ DriveBook(w) \/ DriveStart(w) \/ DriveUnbook(w)
  BY <1>4 DEF DriveLimit, DriveBook, DriveStart, DriveUnbook, Go, DriverTyped, WorkerStates
<1>5. CASE DriveBlock(w)
  BY <1>5 DEF DriveBlock, Go, DriverTyped, WorkerStates
<1> QED BY <1>1, <1>2, <1>3, <1>4, <1>5 DEF WorkerStep

\* The steps that touch the workers.
LEMMA WhoTouchesWorkers ==
  ASSUME HostsNext
  PROVE  \/ UNCHANGED <<requested, running, worker>> \/ RequestDrive \/ Exit
         \/ \E w \in Workers : WorkerStep(w)
<1>1. CASE \E t \in Turns : CallTool(t) \/ TurnStep(t)
  BY <1>1 DEF CallTool, TurnStep, GateDriver, GateService, GateDisarm, AppendGoalMessage,
              AdmitGoalMessage, ToolCommits, EndTurn, FinishTurn, OnTurnEndFence,
              OnTurnEndPause, OnTurnEndClear, OnTurnEndRequest, driverVars
<1>2. CASE PendingRequest \/ StartHuman \/ Cancel \/ Compacted \/ MainStep
  BY <1>2 DEF PendingRequest, StartHuman, Cancel, Compacted, MainStep, MainReturns, DrainBusy,
              DrainQuiet, othersVars, driverVars
<1> QED BY <1>1, <1>2 DEF HostsNext, RoundsNext

LEMMA SingleFlightStep ==
  ASSUME DriverTyped, SingleFlight, HostsNext
  PROVE  SingleFlight' /\ (RequestKept => RequestKept')
<1>1. CASE UNCHANGED <<requested, running, worker>>
  BY <1>1 DEF SingleFlight, RequestKept
<1>2. CASE RequestDrive
  BY <1>2, RequestWakes DEF DriverTyped, SingleFlight, RequestKept
<1>3. CASE Exit
  BY <1>3 DEF Exit, Quiet, Sleeping, SingleFlight, RequestKept
<1>4. CASE \E w \in Workers : WorkerStep(w)
  <2>1. PICK w \in Workers : WorkerStep(w)
    BY <1>4
  <2>2. \A v \in Workers \ {w} : worker'[v].pc = "off"
    BY <2>1, OneWorker DEF SingleFlight
  <2>3. ~running' => worker'[w].pc = "off"
    BY <2>1, OneWorker DEF SingleFlight
  <2>4. RequestKept => RequestKept'
    BY <2>1, OneWorker DEF RequestKept
  <2> QED BY <2>2, <2>3, <2>4 DEF SingleFlight
<1> QED BY <1>1, <1>2, <1>3, <1>4, WhoTouchesWorkers

\* A worker is past the idle check because it was, or because it just found
\* the agent free.
LEMMA PastIdleWas ==
  ASSUME DriverTyped, HostsNext, NEW w \in Workers, PastIdle(w)'
  PROVE  PastIdle(w) \/ (DriveIdle(w) /\ ~busy)
<1>1. CASE UNCHANGED <<requested, running, worker>>
  BY <1>1 DEF PastIdle
<1>2. CASE RequestDrive
  BY <1>2, RequestWakes DEF DriverTyped, PastIdle
<1>3. CASE Exit
  BY <1>3 DEF Exit, Sleeping, PastIdle
<1>4. ASSUME NEW v \in Workers, WorkerStep(v)
      PROVE  PastIdle(w) \/ (DriveIdle(w) /\ ~busy)
  <2>1. CASE v # w
    BY <1>4, <2>1, OneWorker DEF PastIdle
  <2>2. CASE v = w
    <3>1. CASE DriveIdle(w)
      BY <3>1 DEF DriveIdle, IdleAndLive, Go, PastIdle, DriverTyped, WorkerStates
    <3>2. CASE WorkerHead(w) \/ WorkerTail(w)
      BY <3>2 DEF WorkerHead, WorkerTail, Go, Sleeping, PastIdle, DriverTyped, WorkerStates
    <3>3. CASE ~DriveIdle(w) /\ ~WorkerHead(w) /\ ~WorkerTail(w)
      BY <1>4, <2>2, <3>3 DEF WorkerStep, DriveRecycle, DriveReserve, DriveLimit, DriveBook,
                              DriveStart, DriveUnbook, DriveFailed, DriveBlock, PastIdle
    <3> QED BY <3>1, <3>2, <3>3
  <2> QED BY <2>1, <2>2
<1> QED BY <1>1, <1>2, <1>3, <1>4, WhoTouchesWorkers

LEMMA WorkerAloneStep ==
  ASSUME DriverTyped, HostTyped, IsServer, FlagsTellTruth, SingleFlight, WorkerAlone, HostsNext
  PROVE  WorkerAlone'
<1> SUFFICES ASSUME NEW w \in Workers, PastIdle(w)', NEW t \in Turns, Inside(t)'
             PROVE  turn'[t].kind = "human"
  BY DEF WorkerAlone
<1>1. ~DriveStart(w) \/ busy
  BY DEF DriveStart, Go, DriverTyped, WorkerStates, PastIdle
<1>2. PastIdle(w) \/ (DriveIdle(w) /\ ~busy)
  BY PastIdleWas
<1>3. ~StartsGoal(t)
  <2> SUFFICES ASSUME NEW v \in Workers, DriveStart(v), ~busy PROVE FALSE
    BY DEF StartsGoal
  <2>1. v = w
    BY <1>2 DEF DriveStart, DriveIdle, PastIdle, SingleFlight
  <2> QED BY <1>1, <2>1
<1>4. Inside(t) => turn[t].kind = "human"
  BY <1>2 DEF WorkerAlone, FlagsTellTruth, OneHolder, Holder
<1>5. CASE turn'[t] = turn[t]
  BY <1>4, <1>5 DEF Inside, InTurn
<1>6. CASE turn'[t] \in {Idle, HumanTurn}
  BY <1>6 DEF Idle, HumanTurn
<1>7. CASE GoesOn(t) \/ Finishes(t) \/ IsCancelled(t)
  BY <1>4, <1>7 DEF GoesOn, Finishes, IsCancelled, Same, Goes, Inside, InTurn
<1> QED BY <1>3, <1>5, <1>6, <1>7, LifeOfATurn DEF Life

\* Only the append of a goal message takes Session.mu for longer than a step,
\* and only its listener gives it back.
LEMMA WhoHoldsSession ==
  ASSUME HostsNext
  PROVE  sessMu' = sessMu \/ \E t \in Turns : AppendGoalMessage(t) \/ AdmitGoalMessage(t)
<1>1. CASE \E w \in Workers : WorkerStep(w)
  BY <1>1 DEF WorkerStep, WorkerHead, WorkerTail, DriveIdle, DriveRecycle, DriveReserve,
              DriveLimit, DriveBook, DriveStart, DriveUnbook, DriveFailed, DriveBlock
<1>2. CASE \E t \in Turns : CallTool(t) \/ TurnStep(t)
  BY <1>2 DEF CallTool, TurnStep, GateDriver, GateService, GateDisarm, ToolCommits, EndTurn,
              FinishTurn, OnTurnEndFence, OnTurnEndPause, OnTurnEndClear, OnTurnEndRequest
<1>3. CASE HostStep \/ PendingRequest
  BY <1>3 DEF HostStep, StartHuman, Cancel, Compacted, MainStep, MainReturns, DrainBusy,
              DrainQuiet, Exit, othersVars, PendingRequest
<1> QED BY <1>1, <1>2, <1>3 DEF HostsNext, RoundsNext, HostStep

\* One turn appends or hears of its append, and every other is left alone.
LEMMA OneAppends ==
  ASSUME HostTyped, NEW t \in Turns, AppendGoalMessage(t) \/ AdmitGoalMessage(t)
  PROVE  /\ turn'[t].round = turn[t].round /\ turn'[t].kind = turn[t].kind
         /\ turn'[t].cancelled = turn[t].cancelled /\ turn'[t].end = turn[t].end
         /\ \A u \in Turns \ {t} : turn'[u] = turn[u]
         /\ AppendGoalMessage(t) => /\ turn[t].pc = "append" /\ turn'[t].pc = "admit"
                                    /\ sessMu = Free /\ sessMu' = t
         /\ AdmitGoalMessage(t) => /\ turn[t].pc = "admit" /\ turn'[t].pc = "run"
                                   /\ sessMu' = Free
<1>1. CASE AppendGoalMessage(t)
  <2>1. Turn(t, "admit") /\ turn[t].pc = "append" /\ sessMu = Free /\ sessMu' = t
    BY <1>1 DEF AppendGoalMessage
  <2> QED BY <2>1, TurnMoves DEF HostTyped, TurnPlaces, AdmitGoalMessage
<1>2. CASE AdmitGoalMessage(t)
  <2>1. Turn(t, "run") /\ turn[t].pc = "admit" /\ sessMu' = Free
    BY <1>2 DEF AdmitGoalMessage
  <2> QED BY <2>1, TurnMoves DEF HostTyped, TurnPlaces, AppendGoalMessage
<1> QED BY <1>1, <1>2

LEMMA AppendShapeStep ==
  ASSUME HostTyped, AppendShape, HostsNext
  PROVE  AppendShape' \/ Exit
<1> SUFFICES ASSUME ~Exit, NEW u \in Turns
             PROVE  /\ turn'[u].pc \in {"gate", "gateService", "disarm", "append", "admit"}
                         => turn'[u].kind = "goal"
                    /\ turn'[u].pc = "admit" <=> sessMu' = u
  BY DEF AppendShape
<1>1. turn'[u].pc \in {"gate", "gateService", "disarm", "append", "admit"} => turn'[u].kind = "goal"
  <2>1. Idle.pc = "off" /\ HumanTurn.pc = "run"
    BY DEF Idle, HumanTurn
  <2> QED BY <2>1, LifeOfATurn
          DEF Life, StartsGoal, GoesOn, Finishes, IsCancelled, Same, Goes, AppendShape
<1>2. turn'[u].pc = "admit" <=> sessMu' = u
  <2>1. ASSUME NEW t \in Turns, AppendGoalMessage(t) \/ AdmitGoalMessage(t)
        PROVE  turn'[u].pc = "admit" <=> sessMu' = u
    BY <2>1, OneAppends, RoundsAssumption DEF AppendShape
  <2>2. CASE ~\E t \in Turns : AppendGoalMessage(t) \/ AdmitGoalMessage(t)
    <3>1. sessMu' = sessMu
      BY <2>2, WhoHoldsSession
    <3>2. turn'[u].pc = "admit" => turn[u].pc = "admit"
      BY <2>2, LifeOfATurn
         DEF Life, StartsGoal, GoesOn, Finishes, IsCancelled, Goes, Idle, HumanTurn
    <3>3. turn[u].pc = "admit" => turn'[u].pc = "admit"
      BY <2>2, LifeOfATurn
         DEF Life, StartsGoal, GoesOn, Finishes, IsCancelled, Goes, Idle, HumanTurn
    <3> QED BY <3>1, <3>2, <3>3 DEF AppendShape
  <2> QED BY <2>1, <2>2
<1> QED BY <1>1, <1>2

\* Until somebody cancels, the mirror and the log move only by the append of
\* a goal message and its listener, or by a commit while no goal message is
\* on its way.
LEMMA CommitAlone ==
  ASSUME BothInv, IsServer, FlagsTellTruth, WorkerAlone, AppendShape, Undisturbed, HostsNext
  PROVE  \/ UNCHANGED <<state, folded, corrupt, sessMu>>
         \/ \E t \in Turns : AppendGoalMessage(t) \/ AdmitGoalMessage(t)
         \/ /\ Kept /\ sessMu = Free /\ UNCHANGED <<sessMu, turn>>
            /\ \A u \in Turns : turn[u].pc # "append"
<1> USE DEF serviceVars
<1>1. ASSUME NEW w \in Workers, WorkerStep(w), PastIdle(w)
      PROVE  \A u \in Turns : turn[u].pc # "append"
  BY <1>1 DEF WorkerAlone, AppendShape, Inside, InTurn
<1>2. ASSUME NEW w \in Workers, DriveLimit(w)
      PROVE  /\ Kept /\ sessMu = Free /\ UNCHANGED <<sessMu, turn>>
             /\ \A u \in Turns : turn[u].pc # "append"
  BY <1>1, <1>2, BlockAtLimitKeeps DEF WorkerStep, DriveLimit, PastIdle, BothInv
<1>3. ASSUME NEW w \in Workers, DriveBlock(w)
      PROVE  \/ UNCHANGED <<state, folded, corrupt, sessMu>>
             \/ /\ Kept /\ sessMu = Free /\ UNCHANGED <<sessMu, turn>>
                /\ \A u \in Turns : turn[u].pc # "append"
  BY <1>1, <1>3, BlockKeeps, RoundsAssumption DEF WorkerStep, DriveBlock, PastIdle, BothInv
<1>4. ASSUME NEW t \in Turns, ToolCommits(t)
      PROVE  /\ Kept /\ sessMu = Free /\ UNCHANGED <<sessMu, turn>>
             /\ \A u \in Turns : turn[u].pc # "append"
  <2>1. Kept /\ sessMu = Free /\ UNCHANGED <<sessMu, turn>> /\ turn[t].pc = "run"
    BY <1>4, ToolKept DEF ToolCommits, BothInv
  <2>2. \A u \in Turns : turn[u].pc # "append"
    BY <2>1 DEF FlagsTellTruth, OneHolder, Holder, Inside, InTurn
  <2> QED BY <2>1, <2>2
<1>5. CASE \E w \in Workers : WorkerStep(w) /\ ~DriveLimit(w) /\ ~DriveBlock(w)
  BY <1>5 DEF WorkerStep, WorkerHead, WorkerTail, DriveIdle, DriveRecycle, DriveReserve,
              DriveBook, DriveStart, DriveUnbook, DriveFailed
<1>6. ASSUME NEW t \in Turns, CallTool(t) \/ TurnStep(t), ~ToolCommits(t),
             ~AppendGoalMessage(t), ~AdmitGoalMessage(t)
      PROVE  UNCHANGED <<state, folded, corrupt, sessMu>>
  <2>1. ~OnTurnEndPause(t)
    BY DEF OnTurnEndPause, Undisturbed
  <2>2. CASE GateDisarm(t) \/ OnTurnEndFence(t)
    BY <2>2 DEF GateDisarm, OnTurnEndFence, DisarmAndRequest, Disarm
  <2> QED BY <1>6, <2>1, <2>2
          DEF TurnStep, CallTool, GateDriver, GateService, EndTurn, FinishTurn, OnTurnEndClear,
              OnTurnEndRequest
<1>7. CASE HostStep \/ PendingRequest
  BY <1>7 DEF HostStep, StartHuman, Cancel, Compacted, MainStep, MainReturns, DrainBusy,
              DrainQuiet, Exit, othersVars, PendingRequest
<1> QED BY <1>2, <1>3, <1>4, <1>5, <1>6, <1>7 DEF HostsNext, RoundsNext, HostStep

\* A turn that nobody cancelled does not end as aborted.
LEMMA QuietStep ==
  ASSUME HostTyped, Undisturbed, HostsNext, ~Cancel, NEW u \in Turns
  PROVE  ~turn'[u].cancelled /\ turn'[u].end # "aborted" /\ turn'[u].pc # "pause"
<1>1. \A r \in {Idle, HumanTurn} : ~r.cancelled /\ r.end = "none" /\ r.pc # "pause"
  BY DEF Idle, HumanTurn
<1> QED BY <1>1, LifeOfATurn
        DEF Life, StartsGoal, Fresh, GoesOn, Finishes, IsCancelled, Goes, Undisturbed

LEMMA UndisturbedStep ==
  ASSUME BothInv, IsServer, FlagsTellTruth, WorkerAlone, AppendShape, Undisturbed, HostsNext,
         ~Cancel
  PROVE  Undisturbed'
<1> DEFINE Path(u) ==
             /\ turn[u].pc \in {"append", "admit"} => RoundOK(state, turn[u].round)
             /\ turn[u].pc = "admit" => folded = [state EXCEPT !.rounds = turn[u].round.round]
<1> SUFFICES /\ ~corrupt' /\ (sessMu' = Free => state' = folded')
             /\ \A u \in Turns : Path(u)'
  BY QuietStep DEF BothInv, Undisturbed
<1>0. HostTyped /\ Free \notin Turns /\ Core
  BY RoundsAssumption DEF BothInv
<1>1. ASSUME UNCHANGED <<state, folded, corrupt, sessMu>>
      PROVE  /\ ~corrupt' /\ (sessMu' = Free => state' = folded')
             /\ \A u \in Turns : Path(u)'
  <2>1. ASSUME NEW u \in Turns PROVE Path(u)'
    <3>1. ~AppendGoalMessage(u)
      BY <1>0, <1>1, OneAppends
    <3>2. turn'[u].pc = "admit" => turn[u].pc = "admit"
      BY <1>0, <3>1, LifeOfATurn
         DEF Life, StartsGoal, GoesOn, Finishes, IsCancelled, Goes, Idle, HumanTurn
    <3>3. turn'[u].pc \in {"append", "admit"} => RoundOK(state, turn'[u].round)
      BY <1>0, OnlyThroughTheGate DEF GateCheck, Undisturbed
    <3>4. turn'[u].pc \in {"append", "admit"} => turn'[u].round = turn[u].round
      BY <1>0, OnlyThroughTheGate
    <3> QED BY <1>1, <3>2, <3>3, <3>4 DEF Undisturbed, RoundOK, HasGoal
  <2> QED BY <1>1, <2>1 DEF Undisturbed
<1>2. ASSUME NEW t \in Turns, AppendGoalMessage(t)
      PROVE  /\ ~corrupt' /\ (sessMu' = Free => state' = folded')
             /\ \A u \in Turns : Path(u)'
  <2>1. /\ turn[t].pc = "append" /\ turn'[t].pc = "admit" /\ turn'[t].round = turn[t].round
        /\ \A u \in Turns \ {t} : turn'[u] = turn[u]
        /\ sessMu = Free /\ sessMu' = t
    BY <1>0, <1>2, OneAppends
  <2>2. ~corrupt /\ state = folded /\ RoundOK(state, turn[t].round)
    BY <2>1 DEF Undisturbed
  <2>3. state' = state /\ folded' = [folded EXCEPT !.rounds = turn[t].round.round] /\ ~corrupt'
    BY <1>2, <2>2 DEF AppendGoalMessage, AppendRound
  <2>4. \A u \in Turns \ {t} : turn[u].pc \notin {"append", "admit"}
    BY <2>1 DEF FlagsTellTruth, OneHolder, Holder, Inside, InTurn
  <2>5. Path(t)'
    BY <2>1, <2>2, <2>3 DEF RoundOK, HasGoal
  <2>6. \A u \in Turns \ {t} : Path(u)'
    BY <2>1, <2>4
  <2> QED BY <1>0, <2>1, <2>3, <2>5, <2>6
<1>3. ASSUME NEW t \in Turns, AdmitGoalMessage(t)
      PROVE  /\ ~corrupt' /\ (sessMu' = Free => state' = folded')
             /\ \A u \in Turns : Path(u)'
  <2>1. /\ turn[t].pc = "admit" /\ turn'[t].pc = "run"
        /\ \A u \in Turns \ {t} : turn'[u] = turn[u]
    BY <1>0, <1>3, OneAppends
  <2>2. /\ ~corrupt /\ RoundOK(state, turn[t].round)
        /\ folded = [state EXCEPT !.rounds = turn[t].round.round]
    BY <2>1 DEF Undisturbed
  <2>3. state.rounds = turn[t].round.round - 1
    BY <1>0, <2>2 DEF RoundOK, Core, TypeOK, FoldState
  <2>4. state' = folded /\ folded' = folded /\ ~corrupt'
    BY <1>3, <2>2, <2>3 DEF AdmitGoalMessage, AdmitRound, RoundOK
  <2>5. \A u \in Turns \ {t} : turn[u].pc \notin {"append", "admit"}
    BY <2>1 DEF FlagsTellTruth, OneHolder, Holder, Inside, InTurn
  <2> QED BY <2>1, <2>4, <2>5
<1>4. ASSUME Kept, sessMu = Free, UNCHANGED <<sessMu, turn>>, \A u \in Turns : turn[u].pc # "append"
      PROVE  /\ ~corrupt' /\ (sessMu' = Free => state' = folded')
             /\ \A u \in Turns : Path(u)'
  <2>1. ~corrupt' /\ state' = folded'
    BY <1>4 DEF Kept, Undisturbed, MirrorsLog
  <2>2. \A u \in Turns : turn[u].pc # "admit"
    BY <1>0, <1>4 DEF AppendShape
  <2> QED BY <1>4, <2>1, <2>2
<1> QED BY <1>1, <1>2, <1>3, <1>4, CommitAlone

LEMMA CancelsCounted ==
  ASSUME HostsNext
  PROVE  IF Cancel THEN cancels' = cancels + 1 ELSE cancels' = cancels
<1>1. CASE \E w \in Workers : WorkerStep(w)
  BY <1>1 DEF WorkerStep, WorkerHead, WorkerTail, DriveIdle, DriveRecycle, DriveReserve,
              DriveLimit, DriveBook, DriveStart, DriveUnbook, DriveFailed, DriveBlock, boundVars,
              Cancel
<1>2. CASE \E t \in Turns : CallTool(t) \/ TurnStep(t)
  BY <1>2 DEF CallTool, TurnStep, GateDriver, GateService, GateDisarm, AppendGoalMessage,
              AdmitGoalMessage, ToolCommits, EndTurn, FinishTurn, OnTurnEndFence,
              OnTurnEndPause, OnTurnEndClear, OnTurnEndRequest, boundVars, Cancel
<1>3. CASE HostStep \/ PendingRequest
  BY <1>3 DEF HostStep, StartHuman, Cancel, Compacted, MainStep, MainReturns, DrainBusy,
              DrainQuiet, Exit, othersVars, PendingRequest, boundVars
<1> QED BY <1>1, <1>2, <1>3 DEF HostsNext, RoundsNext, HostStep

LEMMA LogInvariance == HostsSpec => []LogInv
<1>1. HostsInit => LogInv
  <2> SUFFICES ASSUME ServerInit PROVE LogInv
    BY DEF HostsInit, HeadlessInit, RoundsInit, LogInv, IsServer
  <2>1. /\ \A t \in Turns : turn[t].pc = "off" /\ ~turn[t].cancelled /\ turn[t].end = "none"
        /\ \A w \in Workers : worker[w].pc = "off"
        /\ sessMu = Free /\ ~corrupt /\ state = folded /\ cancels = 0
    BY DEF ServerInit, RoundsInit, Init, Idle, Sleeping
  <2> QED BY <2>1, RoundsAssumption
          DEF LogInv, SingleFlight, WorkerAlone, PastIdle, AppendShape, Undisturbed
<1>2. BothInv /\ EntryInv /\ LogInv /\ [HostsNext]_roundsVars => LogInv'
  <2>1. ASSUME BothInv, EntryInv, LogInv, HostsNext, IsServer PROVE LogInv'
    <3>1. SingleFlight' /\ WorkerAlone' /\ AppendShape'
      BY <2>1, SingleFlightStep, WorkerAloneStep, AppendShapeStep, HostForGood
         DEF BothInv, EntryInv, LogInv
    <3>2. cancels' \in Nat /\ (cancels' = 0 => cancels = 0 /\ ~Cancel)
      BY <2>1, CancelsCounted DEF LogInv
    <3>3. cancels' = 0 => Undisturbed'
      BY <2>1, <3>2, UndisturbedStep DEF EntryInv, LogInv
    <3> QED BY <3>1, <3>2, <3>3 DEF LogInv
  <2>2. ASSUME LogInv, UNCHANGED roundsVars PROVE LogInv'
    BY <2>2 DEF roundsVars, serviceVars, driverVars, hostVars, boundVars, LogInv, IsServer,
                SingleFlight, WorkerAlone, PastIdle, Inside, InTurn, AppendShape, Undisturbed,
                RoundOK, HasGoal
  <2>3. ASSUME LogInv, HostsNext, ~IsServer PROVE LogInv'
    BY <2>3, HostForGood, CancelsCounted DEF LogInv
  <2> QED BY <2>1, <2>2, <2>3
<1> QED BY BothInvariance, EntryInvariance, <1>1, <1>2, PTL DEF HostsSpec

\* Behind the server, with any number of turns, workers, prompts and tool
\* calls, and as long as nobody cancels, a restart would rebuild from the log
\* the goal the process acts on (goal.go:653-655, server/goal.go:50-51).
THEOREM ServerLogIsMirrored == HostsSpec => []ServerLogAgrees
<1>1. LogInv => ServerLogAgrees
  BY DEF LogInv, Undisturbed, ServerLogAgrees, LogAgreesUncancelled, LogAgrees
<1> QED BY LogInvariance, <1>1, PTL

\* Behind either host a recorded request has exactly one worker in flight
\* that has yet to look at it, with any number of slots (driver.go:82-137).
THEOREM RequestsAreKept == HostsSpec => []RequestNeverLost
<1> DEFINE Inv == SingleFlight /\ RequestKept
<1>1. HostsInit => Inv
  BY DEF HostsInit, ServerInit, HeadlessInit, RoundsInit, Sleeping, SingleFlight, RequestKept
<1>2. BothInv /\ Inv /\ [HostsNext]_roundsVars => Inv'
  <2>1. ASSUME BothInv, Inv, HostsNext PROVE Inv'
    BY <2>1, SingleFlightStep DEF BothInv
  <2>2. ASSUME Inv, UNCHANGED roundsVars PROVE Inv'
    BY <2>2 DEF roundsVars, driverVars, SingleFlight, RequestKept
  <2> QED BY <2>1, <2>2
<1>3. Inv => RequestNeverLost
  <2> SUFFICES ASSUME Inv, running
               PROVE  Cardinality({w \in Workers : worker[w].pc # "off"}) = 1
    BY DEF SingleFlight, RequestKept, RequestNeverLost
  <2>1. PICK w \in Workers : worker[w].pc # "off"
    BY DEF RequestKept
  <2>2. {v \in Workers : worker[v].pc # "off"} = {w}
    BY <2>1 DEF SingleFlight
  <2> QED BY <2>2, FS_Singleton
<1> QED BY BothInvariance, <1>1, <1>2, <1>3, PTL DEF HostsSpec

=============================================================================
