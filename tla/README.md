# lidsh: TLA+ specifications

lidsh (Go, `internal/`) runs a coding agent: sessions are append-only event
logs, an agent turns prompts into turns of model calls and tool calls, a goal
keeps the agent going without a human, and two hosts (an HTTP/WebSocket server
and a one-shot "headless" command) put these together. The modules here model
the parts where order, concurrency and failure decide, TLC checks them on small
instances, and TLAPS proves the safety properties of most of them for every value of
their constants: goal service, driver and hosts, agent turns, session log and store,
compaction, streams, approvals and the ralph loop.

## The system

| Component | State | Operations | Talks to |
|---|---|---|---|
| goal service (`goal/goal.go`) | projection of the goal (id, revision, phase, cap, rounds), process-local activation | Create, Edit, Pause, Resume, Complete, Block, Clear, Arm, Disarm, GateCheck, AdmitRound, ReserveNextRound, NewService (fold of the log) | appends `goal/change` to the session log with its mutex held; spawns drive requests |
| goal driver (`goal/driver.go`) | requested, running, attempt | RequestDrive, worker, drive, OnTurnEnd, GateCheck, Stop | asks the host whether the agent is idle and to run a round |
| goal tools (`goal/tools.go`) | none | get_goal, create_goal, update_goal | the goal service, inside a turn |
| session entry (`server/server.go`) | busy, goalTurn, queue of prompts, cancel function | StartHuman, RunRound, finishTurn, Cancel, runCompact, IdleAndLive | agent, driver |
| headless host (`app/headless.go`) | busy | the human turn, RunRound, turnDone, drain | agent, driver |
| agent (`agent/*.go`) | phase (turn, step), signal, inbox | Prompt, GoalRoundPrompt, turn, step, executeToolCalls, Resume | session log, model adapter, tools, compaction |
| session log (`session/session.go`, `types.go`) | log, surface, first live seq | Append, AppendSeed, EndSeed, Restore, FoldSurface, InterruptedTurnClosers | listeners: the file, the clients, the goal mirror |
| session store (`session/store.go`) | log file, lock file | AcquireLease, OpenLogWriter, AppendEvent, LoadLog | processes that open the session |
| stream multiplexer (`server/conn.go`, `streams.go`, `hub.go`) | streams of a connection, subscriptions | open, cancel, close, follow, $events, emit | clients |
| approval waterfall (`server/waterfall.go`, `approver.go`, `sandbox/approval.go`) | questions under way | dispatch, submit, timeout | clients, the tool that asks |
| compaction (`compaction/*.go`) | none of its own: start and end events in the log | CompactIfNeeded, CompactNow, PruneSession | session log, model adapter |
| ralph loop (`ralph/ralph.go`, `server/ralph.go`) | round, last report | Run, spawnFresh | fresh agents, tools |
| model adapter (`llm/openai.go`, `agent/assembler.go`) | scanner, translator, channel of chunks; assembler and stream record of the step | Stream, scanSSE, pump, push, finalize | the provider, the agent's step |
| container and event bus (`container/*.go`) | services, handlers | Activate, On, Emit, Dispatch | modules |
| configuration (`config/*.go`) | entry tree | patches, layers | files, the container |
| tools, sandbox, web client | | I/O | |

What is hard here: the two mutexes of a commit and of an append that calls
listeners; checks made in one critical section and used in the next (gate and
append, idle and start, busy and quiet); goroutines started by one step and
run by the scheduler after many others; the process dying between any two
events of a turn, or within a write; a log that is read back by code other than
the code that wrote it.

## Modules

`GoalService` - the goal service, one operation at a time. `state` is the mirror
(`Service.state`), `folded` what `Fold` makes of the events so far, `corrupt`
that `Fold` rejects them, `act` the activation. `commitLocked` appends the event
before it applies it, as the code does. The clock is an input of every
operation, because `time.Now()` may step back. `NewService` is a restart or a
second mount of the session. An operation the code refuses changes nothing and
is not an action.

`GoalContract` - what the service promises, without revisions, events and
clocks. `GoalService` refines it (`KeepsContract`).

`GoalRounds` - the same operations, now split into critical sections and
interleaved: the driver's worker goroutines, the spawned drive requests, the
turn goroutines from the gate through the append and its listener to
`finishTurn` and `OnTurnEnd`. `svcMu` and `sessMu` model the two mutexes only
where one is held while the other is wanted (a commit; the append of a goal
message). Every other section takes and releases its mutex within one step.

`ServerRounds`, `HeadlessRounds` - `GoalRounds` behind each host. `Hosts` puts the
two side by side: the first state decides which one the process is, and `main`,
the place of the main goroutine, keeps it ("serve" in the server). Properties
named `Server...` speak of the server only, because the first human turn of the
headless host does not claim the agent and overlaps goal rounds. `MCServerRounds`
and `MCHosts` add the block codes and the symmetry of the slots. `GoalProofs` holds
the theorems about `GoalService` and about `Hosts`.

`AgentTurn` - one agent and its log: turns, steps, the outcomes of a model
stream, tool calls one after another, a cancel at any time, the death of the
process, and `Resume` with the closers of an interrupted turn. An action that
appends several events in a row keeps in `durable` how many were in the log
before it, and `Crash` cuts anywhere after that, so a crash falls between any
two events. A tool error takes the process down, as the code does. The scans of a
log (`Open`, `turnBoundaryFrom`) are recursive functions, so that `AgentTurnProofs`
can reason about them. `RepairIsExact` does not use the repair's scan: it looks for
the event that ends each turn, step and call.

`SessionLog` - Append with its surface operations against FoldSurface, and the
seed boundary of a fork (theorems in `SessionLogProofs`).

`SessionStore` - the session directory: the lease, whole and torn frames, crash,
load, reopening at the safe offset, and what can go wrong around it
(theorems in `SessionStoreProofs`). The history
variable `faults` names what happened, and a promise that does not survive a
fault says so in its statement.

`Compaction` - `Engine` with `Engine.mu`, the turn that enters it before a step
or after a context overflow, and a /compact command, over the log and surface
of `SessionLog` (instantiated as `Sess`). `engine.stage` is the place of the
holder in `compactRegion`: every append, the model call and the second look at
the surface are steps of their own, so that the other goroutines append in
between. What a node costs is left open, hence any retained tail is possible.
`Resume` crashes the process and takes the repaired log up again.
`CompactionProofs` builds on `SessionLogProofs`, instantiated as `LP`.

`Streams` - one WebSocket connection: the reader, the heartbeat, a goroutine per
stream and the goroutine that appends to the session and pushes to its
followers. Only `writeMu` is visible, because it is held while a write blocks on
a browser that does not read. `shut` are the closed `active` channels, so that
closing one again is the panic it is in Go (`callCancel`). `history` of a stream
is the cursor it took at the lookup, then the length of the log it read. Theorems
in `StreamsProofs`.

`Approvals` - the question whether a bash call may run in a wider mode: escalation
check, waterfall, answers (`posts` are `$events/result` requests that have found
the waterfall and not yet its mutex), timeout and withdrawal, decision. Any client
may answer any question at any time, because `submitResult` looks at neither
`clientID` nor `delivered`. A browser may stop reading (`deaf`); the call that
writes to it (`writing`) waits, and the timer starts when all writes are done.
`answers` is a history of the answers each waterfall adopted. Theorems in `ToolProofs`.

`ModelStream` - one request to the provider: `scanSSE` reading the wire and offering
events on an unbuffered channel, the pump with its translator, the bounded
channel of chunks, and the step that receives them into an assembler and into
the stream record a session keeps. A piece of text is the number of the wire
chunk it came with, so a property can say which pieces an answer is made of.
A broken line, a cancel and a pump that waits for a reader may come at any place.
The idle timer runs while the scanner waits for a line; a line that brings no event
(`ScanHears`: a comment, a field the adapter does not need) starts it anew. A wire
chunk has one choice, because the request (`wireRequest`, openai.go:147-161) has no
`n`. A delta keeps the index the wire gave its call. Theorems in `ModelStreamProofs`.

`Ralph` - one call of the ralph tool: the loop over fresh children, what the turn
of a child does as far as the loop can see it (asks again, records a report,
ends, takes the process down), the checks of a report, the signal of the
caller. `told` and `said` are histories of the prompts and of the reports.
Theorems in `ToolProofs`.

`EntryTree` - patches on the tree of configuration rows. A batch is one call of
`ApplyEntryPatches`, which copies the tree and builds an index of it once;
`NextBatch` is the next call. A value of the wrong type for `name` or `group` is a
warning and leaves the field alone (`setField`); of the rows of a group, the first
that does not decode and all behind it are left out without a warning (`childEntries`).

`Activation` - `App.Activate`: a list of entries tried in passes until none waits or
none got further. Services are sets; whether a factory or a config fails is open.
`jobs` is a history of what was to be activated. The modules registered today
(app.go:31-48) inject nothing, so no row of the shipped program has to wait:
`ActivatesWhatItCan` is about registries with injections, such as those of the container
tests. Theorems in `ToolProofs`.

`Container` - both, one after the other: the tree is put together and flattened to the
jobs of the activation. `MCProcess` instantiates `Container` and `Ralph` for one run;
they share nothing, and a variable of the first state says which of them moves.

## Runs

| Run | What it asks | Bounds |
|---|---|---|
| MCGoalService | serial goal service and its contract | caps absent, 1, 2; clock 0, 1; 6 events: two goals, edits below the spent rounds, restarts |
| Hosts | who holds the agent, whether a drive request keeps its one worker, whether log and mirror agree behind the server, and the budget behind either host | 2 prompts, 2 tools, 1 cancel, 1 /compact, caps absent, 2, 2 turn and 2 worker slots |
| ServerLiveness | waiting prompts and an armed goal make progress | as above with one tool, no cancel, one worker slot |
| AgentTurns | what has its end in the log, and once, through cancels, crashes and resumes | 2 turns of 2 steps, 3 calls, 2 crashes |
| SessionSurface | surface kept = surface folded | every log of 5 events |
| StoreCrashes | what survives crashes, failed writes, lost leases, re-creation, newer builds | 2 processes, 4 events, 2 crashes |
| Compactions | what a compaction hides, and when | 15 events, 2 turns of 2 steps, 2 calls, 1 command, 1 crash |
| Connection | followers miss nothing, closed connections leave nothing, appends return | 2 stream ids, 1 event |
| Approvals | what an approval takes, and when a question ends | 2 browsers, 2 connections and 2 answers in all, 1 call |
| ModelStreams | an answer is what was sent, its end comes last, its record replays it, and when a request ends | 3 wire chunks of 6 kinds, a channel of one chunk |
| Process | patches reach the tree, activation comes as far as it can; a ralph call hands on and returns what its children said, and ends | 6 of 11 patches on 10 rows, 3 modules; ceiling of 3 rounds, 7 reports |
| ServerLockCycle | finding: commit and append want each other's mutex | 1 cancel |

Deadlock is not checked: every bound ends the behaviours it caps, and a server
without input may stand still.

Bounds. Two turn slots suffice because a third goroutine could only be one that
finishes (after `finishTurn`) while two others run, and a goroutine that
finishes keeps its slot until its last step; two workers so that a second one
could be started by mistake (in ServerLiveness one, because the state space of
Hosts with two already contains every start of a worker). A log of six
goal events holds a goal, its edit, two rounds, completion and a successor.
`MaxEvents = 20` in the composed runs is never reached. Fifteen events of
Compactions hold a turn with a call, a compaction of it, and a command or a
second turn beside another compaction, or a crash inside the first one. Two
stream ids let streams follow and cancel each other; with one event the race of
an append against every step of a follow is there, and a second event would
only repeat it. Two browsers are enough for an answer of the wrong one, and two
answers for one client that speaks for both. Three
wire chunks are enough for two calls whose pieces alternate, for a name that
comes late or twice, and for usage on either side of the finish reason; a
channel of one chunk blocks the pump where the code's 64 would later. Six
patches hold a group with a nested group, rows added to both in one batch, a
group replaced and one more patch; three rounds are a first, a middle and a
last one.

Fairness. ServerLiveness assumes weak fairness of each goroutine's next step
(the Go scheduler runs what can run, and a model call ends); prompts, tool calls
and commands need not come. AgentTurns assumes weak fairness of the agent's
steps, for CancelStops alone. Connection assumes it of the reader's own steps,
the heartbeat, each stream and the push under way; the browser may stay silent or
stalled for ever, and `AppendsReturn` excepts exactly that. Approvals assumes of the
goroutine of a call that it goes on when it can, strongly, so that a write gets through
to a browser that reads again and again; nothing is assumed of the browsers, and
`CallsEnd` excepts the call that from some time on is writing to one that does not read.
ModelStreams assumes weak fairness of the pump, of the step, and of the scanner with its
idle timer, not of the provider: `StreamEnds` excepts a provider that keeps sending
lines, as long as nobody cancels. Process assumes that the loop goes on, and strongly
that a child asked for a model call again and again ends its turn one day: the
code bounds neither the steps of a child nor what its model asks for, and
without it a single child keeps the loop for ever.

## What the runs show

- One operation at a time the goal service is right: log and mirror agree at
  any clock reading, budget and revisions are kept, `KeepsContract` holds.
- Composed (Hosts, ServerLiveness), the agent has one holder behind the server, queued prompts pass
  goal rounds, a recorded drive request has exactly one worker that has yet to look at
  it, and an armed goal goes on. While nobody cancels, log and mirror agree.
- With a cancel, `OnTurnEnd` runs after `finishTurn` has let the next turn in.
  Its pause may wait for Session.mu with Service.mu held, while the append's
  listener waits for Service.mu with Session.mu held (ServerLockCycle).
- Behind the headless host the first human turn does not claim the agent, and
  rounds overlap with it. The budget still holds.
- After the repair of an interrupted turn every turn has an end, and every step and
  call too, with two exceptions: a step whose turn/end is written inside it and is the
  last the process wrote (`EveryStepEnds` below), and a call of a turn that ended of its
  own before the call was dispatched. The repair ends no turn and no step a second time;
  calls already answered do get a second result (`OneResultPerCall` below). Its "not
  started" is always true. Turn numbers grow; a turn whose
  stream failed or was aborted is ended twice, and each of these ends makes a
  resumed agent leave out one more number, as TurnNumbersIncrease says.
- On disk: with the lease kept and every write successful nothing acknowledged
  is lost. session/create over an existing log loses it, a failed write makes
  what follows unreadable, a collected lease admits a second writer; whatever
  happens, what is loaded is in order and never twice.
- A compaction hides only what its summary covers although other goroutines
  append meanwhile, keeps calls and results together, and never runs between
  the request of a step and its last result: the turn goes through `Engine.mu`
  before every step.
- A follower misses no event, because it subscribes before it reads the log; it
  may see one twice or before the snapshot. A connection whose handler returns
  leaves nothing behind. When a stream of it was cancelled, the handler does not
  return but panics, see `GoneIsForgotten` below.
- A call runs wider than its standing mode only when the policy lets the user be asked
  and the first verdict on its question said so, whoever gave it: nothing checks that it
  came from a browser that was asked (`AnswersFromAsked` below). With nobody to answer
  the timeout ends the call, unless a browser that does not read keeps the timer from
  starting (`LostClientsCannotHang` below).
- An answer is the pieces the provider sent, each in its block and in order,
  however its calls are interleaved; a broken or cancelled stream leaves beginnings
  of the calls and stretches of the text, in order. The finish comes once and last. What
  the session records of a stream expands to the same deltas up to the id and the wire
  index of their calls. A request ends, also with a silent provider, because the idle
  timer breaks the read; only a provider that keeps sending lines, comments for instance,
  holds it until somebody cancels.
- A child of ralph is told the report of the round before it and nothing else;
  the result is the verdict of the last child with the right number of rounds;
  a cancel lets at most one more child start, and the call ends. A report the
  checks refuse, a failed round and a cancel are all errors of the tool, and an
  error of a tool ends the process (`ToolErrorsAreResults` below).
- Patches reach the rows the same batch has inserted, and only rows of the
  tree, unless the batch has replaced the rows of a group: then later patches
  change or extend rows that are in no tree any more, without the warning a
  miss gets. The activation comes as far as any order of the rows would, once
  per row, and reports exactly the rest.

Further disagreements. These are stated in the modules and refuted by TLC when
checked in place of the properties of the run named; each is one definition:

| Definition | Run | What the repository says and what happens |
|---|---|---|
| `LogAgrees` | Hosts | goal.go:653-655: fold and mirror do not diverge. A pause between gate and append (agent.go:184-196), by the late OnTurnEnd of a cancelled turn, leaves a round Fold rejects: the session cannot be mounted again |
| `ExitsBetweenRounds` | Hosts | headless.go:163: exit when drained. Overlapping turns clear busy and attempt for each other, and drain passes while a round runs |
| `OneResultPerCall` | AgentTurns | session.go:230: a result for each unsettled call. The repair looks for a "tool-result" block (session.go:298), the loop writes "text" (messages.go:32-40): finished calls get a second, failed result |
| `EveryStepEnds` | AgentTurns | session.go:228-231: a step that is still open gets its step/end. A failed or aborted stream writes turn/end inside the step (agent.go:291, 319); when the process dies right after it the turn counts as ended, and its step stays open |
| `ToolErrorsAreResults` | AgentTurns | tools_exec.go:65: an error becomes a failed result. runTool returns nil, nil (tools_exec.go:77) and the caller reads the nil result (tools_exec.go:35): the process goes down |
| `SystemNeverHidden` | Compactions | engine.go:16: the system message is never compacted. /compact as the first input puts its notice before it, and a later compaction hides it |
| `RefusedOnlyWhenBusy` | Compactions | server.go:175: busy means a turn or a compaction is running. A start orphaned by a crash refuses every later compaction |
| `SummaryNextToReplace` | Compactions | engine.go:11: summary and replace are adjacent. Another goroutine may append in between |
| `GoneIsForgotten` | Connection | streams.go:29: the events mark is cleared by defer on exit. cancelStream (conn.go:144-151) leaves the cancel function it called registered; closeAll calls it again, the close of a closed channel panics, and the subscriptions and marks not yet reached stay |
| `StalledIsClosed` | Connection | conn.go:13: no pong, disconnect. The heartbeat's close waits for writeMu, held by the write that is blocked |
| `SnapshotFirst` | Connection | ws-protocol.md:206: the snapshot comes first. A push between subscribe and snapshot precedes it |
| `AnswersFromAsked` | Approvals | waterfall.go:8, 123, rpc.go:300, ws-protocol.md:200: the result of an unknown clientId is dropped. `submitResult` (waterfall.go:124) never looks at its clientID: whoever names the eventId decides |
| `NextIsUnanimous` | Approvals | ws-protocol.md:197, waterfall.go:139: all clients it was delivered to said next. Answers are only counted: one client saying it twice counts for two |
| `LostClientsCannotHang` | Approvals | waterfall.go:99: the wait has a timeout so that a lost client cannot hang it. The timer starts after the writes (waterfall.go:90-97), and a write (conn.go:178) has no deadline |
| `CancelledIsNotGranted` | Approvals | approval.go:52: a cancelled call is not granted. The wait ignores the context; only the start of the process looks at it |
| `EndsWithFinish` | ModelStreams | llm/types.go:277: the last chunk of a stream is its finish. After a cancel the pump may take the other branch of its select (openai.go:494) and drop it |
| `KeptInOrder` | ModelStreams | assembler.go:146: open blocks follow in the order of their indexes. They are taken from a map (assembler.go:150) |
| `ReplayIsLossless` | ModelStreams | session/types.go:255: a lossless record. A run keeps one id for all its deltas, also for those sent before the id was known (session/types.go:340) |
| `ReplayKeepsWireIndex` | ModelStreams | session/types.go:340: expands without loss. The index the wire gave a call (openai.go:716) is in no record; every replayed delta has index 0 |
| `ReaderEnds` | ModelStreams | scanSSE ends with its stream. A pump that gave up reads no more, and the scanner waits on its unbuffered channel for ever |
| `CancelReachesChild` | Process | server/ralph.go:108: the loop is cancelled with the signal of the turn. Prompt replaces the child's signal (agent.go:152-154); a running child cannot be cancelled |
| `NoSilentOverwrite` | Process | container.go:242-243: a duplicate service fails instead of being overwritten. A row that provides a service under its own id overwrites it, so the order of the rows decides, against container.go:3 |

Stated in the modules, true in the runs named when added to them, and left out
of the lists because other properties say more: the type invariants,
`ShowsEventsOnce` (SessionSurface),
`SystemHeadStays` and `ActiveIsInEngine` (Compactions). These are proved below (the
types of all modules but `EntryTree`).

Two streams that follow one session on one connection share one entry of
`follows`: the second deafens the first, and the end of the first, even when it
was cancelled before the second was opened, unsubscribes both. `NothingMissed`
is therefore about a session followed once.

## Proofs

Every theorem holds for all values of the constants that satisfy the assumption
named in the module; none of the bounds in a .cfg enters a proof. Each proof module
defines an inductive invariant (`IInv`, or one per layer under names of their own), shows
that Init gives it and each action keeps it, and draws the properties from it. What
follows says why the property alone is not inductive and what the invariant adds.

| Module | Properties proved | Assumption on the constants |
|---|---|---|
| `GoalProofs` | `MirrorsLog`, `RevisionsAdvance`, `KeepsContract`, `ArmedOnlyActive`, `ReasonOnlyBlocked`, `CompleteIsFinal`; behind the hosts `RoundsWithinBudget`, `ServerTurnsApart`, `HumanFirst`, `ServerLogAgrees`, `RequestNeverLost` | caps and clock are numbers, the code's block codes exist, `Free` is no goroutine |
| `AgentTurnProofs` | of `RepairIsExact` the parts `EverythingEnds` and `RepairEndsOpenTurns`; `TurnNumbersIncrease`, `NotStartedIsTrue`, `ThisTurnAnswered` | the bounds are numbers |
| `SessionLogProofs` | `SurfaceIsFold`, `ShowsEventsOnce`, `HiddenStaysHidden` | the bound is a number |
| `SessionStoreProofs` | `OneWriter`, `NothingAckedIsLost`, `FileIsReadable`, `LoadedInOrder` | `Nobody` is no process |
| `CompactionProofs` | `HiddenWasSummarized`, `PairsStayWhole`, `StepsKeepTheirContext`, `ActiveIsInEngine`, `SystemHeadStays` | the bounds are numbers |
| `StreamsProofs` | `NothingMissed` | no stream id is the name of another goroutine |
| `ToolProofs` | of `Approvals`: `RunsAsApproved`, `DialogsCleared` | finitely many browsers |
| | of `Ralph`: `HandoffIsFresh`, `ResultIsWhatWasSaid`, `CancelStartsNoRound` | no report is the absence of one |
| | of `Activation`: `ActivatesWhatItCan` | none; of the list of jobs, that none is there twice |
| `ModelStreamProofs` | `AnswerIsWhole`, `FinishComesLast`, `ReplayKeepsDeltas` | a wire chunk has the fields read of it, indexes of calls are not negative, the channel holds a chunk at least |

Of all these modules the type invariant is proved as well.

**Goal service** (`GoalProofs`, first part). Whether `Fold` accepts the next event
depends on the shape of the state, so `MirrorsLog` needs `Core`: a goal has a
positive id and cap, its times are ordered, phase and reason agree, and rounds are
only spent by a goal that exists. One lemma per operation shows that the change it
writes satisfies `ChangeOK`, so log and mirror take the same step. The action
properties follow from the same invariant, and the refinement maps each operation to
its contract action (a round without effect to a stutter).

**Driver and hosts** (second part, about `HostsSpec`). The lemmas above are used again:
every step of the composition is one operation on the service or leaves it alone
(`Orderly`), except that a round is let through by the gate and charged later, in
another critical section. `BothInv` therefore adds `GrantsHold`: a round past the
gate names a goal that has been there, and if that goal still has the revision
the gate saw, it is active and has room for the round; any change in between takes a
new revision, so AdmitRound refuses what the gate can no longer vouch for. That is
why `RoundsWithinBudget` survives the interleaving, behind either host. Behind the server
`EntryInv` says what `busy` and `goalTurn` stand for: exactly one goroutine is inside
a turn or on its way to the prompt it took from the queue. `HumanFirst` and
`ServerTurnsApart` rest on it. `LogInv` adds that there is one worker at most, that
a worker past the idle check shares the agent with no goal turn (`WorkerAlone`), and
that, while nobody cancels, the round between gate and append is still the one Fold
expects (`Undisturbed`). It speaks of `cancels = 0` because the finding about a
cancelled turn's pause is the one thing that breaks it.

**Agent turns.** A crash cuts the log anywhere after `durable`, so an invariant of the
log itself is not enough: `SafeLog` says that every prefix a crash may leave is
`Sound`, and `Sound` is what the repair and the numbering need of a log (what the scan
for open turns finds is well formed and has the turn's calls; turn/starts grow in
number and are counted by `turnBoundaryFrom`; an interrupted end is the only one of
its turn; a call reported as not started was not dispatched). One lemma
(`SoundAppend`) shows that an event which `LogFits` keeps a log sound, and each
action appends such events one after the other; the closers of the repair are
appended one by one in the same way. `TurnIsOpen` and `CountsAhead` tie the agent's
place to what the scan finds, `CallsAreNew` the calls still to run to the verdicts
already in the log, and `TurnAnswered` the calls of the turn to their results.

That nothing is left without its end is a second layer (`HaveEnds`), judged by the events
alone: whatever has no end in the log is what the scan has found (`Closed`), at every
prefix a crash may leave. `EndFits` says which events keep that (`ClosedAppend`): an end names
the turn and step that are open, a turn/end that leaves a step behind says error or abort,
and one that says interrupted leaves no call of its turn behind. For the repair itself `Mending` holds after each of its closers: what
is still without an end belongs to the one turn it is closing, and to the calls it has not
yet come to. Of `NothingEndsTwice` only `RepairEndsOpenTurns` is proved
(`RepairEndsOnce`); that no step has two ends and no call two results of the repair is left
to the run.

**Session log.** `SurfaceIsFold` compares an incremental surface with a recursion over
the log. `FoldSurface` of a log with one more event is `FoldEvent` of the shorter fold,
which is proved for every log from the recursion by the least position at
which two folds could differ (`LeastNatural`; the induction theorems of the library
take an operator and cannot be used). `Cover` then needs that no event is shown twice
to find the same range in both.

**Session store.** `OneWriter` says nothing of the lock, hence `HoldsLease`. That nothing
acknowledged is lost is about what a load returns, a recursion over whole and torn
frames: while the promises hold, what the single writer has in memory equals what the
whole file loads, and no frame of it is torn (`Readable`), and between two processes
the file alone has what was acknowledged (`FileHasAcked`). `FileOrdered` and
`MemOrdered` give the order whatever fails. Each part names the faults it survives in
its premise, as the properties do.

**Compaction.** Between selecting a region and replacing it the engine appends, calls the
model and looks again, while other goroutines append. `RegionLies` says that the region
still lies on the surface where it was: only the holder of `Engine.mu` replaces.
`SummaryFirst` says that the summary is in the log before the replace, which makes
`HiddenWasSummarized` inductive. `StepsKeepTheirContext` needs `Holders` and
`CommandApart`: a /compact command that got past its look at the log saw no open turn
(`TurnIsOpen`), and a turn that starts later waits for the mutex before its first step.
`HeadApart` keeps a system message at the head out of every region. Which turn is
open is a recursion over the log, again unfolded event by event.

`PairsStayWhole` follows from `PairsTight`: a call and its first result are both gone, or
both on the surface with no other assistant message between them. That needs to know
how pairs come about: calls have numbers of their own (`CallsNumbered`), one that still
runs was made by the last assistant message (`RunningAreLast`), and so was one
that a turn gave up at its end or the closers of a repair answer: each earlier call of
the open turn has its result (`OpenAnswered`, `CallsInTurn`). It also
needs `RegionWhole`: the region being compacted has both or neither of a pair. When the
region is chosen, a cut between the two would leave a call open there: the balance of
calls and results, a recursion over the surface, is zero at the cut and can only fall
until the next assistant message, so the result would bring it below zero, which is
what the engine refuses as corrupt (`BalanceFalls`, `RangeIsWhole`). Until the region is
replaced no call is made and none answered, because the engine works for the turn that
waits for it or for a command that saw no open turn (`NoCallsBeside`).

**Streams.** `Subscription` says that the one follow stream of the session is subscribed
exactly from its subscribe to its unsubscribe and that whoever pushes meanwhile
addresses it; `Complete` that the snapshot it has read and the pushes it got leave out
nothing but the event being pushed. `OneStream` and `ClosedIsGone` are about ids and the
end of the connection.

**Approvals.** A verdict travels from a browser's post over the waterfall and its channel
to the decision. `Channel` and `Question` follow it: an unsettled waterfall has adopted
nothing but "next"; what is in the channel has been adopted; while a call waits it has a
question to ask. A question on a screen is on the list of those to be told when it is
withdrawn (`OnScreen`, `Question`), which gives `DialogsCleared`. None of this depends on
who answers.

**Ralph.** `IInv` ties the histories to the place of the loop (`InRound`: how many children
were told and have handed in, and that the report kept for the next round is the last
one handed in), says that every round before this one asked to go on (`Histories`), that a
child which recorded a report has it in the history (`HandedIn`), and that no child is
about to start after a cancel unless it was before (`Cancels`).

**Activation.** `CanActivate` is the least set of jobs that lets in each job whose services
it provides, and says nothing of order or passes. `NoneTooMany`, that what is activated
lies in it, is kept because more jobs provide more services. That nothing is left out
needs `Stuck`: while a pass has activated nothing, every job it has put aside wants a
service that is still not there. At the end of such a pass the activated jobs are
therefore such a set themselves, and the least one lies within. `OnOneList` says that every
job is still to be tried, waiting or activated, and only one of these.

**Model stream.** `FinishIsLast` says where a finish may be: nowhere before the pump closes,
then at the end of what is still to be sent, on the channel or received, and nowhere
at all only after a cancel. It rests on what the translator makes: `push` never makes a
finish, `finalize` one at the end. `ReplayKeepsDeltas` compares recursions over two
different sequences, the chunks received and the expanded record. `AccumulateKeeps`
shows that one chunk more does the same to both: it begins an item, or goes on in the
last run, and then every delta of that run is replayed with the run's id as it is now and
without its wire index, which the assembler does not read.
That this makes no difference to the assembler is `RunAssembled` with `RunsCompose`:
assembling a run piece by piece appends its pieces to the block and gives it the first id
that is not empty, wherever in the run that came. The recursions over sequences
(`FlattenSeq`, `Assembled`, `WriteCalls`, `Without`) are unfolded by an induction derived
from the well-foundedness of the naturals.

`AnswerIsWhole` is about two machines, one behind the other: the translator cuts what
the wire says into blocks and makes chunks of them, the assembler makes blocks of
those chunks, and between the two lie the channel and whatever a cancel drops. Each
part of `Answers` speaks of one stretch of that way, and of any number of pieces on it.

- `TranslatorIsAhead`: while the pump takes events, its blocks say exactly what the
  wire chunks before the offered one said (`Written`: each call has one block with its
  pieces and its first id; text and reasoning are there in their order; blocks are in
  the order they began), and the chunks it ever made (`Made`: received, on the
  channel or to be sent) begin and fill those blocks (`Carries`). `PushSays` shows it for
  one wire chunk, `WriteSays` for one piece of it.
- `ChunksArePart`: what a cancel leaves of the chunks still begins each block once, fills
  it with the pieces it had first and ends blocks in their order (`Partly`). That is what
  cutting a sequence of chunks anywhere keeps (`PartlyShrinks`).
- `StepIsBehind`: the assembler holds the blocks whose ends it received and, as far as
  their pieces go, those begun and not ended (`Gathered`, kept by `AssembleGathers`).
- `BlocksBegan`: the blocks are a beginning of what has been sent, also after the
  translator stopped, while the provider goes on.
- `FinishIsHonest`: a finish that is neither an error nor a cancel was made when the
  provider's answer had ended, when the blocks were whole and all their ends sent.

From these, whatever order the assembler's map gives the open blocks in, what is kept
is a beginning (`KeptBegins`), and behind a finish nothing is open and what is kept are the
translator's blocks (`KeptIsAll`). `FinishIsLast` says that a stream without a finish was
cancelled, and `Concluded` that an answer, once made, is not touched again.

Model-checked only:

- every liveness property (`QueuedPromptRuns`, `GoalContinues`,
  `CancelStops`, `AppendsReturn` and the ends of questions, requests and the loop): the
  prover knows nothing of fairness and ENABLED;
- `PatchesReachTheTree`: `EntryTree` walks the tree with a RECURSIVE operator, and what such
  a walk returns for every tree is an induction over data. For the same reason the proof of
  `ActivatesWhatItCan` starts from the list of jobs; that the flattened tree has none
  twice is the first part of that property, which the run checks on the composition;
- `ServerLockCycle`, a counterexample.

## Not modelled

Byte layout of zstd frames, message texts, prompts and guidance, token counts,
views sent to clients (their goroutines may deliver them out of order; each
carries its revision), hub.broadcast, Driver.Stop (called on exit), power loss
(the log is never synced), the pruner (it replaces the text of results the loop
does not write), file and process tools, the operating-system side of the
command sandbox, the body of a provider request, the event bus (nothing in the
program subscribes to it), profiles, expressions and the dump of the
configuration, the web client. `Session.Log` and
`Session.Len` read the log without the mutex; Streams takes their result to be
the log before or after a concurrent append. One /compact runs at a time.

## Plan

1. Goal service, driver, hosts, agent, log, store - done.
2. Compaction, one connection with its streams, approvals - done.
3. The request to the provider; the ralph loop; entry patches and activation - done.
4. Proofs: goal service, driver and hosts, agent turns, session log and store,
   compaction, streams, approvals, ralph loop, a model stream - done. Left to TLC are the
   liveness properties and `PatchesReachTheTree`.
5. Open: two connections that follow one session, the pruner once the loop
   writes results it can cut, search and edit tools against the file system.
