------------------------------ MODULE SessionLog ------------------------------
(***************************************************************************)
(* session.Session (internal/session/session.go, types.go): the append-    *)
(* only event log of one session and the surface, the list of events whose *)
(* messages the model sees.  Append keeps the surface up to date event by  *)
(* event; FoldSurface computes it from a loaded log by code of its own.    *)
(*                                                                         *)
(* Events are numbered from 0 (Event.Seq), sequences here from 1.          *)
(***************************************************************************)
EXTENDS Integers, Sequences

CONSTANT MaxEvents   (* bound: events in the log *)

ASSUME LogAssumption == MaxEvents \in Nat

VARIABLES
  log,           (* Session.log                                             *)
  surface,       (* Session.surface: the seqs of its nodes, in order        *)
  firstLiveSeq   (* where the seed events of a forked session end           *)

vars == <<log, surface, firstLiveSeq>>

\* What an event may carry as its surfaceOp.  "append" also stands for every
\* other value that is no replace; -1 for an endpoint that is absent.
NoOp == [op |-> "none", start |-> -1, end |-> -1]
AppendOp == [op |-> "append", start |-> -1, end |-> -1]
ReplaceOp(s, e) == [op |-> "replace", start |-> s, end |-> e]

\* "message" and "empty" are surface types, the latter a system or assistant
\* message without content; "log" and "end-seed" are log-only types.
IsSurfaceType(kind) == kind \in {"message", "empty"}

\* DeriveEventMessage: is there a message to show?
HasMessage(e) == e.kind = "message"

-----------------------------------------------------------------------------
(* Append.                                                                 *)

OnSurface(nodes, seq) == \E i \in DOMAIN nodes : nodes[i] = seq

positionOf(nodes, seq) ==
  CHOOSE i \in DOMAIN nodes : nodes[i] = seq /\ \A j \in 1..(i - 1) : nodes[j] # seq

Lower(a, b) == IF a <= b THEN a ELSE b
Upper(a, b) == IF a <= b THEN b ELSE a

\* Mutant: the two sides of the range change places.
CoverTurned(nodes, p, q, seq) ==
  SubSeq(nodes, Upper(p, q) + 1, Len(nodes)) \o <<seq>> \o SubSeq(nodes, 1, Lower(p, q) - 1)

\* The nodes between two positions, in either order, give way to one node.
Cover(nodes, p, q, seq) ==
  SubSeq(nodes, 1, Lower(p, q) - 1) \o <<seq>> \o SubSeq(nodes, Upper(p, q) + 1, Len(nodes))

validateNextSurface(nodes, e) ==
  e.op.op = "replace" => OnSurface(nodes, e.op.start) /\ OnSurface(nodes, e.op.end)

\* Mutant: messages without content are shown.
applySurfaceEmpty(nodes, e, seq) ==
  IF ~IsSurfaceType(e.kind) THEN nodes
  ELSE IF e.op.op = "replace"
       THEN Cover(nodes, positionOf(nodes, e.op.start), positionOf(nodes, e.op.end), seq)
       ELSE Append(nodes, seq)

applySurface(nodes, e, seq) ==
  IF ~HasMessage(e) THEN nodes
  ELSE IF e.op.op = "replace"
       THEN Cover(nodes, positionOf(nodes, e.op.start), positionOf(nodes, e.op.end), seq)
       ELSE Append(nodes, seq)

\* Append refuses an event, and leaves no trace of it, when its surfaceOp
\* does not go with its type or names a node that is not on the surface.
Accepts(e) ==
  IF IsSurfaceType(e.kind)
  THEN e.op # NoOp /\ validateNextSurface(surface, e)
  ELSE e.op = NoOp

AppendEvent(e) ==
  /\ Len(log) < MaxEvents
  /\ Accepts(e)
  /\ log' = Append(log, e)
  /\ surface' = applySurface(surface, e, Len(log))

-----------------------------------------------------------------------------
(* FoldSurface and Restore.                                                *)

Unfoldable == <<-1>>

\* One step of the fold; a replace whose endpoints are not on the surface, or
\* a surface event without an operation, stops the load.
FoldEvent(nodes, e, seq) ==
  IF nodes = Unfoldable \/ ~IsSurfaceType(e.kind) THEN nodes
  ELSE IF e.op = NoOp THEN Unfoldable
  ELSE IF ~HasMessage(e) THEN nodes
  ELSE IF e.op.op # "replace" THEN Append(nodes, seq)
  ELSE IF OnSurface(nodes, e.op.start) /\ OnSurface(nodes, e.op.end)
       THEN Cover(nodes, positionOf(nodes, e.op.start), positionOf(nodes, e.op.end), seq)
       ELSE Unfoldable

FoldSurface(events) ==
  LET fold[n \in 0..Len(events)] ==
        IF n = 0 THEN <<>> ELSE FoldEvent(fold[n - 1], events[n], n - 1)
  IN  fold[Len(events)]

RestoredLive(events) ==
  LET seeds == {i \in DOMAIN events : events[i].kind = "end-seed"}
  IN  IF seeds = {} THEN 0 ELSE (CHOOSE i \in seeds : \A j \in seeds : j <= i) - 1

-----------------------------------------------------------------------------
Endpoints == -1..(MaxEvents - 1)

SurfaceOps == {NoOp, AppendOp} \cup {ReplaceOp(s, e) : s, e \in Endpoints}
Events == [kind : {"message", "empty", "log"}, op : SurfaceOps]
EndSeedEvent == [kind |-> "end-seed", op |-> NoOp]

Seeding == \A i \in DOMAIN log : log[i].kind # "end-seed"

Init == log = <<>> /\ surface = <<>> /\ firstLiveSeq = 0

\* AppendSeed: the events a fork inherits, before anything else.
AppendSeed(e) ==
  /\ Seeding /\ firstLiveSeq = Len(log)
  /\ AppendEvent(e)
  /\ firstLiveSeq' = Len(log')

EndSeed ==
  /\ Seeding /\ firstLiveSeq = Len(log)
  /\ AppendEvent(EndSeedEvent)
  /\ UNCHANGED firstLiveSeq

AppendLive(e) == AppendEvent(e) /\ UNCHANGED firstLiveSeq

Next ==
  \/ \E e \in Events : AppendSeed(e) \/ AppendLive(e)
  \/ EndSeed

Spec == Init /\ [][Next]_vars

-----------------------------------------------------------------------------
(* Properties.                                                             *)

TypeOK ==
  /\ log \in Seq(Events \cup {EndSeedEvent})
  /\ surface \in Seq(Nat)
  /\ firstLiveSeq \in Nat

\* A session read back from its log shows the model the same messages: the
\* fold accepts every log Append lets through and ends at the surface Append
\* kept (session.go:198-214, types.go:376-427).
SurfaceIsFold == FoldSurface(log) = surface

\* The surface shows each event once, only events with a message of their own.
ShowsEventsOnce ==
  /\ \A i \in DOMAIN surface :
       surface[i] < Len(log) /\ HasMessage(log[surface[i] + 1])
  /\ \A i, j \in DOMAIN surface : surface[i] = surface[j] => i = j

\* What a replace has hidden never comes back, and the nodes that stay keep
\* their order (types.go:404-419).
Shown == {surface[i] : i \in DOMAIN surface}
HiddenStaysHidden ==
  [][ /\ \A s \in 0..(Len(log) - 1) : s \in Shown' => s \in Shown
      /\ \A i, j \in DOMAIN surface :
           i < j /\ surface[i] \in Shown' /\ surface[j] \in Shown' =>
             positionOf(surface', surface[i]) < positionOf(surface', surface[j]) ]_vars

=============================================================================
