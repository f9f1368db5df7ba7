----------------------------- MODULE SessionStore -----------------------------
(***************************************************************************)
(* A session directory and the processes that use it                       *)
(* (internal/session/store.go, with the way internal/server/rpc.go and     *)
(* internal/app/headless.go open it): the write lease, the log file of     *)
(* concatenated frames, the append of one frame per event, torn frames     *)
(* after a crash, and the load of what can be read.                        *)
(*                                                                         *)
(* A frame is the header or one event, whole or torn; zstd framing and the *)
(* plain line format differ only in how a torn frame is recognised.        *)
(***************************************************************************)
EXTENDS Integers, Sequences, FiniteSets, SequencesExt

CONSTANTS
  Procs,        (* processes that may open the session                      *)
  Nobody,       (* the holder of a lease nobody holds                       *)
  MaxEvents,    (* bound: events appended                                   *)
  MaxCrashes    (* bound: crashes                                           *)

ASSUME StoreAssumption ==
  /\ Nobody \notin Procs
  /\ {MaxEvents, MaxCrashes} \subseteq Nat

VARIABLES
  file,     (* the frames of the log file                                    *)
  lock,     (* the holder of session.lock                                    *)
  proc,     (* per process: where it is, and the log it has in memory        *)
  acked,    (* history: events whose Append returned, in order               *)
  faults,   (* history: what happened to the session that a promise excludes *)
  minted,   (* number of events appended so far                              *)
  crashes

vars == <<file, lock, proc, acked, faults, minted, crashes>>

\* "recreated": session/create was given the id of an existing session;
\* "write": a write of the log file failed; "lease": the opener dropped its
\* *Lease and it was collected; "newer": a newer build used the session.
Faults == {"recreated", "write", "lease", "newer"}

Header == [kind |-> "header", id |-> 0, seq |-> 0, whole |-> TRUE]
EventFrame(e) == [kind |-> IF e.known THEN "event" ELSE "unknown",
                  id |-> e.id, seq |-> e.seq, whole |-> TRUE]
Torn(frame) == [frame EXCEPT !.whole = FALSE]

Closed == [pc |-> "closed", mem |-> <<>>]

-----------------------------------------------------------------------------
(* LoadLog.                                                                *)

\* DecodeAllPrefix stops at the first frame it cannot decode; the bytes up
\* to there are the offset that is safe to append at.
SafeFrames(f) ==
  IF \E i \in DOMAIN f : ~f[i].whole
  THEN (CHOOSE i \in DOMAIN f : ~f[i].whole /\ \A j \in 1..(i - 1) : f[j].whole) - 1
  ELSE Len(f)

ReadablePrefix(f) == SubSeq(f, 1, SafeFrames(f))

Loadable(f) == Len(ReadablePrefix(f)) >= 1 /\ f[1].kind = "header"

\* Mutant: an unknown event ends the log.
LoadedUntilUnknown(f) ==
  LET events == Tail(ReadablePrefix(f))
      known == {i \in DOMAIN events : \A j \in 1..i : events[j].kind = "event"}
  IN  [i \in 1..Cardinality(known) |-> [id |-> events[i].id, seq |-> events[i].seq]]

\* What follows the header, without the events of an unknown type that say
\* they may be ignored.
LoadedEvents(f) ==
  LET kept[n \in 1..SafeFrames(f)] ==
        IF n = 1 THEN <<>>
        ELSE IF f[n].kind = "event" THEN Append(kept[n - 1], [id |-> f[n].id, seq |-> f[n].seq])
        ELSE kept[n - 1]
  IN  kept[SafeFrames(f)]

-----------------------------------------------------------------------------
Init ==
  /\ file = <<>>
  /\ lock = Nobody
  /\ proc = [p \in Procs |-> Closed]
  /\ acked = <<>> /\ faults = {}
  /\ minted = 0 /\ crashes = 0

\* Mutant: the lease is taken whoever holds it.
AcquireLeaseAnyway(p) ==
  /\ proc[p].pc = "closed"
  /\ lock' = p
  /\ proc' = [proc EXCEPT ![p].pc = "locked"]
  /\ UNCHANGED <<file, acked, faults, minted, crashes>>

AcquireLease(p) ==
  /\ proc[p].pc = "closed"
  /\ lock = Nobody
  /\ lock' = p
  /\ proc' = [proc EXCEPT ![p].pc = "locked"]
  /\ UNCHANGED <<file, acked, faults, minted, crashes>>

\* newPersisted and runHeadlessCore open the log at offset 0, which cuts it
\* to nothing, and write a new header.
OpenFresh(p) ==
  /\ proc[p].pc = "locked"
  /\ file' = <<Header>>
  /\ proc' = [proc EXCEPT ![p] = [pc |-> "open", mem |-> <<>>]]
  /\ faults' = IF file = <<>> THEN faults ELSE faults \cup {"recreated"}
  /\ UNCHANGED <<lock, acked, minted, crashes>>

\* Mutant: the torn tail stays where it is.
OpenLoadedUncut(p) ==
  /\ proc[p].pc = "locked"
  /\ Loadable(file)
  /\ proc' = [proc EXCEPT ![p] = [pc |-> "open", mem |-> LoadedEvents(file)]]
  /\ UNCHANGED <<file, lock, acked, faults, minted, crashes>>

\* LoadLog, Restore, and OpenLogWriter at the safe offset.
OpenLoaded(p) ==
  /\ proc[p].pc = "locked"
  /\ Loadable(file)
  /\ file' = ReadablePrefix(file)
  /\ proc' = [proc EXCEPT ![p] = [pc |-> "open", mem |-> LoadedEvents(file)]]
  /\ UNCHANGED <<lock, acked, faults, minted, crashes>>

OpenFails(p) ==
  /\ proc[p].pc = "locked"
  /\ lock' = Nobody
  /\ proc' = [proc EXCEPT ![p] = Closed]
  /\ UNCHANGED <<file, acked, faults, minted, crashes>>

NewEvent(p) == [id |-> minted + 1, seq |-> Len(proc[p].mem), known |-> TRUE]

\* Mutant: a write that failed half way is repeated, also when the first one
\* had made it to the file.
AppendEventRetries(p) ==
  LET e == NewEvent(p) IN
  /\ proc[p].pc = "open"
  /\ minted < MaxEvents
  /\ minted' = minted + 1
  /\ proc' = [proc EXCEPT ![p].mem = Append(@, [id |-> e.id, seq |-> e.seq])]
  /\ acked' = Append(acked, e.id)
  /\ file' \in {Append(file, EventFrame(e)), file \o <<EventFrame(e), EventFrame(e)>>}
  /\ UNCHANGED <<lock, faults, crashes>>

\* Session.Append and its listener AppendEvent, whose error is dropped.
AppendEvent(p) ==
  LET e == NewEvent(p) IN
  /\ proc[p].pc = "open"
  /\ minted < MaxEvents
  /\ minted' = minted + 1
  /\ proc' = [proc EXCEPT ![p].mem = Append(@, [id |-> e.id, seq |-> e.seq])]
  /\ acked' = Append(acked, e.id)
  /\ \/ /\ file' = Append(file, EventFrame(e))
        /\ UNCHANGED faults
     \/ /\ file' \in {file, Append(file, Torn(EventFrame(e)))}
        /\ faults' = faults \cup {"write"}
  /\ UNCHANGED <<lock, crashes>>

\* The process dies, possibly in the middle of a write.
Crash(p) ==
  /\ proc[p].pc # "closed"
  /\ crashes < MaxCrashes
  /\ crashes' = crashes + 1
  /\ \/ UNCHANGED <<file, minted>>
     \/ /\ proc[p].pc = "locked" /\ file = <<>>
        /\ file' = <<Torn(Header)>>
        /\ UNCHANGED minted
     \/ /\ proc[p].pc = "open" /\ minted < MaxEvents
        /\ file' = Append(file, Torn(EventFrame(NewEvent(p))))
        /\ minted' = minted + 1
  /\ lock' = IF lock = p THEN Nobody ELSE lock
  /\ proc' = [proc EXCEPT ![p] = Closed]
  /\ UNCHANGED <<acked, faults>>

\* The log is closed and the lease released, in an order no one can see.
Close(p) ==
  /\ proc[p].pc = "open"
  /\ lock' = IF lock = p THEN Nobody ELSE lock
  /\ proc' = [proc EXCEPT ![p] = Closed]
  /\ UNCHANGED <<file, acked, faults, minted, crashes>>

\* newPersisted keeps no reference to its *Lease: the collector closes the
\* file, and with the file goes the flock.  (runHeadlessCore keeps it.)
LeaseCollected(p) ==
  /\ proc[p].pc = "open" /\ lock = p
  /\ lock' = Nobody
  /\ faults' = faults \cup {"lease"}
  /\ UNCHANGED <<file, proc, acked, minted, crashes>>

\* A newer build held the session for a while and left events behind, some
\* of a type this build does not know but may skip.
NewerAppends ==
  /\ lock = Nobody /\ Loadable(file)
  /\ minted < MaxEvents
  /\ minted' = minted + 1
  /\ \E known \in BOOLEAN :
       LET readable == ReadablePrefix(file)
           e == [id |-> minted + 1, seq |-> Len(readable) - 1, known |-> known]
       IN  /\ file' = Append(readable, EventFrame(e))
           /\ acked' = IF known THEN Append(acked, e.id) ELSE acked
  /\ faults' = faults \cup {"newer"}
  /\ UNCHANGED <<lock, proc, crashes>>

Next ==
  \/ \E p \in Procs :
       \/ AcquireLease(p) \/ OpenFresh(p) \/ OpenLoaded(p) \/ OpenFails(p)
       \/ AppendEvent(p) \/ Crash(p) \/ Close(p) \/ LeaseCollected(p)
  \/ NewerAppends

Spec == Init /\ [][Next]_vars

-----------------------------------------------------------------------------
(* Properties.                                                             *)

Frames == [kind : {"header", "event", "unknown"}, id : Nat, seq : Nat, whole : BOOLEAN]

TypeOK ==
  /\ file \in Seq(Frames)
  /\ lock \in Procs \cup {Nobody}
  /\ proc \in [Procs -> [pc : {"closed", "locked", "open"}, mem : Seq([id : Nat, seq : Nat])]]
  /\ acked \in Seq(Nat)
  /\ faults \subseteq Faults
  /\ minted \in 0..MaxEvents /\ crashes \in 0..MaxCrashes

\* As long as its opener keeps the lease, two processes never write the same
\* log (store.go:475-476).
SoleWriter == \A p, q \in Procs : proc[p].pc # "closed" /\ proc[q].pc # "closed" => p = q
OneWriter == "lease" \notin faults => SoleWriter

\* Whoever opens the session has every event whose Append had returned, in
\* order, whatever crashes came between and whatever a newer build left
\* behind (store.go:420, session.go:198-199).
AckedIsLoaded ==
  \A p \in Procs : proc[p].pc = "open" =>
    [i \in DOMAIN proc[p].mem |-> proc[p].mem[i].id] = acked
NothingAckedIsLost == faults \subseteq {"newer"} => AckedIsLoaded

\* While a process writes, what a reader could load is what the process has
\* in memory: a torn frame never hides frames written after it.
ReadableAsKept ==
  \A p \in Procs : proc[p].pc = "open" => Loadable(file) /\ LoadedEvents(file) = proc[p].mem
FileIsReadable == faults \subseteq {"newer", "recreated"} => ReadableAsKept

\* Whatever fails, events are only lost: none is read twice or in an order in
\* which it was not appended (store.go:319-384).
LoadedInOrder ==
  \A p \in Procs : \A i, j \in DOMAIN proc[p].mem :
    i < j => proc[p].mem[i].id < proc[p].mem[j].id

=============================================================================
