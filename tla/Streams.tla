------------------------------- MODULE Streams -------------------------------
(***************************************************************************)
(* One WebSocket connection to /api/remote.mux (internal/server/conn.go)   *)
(* with the streams a browser opens on it (streams.go), while one session  *)
(* appends events and pushes each to its followers (emitEvent).            *)
(*                                                                         *)
(* The goroutines are the reader (conn.run), the heartbeat (pingLoop), one *)
(* per stream (runFollow, runEvents) and the one that appends.  c.mu,      *)
(* subMu and hub.mu are only held for straight-line code and are not       *)
(* visible; writeMu is held across a write to the socket, which blocks     *)
(* while the browser does not read.                                        *)
(***************************************************************************)
EXTENDS Naturals, Sequences, SequencesExt

CONSTANTS
  Ids,        (* the stream ids the browser uses          *)
  MaxEvents   (* bound: events appended to the session    *)

ASSUME StreamsAssumption ==
  MaxEvents \in Nat /\ Ids \cap {"none", "free", "appender", "reader"} = {}

VARIABLES
  peer,       (* the browser: "up", "stalled" (not reading) or "gone"       *)
  reader,     (* pc of conn.run                                             *)
  pinger,     (* pc of pingLoop                                             *)
  open,       (* conn.open                                                  *)
  writer,     (* who holds writeMu                                          *)
  registered, (* keys of conn.streams                                       *)
  sweep,      (* the cancel functions closeAll has still to call            *)
  shut,       (* streams whose channel `active` is closed                   *)
  endpoint,   (* what each stream was opened on                             *)
  pc,         (* pc of each stream's goroutine                              *)
  history,    (* the log a follow has read: its cursor, then its records    *)
  subscribed, (* the connection is in Server.subs[session]                  *)
  follows,    (* conn.follows[session]                                      *)
  events,     (* conn.events                                                *)
  inHub,      (* the connection is in hub.conns                             *)
  log,        (* number of events in Session.log                            *)
  appender,   (* the append under way, with its emitEvent                   *)
  frames      (* the frames each stream has received, in order              *)

conn == <<reader, pinger, open, registered, sweep, shut>>
streams == <<endpoint, pc, history>>
server == <<subscribed, follows, events, inHub>>
vars == <<peer, conn, writer, streams, server, log, appender, frames>>

Endpoints == {"follow", "bad", "events"}
Frames == [kind : {"snapshot", "event"}, seq : 0..MaxEvents]
          \cup [kind : {"ready", "error"}, seq : {0}]
Idle == [pc |-> "idle", seq |-> 0, to |-> "none"]

Init ==
  /\ peer = "up" /\ reader = "reading" /\ pinger = "ticking"
  /\ open = TRUE /\ writer = "free"
  /\ registered = {} /\ sweep = {} /\ shut = {}
  /\ endpoint = [id \in Ids |-> "none"]
  /\ pc = [id \in Ids |-> "none"]
  /\ history = [id \in Ids |-> 0]
  /\ subscribed = FALSE /\ follows = "none" /\ events = FALSE /\ inHub = TRUE
  /\ log = 0 /\ appender = Idle
  /\ frames = [id \in Ids |-> <<>>]

-----------------------------------------------------------------------------
(* conn.writeLine: take writeMu, write unless the connection is closed.    *)

Blocks == open /\ peer = "stalled"

Block(p) ==
  /\ writer = "free" /\ Blocks
  /\ writer' = p

Delivers(id, kind, seq) ==
  frames' = IF open /\ peer = "up" /\ id \in Ids
            THEN [frames EXCEPT ![id] = Append(@, [kind |-> kind, seq |-> seq])]
            ELSE frames

\* Mutant: the early return for a closed connection keeps the lock.
writeLineKeepsLock(p, id, kind, seq) ==
  /\ IF writer = p THEN peer # "stalled" ELSE writer = "free" /\ ~Blocks
  /\ writer' = IF open THEN "free" ELSE p
  /\ Delivers(id, kind, seq)

writeLine(p, id, kind, seq) ==
  /\ IF writer = p THEN peer # "stalled" ELSE writer = "free" /\ ~Blocks
  /\ writer' = "free"
  /\ Delivers(id, kind, seq)

\* conn.close.
close ==
  /\ writer = "free"
  /\ open' = FALSE
  /\ peer' = "gone"

-----------------------------------------------------------------------------
(* The browser and the network.                                            *)

Browser ==
  /\ \/ peer = "up" /\ peer' = "stalled"
     \/ peer = "stalled" /\ peer' = "up"
     \/ peer # "gone" /\ peer' = "gone"
  /\ UNCHANGED <<conn, writer, streams, server, log, appender, frames>>

-----------------------------------------------------------------------------
(* The reader: conn.run, handleClientFrame, closeAll, handleMux.           *)

Reads == reader = "reading" /\ writer # "reader" /\ peer # "gone" /\ open

openStream(id, e) ==
  /\ Reads /\ id \notin registered
  /\ registered' = registered \cup {id}
  /\ endpoint' = [endpoint EXCEPT ![id] = e]
  /\ pc' = [pc EXCEPT ![id] = IF e = "events" THEN "mark" ELSE "lookup"]
  /\ UNCHANGED <<peer, reader, pinger, open, sweep, shut, writer, history,
                 server, log, appender, frames>>

\* An unknown endpoint is answered with an error frame (not recorded: the id
\* has no stream) and forgotten.
openUnknown ==
  /\ reader = "reading" /\ registered # Ids
  /\ \/ Reads /\ Block("reader") /\ UNCHANGED frames
     \/ (Reads \/ writer = "reader") /\ writeLine("reader", "none", "error", 0)
  /\ UNCHANGED <<peer, conn, streams, server, log, appender>>

\* A duplicate id or a malformed frame: protoClose, then closeAll.
Refuse ==
  /\ Reads
  /\ reader' = "refusing"
  /\ UNCHANGED <<peer, pinger, open, registered, sweep, shut, writer, streams,
                 server, log, appender, frames>>

\* Mutant: the map is emptied before it is read.
closeNothing ==
  /\ reader' = "sweeping"
  /\ sweep' = {} /\ registered' = {}

\* closeAll takes the map, then calls every cancel function in it.
closeAll ==
  /\ reader' = "sweeping"
  /\ sweep' = registered /\ registered' = {}

protoClose ==
  /\ reader = "refusing" /\ close
  /\ closeAll
  /\ UNCHANGED <<pinger, shut, writer, streams, server, log, appender, frames>>

\* The socket is closed, or no pong has moved the read deadline.
ReadFails ==
  /\ reader = "reading" /\ writer # "reader"
  /\ peer # "up" \/ ~open
  /\ closeAll
  /\ UNCHANGED <<peer, pinger, open, shut, writer, streams, server, log,
                 appender, frames>>

\* The cancel function of a stream.  Closing a closed channel panics; the
\* handler ends there, with only conn.run's deferred close(done) run.
callCancel(id, then) ==
  IF id \in shut
  THEN /\ reader' = "panicked"
       /\ pinger' = IF pinger = "ticking" THEN "stopped" ELSE pinger
       /\ UNCHANGED shut
  ELSE /\ shut' = shut \cup {id}
       /\ reader' = then
       /\ UNCHANGED pinger

cancelStream(id) ==
  /\ Reads /\ id \in registered
  /\ callCancel(id, "reading")
  /\ UNCHANGED <<peer, open, registered, sweep, writer, streams, server, log,
                 appender, frames>>

CancelNext(id) ==
  /\ reader = "sweeping" /\ id \in sweep
  /\ sweep' = sweep \ {id}
  /\ callCancel(id, "sweeping")
  /\ UNCHANGED <<peer, open, registered, writer, streams, server, log,
                 appender, frames>>

CloseConn ==
  /\ reader = "sweeping" /\ sweep = {} /\ close
  /\ reader' = "dropping"
  /\ pinger' = IF pinger = "ticking" THEN "stopped" ELSE pinger
  /\ UNCHANGED <<registered, sweep, shut, writer, streams, server, log,
                 appender, frames>>

DropFromHub ==
  /\ reader = "dropping"
  /\ reader' = "returned"
  /\ inHub' = FALSE
  /\ UNCHANGED <<peer, pinger, open, registered, sweep, shut, writer, streams,
                 subscribed, follows, events, log, appender, frames>>

Reader ==
  \/ \E id \in Ids : (\E e \in Endpoints : openStream(id, e)) \/ cancelStream(id)
  \/ openUnknown \/ Refuse

\* What the reader does without a frame of the browser.
ReaderEnds ==
  \/ protoClose \/ ReadFails \/ CloseConn \/ DropFromHub
  \/ writer = "reader" /\ openUnknown
  \/ \E id \in Ids : CancelNext(id)

-----------------------------------------------------------------------------
(* The heartbeat: pingLoop.                                                *)

PingFails ==
  /\ pinger = "ticking" /\ (peer # "up" \/ ~open)
  /\ pinger' = "closing"
  /\ UNCHANGED <<peer, reader, open, registered, sweep, shut, writer, streams,
                 server, log, appender, frames>>

PingCloses ==
  /\ pinger = "closing" /\ close
  /\ pinger' = "stopped"
  /\ UNCHANGED <<reader, registered, sweep, shut, writer, streams, server, log,
                 appender, frames>>

Pinger == PingFails \/ PingCloses

-----------------------------------------------------------------------------
(* A session/follow stream: runFollow.                                     *)

Goto(id, label) == pc' = [pc EXCEPT ![id] = label]

\* The cursor: the length of the log when the session is looked up.
Lookup(id) ==
  /\ pc[id] = "lookup" /\ endpoint[id] = "follow"
  /\ history' = [history EXCEPT ![id] = log]
  /\ Goto(id, "subscribe")
  /\ UNCHANGED <<peer, conn, writer, endpoint, server, log, appender, frames>>

\* Malformed arguments or an unknown session.
SendError(id) ==
  /\ pc[id] = "lookup" /\ endpoint[id] = "bad"
  /\ \/ Block(id) /\ UNCHANGED <<pc, frames>>
     \/ writeLine(id, id, "error", 0) /\ Goto(id, "done")
  /\ UNCHANGED <<peer, conn, endpoint, history, server, log, appender>>

subscribe(id) ==
  /\ pc[id] = "subscribe"
  /\ subscribed' = TRUE /\ follows' = id
  /\ Goto(id, "history")
  /\ UNCHANGED <<peer, conn, writer, endpoint, history, events, inHub, log,
                 appender, frames>>

\* Mutant: the snapshot holds the records up to the cursor.
RecordsUpToCursor(id) ==
  /\ pc[id] = "history"
  /\ Goto(id, "snapshot")
  /\ UNCHANGED <<peer, conn, writer, endpoint, history, server, log, appender, frames>>

\* The records are the whole log, which may have grown since the lookup.
ReadHistory(id) ==
  /\ pc[id] = "history"
  /\ history' = [history EXCEPT ![id] = log]
  /\ Goto(id, "snapshot")
  /\ UNCHANGED <<peer, conn, writer, endpoint, server, log, appender, frames>>

sendSnapshot(id) ==
  /\ pc[id] = "snapshot"
  /\ \/ Block(id) /\ UNCHANGED <<pc, frames>>
     \/ writeLine(id, id, "snapshot", history[id]) /\ Goto(id, "live")
  /\ UNCHANGED <<peer, conn, endpoint, history, server, log, appender>>

\* Deferred: it removes whatever follow of the session the connection has.
unsubscribe(id) ==
  /\ pc[id] = "live" /\ endpoint[id] = "follow" /\ id \in shut
  /\ subscribed' = FALSE /\ follows' = "none"
  /\ Goto(id, "done")
  /\ UNCHANGED <<peer, conn, writer, endpoint, history, events, inHub, log,
                 appender, frames>>

-----------------------------------------------------------------------------
(* A $events stream: runEvents.                                            *)

MarkEvents(id) ==
  /\ pc[id] = "mark"
  /\ events' = TRUE
  /\ Goto(id, "ready")
  /\ UNCHANGED <<peer, conn, writer, endpoint, history, subscribed, follows,
                 inHub, log, appender, frames>>

\* A write to a browser that is gone may or may not report an error.
SendReady(id) ==
  /\ pc[id] = "ready"
  /\ \/ Block(id) /\ UNCHANGED <<pc, frames>>
     \/ /\ writeLine(id, id, "ready", 0)
        /\ \/ open /\ Goto(id, "live")
           \/ (~open \/ peer = "gone") /\ Goto(id, "clear")
  /\ UNCHANGED <<peer, conn, endpoint, history, server, log, appender>>

ClearEvents(id) ==
  /\ \/ pc[id] = "clear"
     \/ pc[id] = "live" /\ endpoint[id] = "events" /\ id \in shut
  /\ events' = FALSE
  /\ Goto(id, "done")
  /\ UNCHANGED <<peer, conn, writer, endpoint, history, subscribed, follows,
                 inHub, log, appender, frames>>

Stream(id) ==
  \/ Lookup(id) \/ SendError(id)
  \/ subscribe(id) \/ ReadHistory(id) \/ sendSnapshot(id) \/ unsubscribe(id)
  \/ MarkEvents(id) \/ SendReady(id) \/ ClearEvents(id)

-----------------------------------------------------------------------------
(* Session.Append and its listener emitEvent; Session.mu admits one.       *)

AppendEvent ==
  /\ appender.pc = "idle" /\ log < MaxEvents
  /\ log' = log + 1
  /\ appender' = [Idle EXCEPT !.pc = "emit", !.seq = log + 1]
  /\ UNCHANGED <<peer, conn, writer, streams, server, frames>>

\* emitEvent, under subMu: the connections that follow the session.
emitEvent ==
  /\ appender.pc = "emit"
  /\ appender' = IF subscribed THEN [appender EXCEPT !.pc = "target"] ELSE Idle
  /\ UNCHANGED <<peer, conn, writer, streams, server, log, frames>>

\* Then, under the connection's own lock: the stream to address.
EmitTarget ==
  /\ appender.pc = "target"
  /\ appender' = [appender EXCEPT !.pc = "write", !.to = follows]
  /\ UNCHANGED <<peer, conn, writer, streams, server, log, frames>>

EmitWrite ==
  /\ appender.pc = "write"
  /\ \/ Block("appender") /\ UNCHANGED <<appender, frames>>
     \/ writeLine("appender", appender.to, "event", appender.seq) /\ appender' = Idle
  /\ UNCHANGED <<peer, conn, streams, server, log>>

Emit == emitEvent \/ EmitTarget \/ EmitWrite

-----------------------------------------------------------------------------
Next ==
  \/ Browser \/ Reader \/ ReaderEnds \/ Pinger
  \/ AppendEvent \/ Emit
  \/ \E id \in Ids : Stream(id)

\* Every goroutine runs on; only the browser and the agent may stay silent.
Fairness ==
  /\ WF_vars(ReaderEnds) /\ WF_vars(Pinger) /\ WF_vars(Emit)
  /\ \A id \in Ids : WF_vars(Stream(id))

Spec == Init /\ [][Next]_vars /\ Fairness

-----------------------------------------------------------------------------
TypeOK ==
  /\ peer \in {"up", "stalled", "gone"}
  /\ reader \in {"reading", "refusing", "sweeping", "dropping",
                 "returned", "panicked"}
  /\ pinger \in {"ticking", "closing", "stopped"}
  /\ open \in BOOLEAN /\ subscribed \in BOOLEAN /\ events \in BOOLEAN /\ inHub \in BOOLEAN
  /\ writer \in Ids \cup {"free", "appender", "reader"}
  /\ registered \subseteq Ids /\ sweep \subseteq Ids /\ shut \subseteq Ids
  /\ endpoint \in [Ids -> Endpoints \cup {"none"}]
  /\ pc \in [Ids -> {"none", "lookup", "subscribe", "history", "snapshot",
                     "mark", "ready", "clear", "live", "done"}]
  /\ history \in [Ids -> 0..MaxEvents]
  /\ follows \in Ids \cup {"none"}
  /\ log \in 0..MaxEvents
  /\ appender \in [pc : {"idle", "emit", "target", "write"}, seq : 0..MaxEvents,
                   to : Ids \cup {"none"}]
  /\ \A id \in Ids : \A f \in ToSet(frames[id]) : f \in Frames

\* What a follow stream has shown the browser.
Shown(id) ==
  UNION {IF f.kind = "snapshot" THEN 1..f.seq ELSE {f.seq} :
           f \in {g \in ToSet(frames[id]) : g.kind \in {"snapshot", "event"}}}

OnlyFollow(id) == \A o \in Ids \ {id} : endpoint[o] # "follow"

\* A browser that follows the session once, and is still there, has been
\* shown every event of the log but the one being pushed: the snapshot and
\* the pushes leave no hole, whenever the stream was opened (runFollow
\* subscribes before it reads the history).
NothingMissed ==
  \A id \in Ids :
    endpoint[id] = "follow" /\ pc[id] = "live" /\ OnlyFollow(id) /\ peer # "gone" =>
      (1..log) \ {appender.seq} \subseteq Shown(id)

\* A connection whose handler returned is forgotten: every goroutine of its
\* streams ends, and it is neither subscribed nor counted as an events client.
ReturnedIsForgotten ==
  reader = "returned" ~>
    /\ ~subscribed /\ ~events /\ ~inHub
    /\ \A id \in Ids : pc[id] \in {"none", "done"}

\* A browser that reads, or one that is gone, never holds up the session:
\* an append whose pushes do not block comes to its end.
AppendsReturn == appender.pc # "idle" ~> (appender.pc = "idle" \/ peer = "stalled")

\* hub.go:26, streams.go:29: a connection that is gone is forgotten.
GoneIsForgotten == peer = "gone" ~> ~subscribed /\ ~events

\* conn.go:13: a browser that answers no ping is disconnected.
StalledIsClosed == peer = "stalled" ~> peer # "stalled"

\* ws-protocol.md:206: the snapshot precedes every event.
SnapshotFirst ==
  \A id \in Ids : frames[id] # <<>> => frames[id][1].kind # "event"
=============================================================================
