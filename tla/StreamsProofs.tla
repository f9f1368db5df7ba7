---------------------------- MODULE StreamsProofs ----------------------------
(***************************************************************************)
(* Theorems about Streams, for every set of stream ids and every number of *)
(* events.                                                                 *)
(***************************************************************************)
EXTENDS Streams, TLAPS

Places == {"none", "lookup", "subscribe", "history", "snapshot", "mark", "ready", "clear",
           "live", "done"}
Appenders == [pc : {"idle", "emit", "target", "write"}, seq : 0..MaxEvents, to : Ids \cup {"none"}]

ConnTyped ==
  /\ peer \in {"up", "stalled", "gone"}
  /\ reader \in {"reading", "refusing", "sweeping", "dropping", "returned", "panicked"}
  /\ pinger \in {"ticking", "closing", "stopped"}
  /\ open \in BOOLEAN
  /\ writer \in Ids \cup {"free", "appender", "reader"}
  /\ registered \subseteq Ids /\ sweep \subseteq Ids /\ shut \subseteq Ids
StreamTyped ==
  /\ endpoint \in [Ids -> Endpoints \cup {"none"}]
  /\ pc \in [Ids -> Places]
  /\ history \in [Ids -> 0..MaxEvents]
ServerTyped ==
  /\ subscribed \in BOOLEAN /\ events \in BOOLEAN /\ inHub \in BOOLEAN
  /\ follows \in Ids \cup {"none"}
LogTyped ==
  /\ log \in 0..MaxEvents /\ appender \in Appenders
  /\ frames \in [Ids -> Seq(Frames)]

Typed == ConnTyped /\ StreamTyped /\ ServerTyped /\ LogTyped

\* A closed connection has no browser any more.
ClosedIsGone == ~open => peer = "gone"

\* A stream id is used for one stream only, which runs the code of its
\* endpoint.
OneStream ==
  \A id \in Ids :
    /\ endpoint[id] = "none" <=> pc[id] = "none"
    /\ reader = "reading" /\ id \notin registered => endpoint[id] = "none"
    /\ pc[id] \in {"subscribe", "history", "snapshot"} => endpoint[id] = "follow"
    /\ pc[id] \in {"mark", "ready", "clear"} => endpoint[id] = "events"

\* The one follow stream of the session is subscribed from subscribe to
\* unsubscribe, and whoever pushes an event meanwhile addresses it.
Followed(id) == endpoint[id] = "follow" /\ OnlyFollow(id)
Past(id) == pc[id] \in {"history", "snapshot", "live"}

Subscription ==
  /\ (\A id \in Ids : endpoint[id] # "follow") =>
       ~subscribed /\ appender.pc \notin {"target", "write"}
  /\ \A id \in Ids : Followed(id) =>
       /\ Past(id) <=> subscribed
       /\ Past(id) => follows = id
       /\ appender.pc \in {"target", "write"} => Past(id) \/ pc[id] = "done"
       /\ appender.pc = "write" /\ Past(id) => appender.to = id

\* What such a stream has shown, or is about to show in its snapshot, misses
\* nothing but the event that is being pushed.
Covered(id) == Shown(id) \cup (IF pc[id] = "snapshot" THEN 1..history[id] ELSE {})
Complete ==
  /\ appender.pc = "idle" => appender.seq = 0
  /\ \A id \in Ids : Followed(id) /\ pc[id] \in {"snapshot", "live"} /\ peer # "gone" =>
       (1..log) \ {appender.seq} \subseteq Covered(id)

\* The inductive invariant.
IInv == Typed /\ ClosedIsGone /\ OneStream /\ Subscription /\ Complete

-----------------------------------------------------------------------------
(* What a stream has shown.                                                *)

LEMMA ToSetGrows ==
  ASSUME NEW F, NEW s \in Seq(F), NEW f \in F
  PROVE  Append(s, f) \in Seq(F) /\ ToSet(Append(s, f)) = ToSet(s) \cup {f}
<1>1. /\ Append(s, f) \in Seq(F) /\ DOMAIN Append(s, f) = 1..(Len(s) + 1)
      /\ \A i \in 1..Len(s) : Append(s, f)[i] = s[i]
      /\ Append(s, f)[Len(s) + 1] = f
      /\ DOMAIN s = 1..Len(s) /\ Len(s) \in Nat
  OBVIOUS
<1> QED BY <1>1 DEF ToSet

\* A write to the socket keeps what has been shown, and what it delivers is
\* shown in addition.
LEMMA WriteShows ==
  ASSUME Typed, NEW to, NEW kind, NEW seq, [kind |-> kind, seq |-> seq] \in Frames,
         Delivers(to, kind, seq)
  PROVE  /\ frames' \in [Ids -> Seq(Frames)]
         /\ \A id \in Ids : Shown(id) \subseteq Shown(id)'
         /\ open /\ peer = "up" /\ to \in Ids =>
              /\ kind = "event" => seq \in Shown(to)'
              /\ kind = "snapshot" => 1..seq \subseteq Shown(to)'
<1> DEFINE f == [kind |-> kind, seq |-> seq]
<1>1. frames \in [Ids -> Seq(Frames)]
  BY DEF Typed, LogTyped
<1>2. f.kind = kind /\ f.seq = seq
  OBVIOUS
<1> HIDE DEF f
<1>3. CASE open /\ peer = "up" /\ to \in Ids
  <2>1. frames' = [frames EXCEPT ![to] = Append(@, f)]
    BY <1>3 DEF Delivers, f
  <2>2. f \in Frames
    BY DEF f
  <2>3. /\ frames'[to] = Append(frames[to], f) /\ \A id \in Ids \ {to} : frames'[id] = frames[id]
        /\ frames[to] \in Seq(Frames)
    BY <1>1, <1>3, <2>1
  <2>4. frames'[to] \in Seq(Frames) /\ ToSet(frames'[to]) = ToSet(frames[to]) \cup {f}
    BY <2>2, <2>3, ToSetGrows
  <2>5. frames' \in [Ids -> Seq(Frames)]
    BY <1>1, <2>1, <2>3, <2>4
  <2>6. ASSUME NEW id \in Ids PROVE Shown(id) \subseteq Shown(id)'
    <3>1. ToSet(frames[id]) \subseteq ToSet(frames'[id])
      BY <2>3, <2>4
    <3> QED BY <3>1 DEF Shown
  <2>7. (kind = "event" => seq \in Shown(to)') /\ (kind = "snapshot" => 1..seq \subseteq Shown(to)')
    BY <1>2, <2>4 DEF Shown
  <2> QED BY <2>5, <2>6, <2>7
<1>4. CASE ~(open /\ peer = "up" /\ to \in Ids)
  BY <1>1, <1>4 DEF Delivers, Shown
<1> QED BY <1>3, <1>4

-----------------------------------------------------------------------------
(* Types.                                                                  *)

LEMMA TypedIsTypeOK == Typed => TypeOK
<1>1. frames \in [Ids -> Seq(Frames)] => \A id \in Ids : \A f \in ToSet(frames[id]) : f \in Frames
  BY DEF ToSet
<1> QED BY <1>1 DEF Typed, TypeOK, ConnTyped, StreamTyped, ServerTyped, LogTyped, Places, Appenders

\* A write of a frame, or a wait for the socket.
LEMMA WriteTyped ==
  ASSUME Typed, NEW p \in Ids \cup {"appender", "reader"}, NEW id,
         NEW kind, NEW seq, [kind |-> kind, seq |-> seq] \in Frames,
         (Block(p) /\ UNCHANGED frames) \/ writeLine(p, id, kind, seq)
  PROVE  /\ writer' \in Ids \cup {"free", "appender", "reader"}
         /\ frames' \in [Ids -> Seq(Frames)]
<1>1. CASE Block(p) /\ UNCHANGED frames
  BY <1>1 DEF Block, Typed, LogTyped
<1>2. CASE writeLine(p, id, kind, seq)
  BY <1>2, WriteShows DEF writeLine
<1> QED BY <1>1, <1>2

LEMMA ConnStepTyped ==
  ASSUME Typed, Browser \/ Reader \/ ReaderEnds \/ Pinger
  PROVE  Typed'
<1> USE DEF Typed
<1>1. CASE Browser
  BY <1>1 DEF Browser, conn, streams, server, ConnTyped, StreamTyped, ServerTyped, LogTyped
<1>2. CASE openUnknown
  <2>1. writer' \in Ids \cup {"free", "appender", "reader"} /\ frames' \in [Ids -> Seq(Frames)]
    <3>1. [kind |-> "error", seq |-> 0] \in Frames
      BY DEF Frames
    <3> QED BY <1>2, <3>1, WriteTyped DEF openUnknown
  <2> QED BY <1>2, <2>1 DEF openUnknown, conn, streams, server, ConnTyped, StreamTyped,
                            ServerTyped, LogTyped
<1>3. ASSUME NEW id \in Ids, NEW e \in Endpoints, openStream(id, e)
      PROVE  Typed'
  BY <1>3 DEF openStream, server, ConnTyped, StreamTyped, ServerTyped, LogTyped, Places
<1>4. ASSUME NEW id \in Ids, cancelStream(id) \/ CancelNext(id)
      PROVE  Typed'
  BY <1>4 DEF cancelStream, CancelNext, callCancel, streams, server, ConnTyped, StreamTyped,
              ServerTyped, LogTyped
<1>5. CASE Refuse \/ ReadFails \/ protoClose
  BY <1>5 DEF Refuse, ReadFails, protoClose, close, closeAll, streams, server, ConnTyped,
              StreamTyped, ServerTyped, LogTyped
<1>6. CASE CloseConn \/ DropFromHub \/ Pinger
  BY <1>6 DEF CloseConn, DropFromHub, Pinger, PingFails, PingCloses, close, streams, server,
              ConnTyped, StreamTyped, ServerTyped, LogTyped
<1> QED BY <1>1, <1>2, <1>3, <1>4, <1>5, <1>6 DEF Reader, ReaderEnds

LEMMA StreamStepTyped ==
  ASSUME Typed, NEW id \in Ids, Stream(id)
  PROVE  Typed'
<1> USE DEF Typed
<1>1. CASE Lookup(id) \/ subscribe(id) \/ ReadHistory(id) \/ unsubscribe(id)
  BY <1>1 DEF Lookup, subscribe, ReadHistory, unsubscribe, Goto, conn, server, ConnTyped,
              StreamTyped, ServerTyped, LogTyped, Places
<1>2. CASE MarkEvents(id) \/ ClearEvents(id)
  BY <1>2 DEF MarkEvents, ClearEvents, Goto, conn, ConnTyped, StreamTyped, ServerTyped, LogTyped,
              Places
<1>3. ASSUME NEW kind, NEW seq, [kind |-> kind, seq |-> seq] \in Frames,
             (Block(id) /\ UNCHANGED frames) \/ writeLine(id, id, kind, seq),
             UNCHANGED pc \/ \E place \in {"done", "live", "clear"} : Goto(id, place),
             UNCHANGED <<peer, conn, endpoint, history, server, log, appender>>
      PROVE  Typed'
  <2>1. writer' \in Ids \cup {"free", "appender", "reader"} /\ frames' \in [Ids -> Seq(Frames)]
    BY <1>3, WriteTyped
  <2>2. pc' \in [Ids -> Places]
    BY <1>3 DEF Goto, StreamTyped, Places
  <2> QED BY <1>3, <2>1, <2>2 DEF conn, server, ConnTyped, StreamTyped, ServerTyped, LogTyped
<1>4. CASE SendError(id)
  BY <1>3, <1>4 DEF SendError, Frames
<1>5. CASE SendReady(id)
  BY <1>3, <1>5 DEF SendReady, Frames
<1>6. CASE sendSnapshot(id)
  <2>1. [kind |-> "snapshot", seq |-> history[id]] \in Frames
    BY DEF StreamTyped, Frames
  <2> QED BY <1>3, <1>6, <2>1 DEF sendSnapshot
<1> QED BY <1>1, <1>2, <1>4, <1>5, <1>6 DEF Stream

LEMMA EmitStepTyped ==
  ASSUME Typed, AppendEvent \/ Emit
  PROVE  Typed'
<1> USE DEF Typed
<1>1. Idle \in Appenders
  BY StreamsAssumption DEF Idle, Appenders
<1>2. CASE AppendEvent
  <2>1. log' \in 0..MaxEvents /\ log + 1 \in 0..MaxEvents
    BY <1>2, StreamsAssumption DEF AppendEvent, LogTyped
  <2>2. appender' \in Appenders
    BY <1>2, <2>1 DEF AppendEvent, Idle, Appenders
  <2> QED BY <1>2, <2>1, <2>2 DEF AppendEvent, conn, streams, server, ConnTyped, StreamTyped,
                                  ServerTyped, LogTyped
<1>3. CASE emitEvent \/ EmitTarget
  <2>1. appender' \in Appenders
    BY <1>1, <1>3 DEF emitEvent, EmitTarget, Appenders, ServerTyped, LogTyped
  <2> QED BY <1>3, <2>1 DEF emitEvent, EmitTarget, conn, streams, server, ConnTyped, StreamTyped,
                            ServerTyped, LogTyped
<1>4. CASE EmitWrite
  <2>1. [kind |-> "event", seq |-> appender.seq] \in Frames
    BY DEF LogTyped, Appenders, Frames
  <2>2. writer' \in Ids \cup {"free", "appender", "reader"} /\ frames' \in [Ids -> Seq(Frames)]
    BY <1>4, <2>1, WriteTyped DEF EmitWrite
  <2> QED BY <1>1, <1>4, <2>2 DEF EmitWrite, conn, streams, server, ConnTyped, StreamTyped,
                                  ServerTyped, LogTyped
<1> QED BY <1>2, <1>3, <1>4 DEF Emit

LEMMA StepTyped ==
  ASSUME Typed, Next
  PROVE  Typed'
BY ConnStepTyped, StreamStepTyped, EmitStepTyped DEF Next

-----------------------------------------------------------------------------
(* A closed connection.                                                    *)

\* No step brings a browser back, and whoever closes the connection takes the
\* browser away.
LEMMA GoneForGood ==
  ASSUME Next
  PROVE  /\ peer = "gone" => peer' = "gone"
         /\ open' = open \/ peer' = "gone"
<1>1. CASE Browser
  BY <1>1 DEF Browser, conn
<1>2. CASE Reader \/ ReaderEnds \/ Pinger
  BY <1>2 DEF Reader, ReaderEnds, Pinger, openStream, cancelStream, openUnknown, Refuse, conn,
              protoClose, ReadFails, CloseConn, DropFromHub, CancelNext, PingFails, PingCloses, close
<1>3. CASE AppendEvent \/ Emit
  BY <1>3 DEF AppendEvent, Emit, emitEvent, EmitTarget, EmitWrite, conn
<1>4. ASSUME NEW id \in Ids, Stream(id) PROVE UNCHANGED <<peer, open>>
  BY <1>4 DEF Stream, Lookup, SendError, subscribe, ReadHistory, sendSnapshot, unsubscribe,
              MarkEvents, SendReady, ClearEvents, conn
<1> QED BY <1>1, <1>2, <1>3, <1>4 DEF Next

LEMMA ClosedKept ==
  ASSUME ClosedIsGone, Next
  PROVE  ClosedIsGone'
BY GoneForGood DEF ClosedIsGone

\* A write that ends while the browser is there has been delivered.
LEMMA WriteArrives ==
  ASSUME Typed, ClosedIsGone, NEW p, NEW id, NEW kind, NEW seq,
         writeLine(p, id, kind, seq), peer # "gone"
  PROVE  open /\ peer = "up"
BY DEF writeLine, Blocks, ClosedIsGone, Typed, ConnTyped

-----------------------------------------------------------------------------
(* One id, one stream.                                                     *)

LEMMA OneStreamKept ==
  ASSUME Typed, OneStream, Next
  PROVE  OneStream'
<1> USE DEF OneStream
<1>1. CASE Browser
  BY <1>1 DEF Browser, conn, streams
<1>2. ASSUME NEW i \in Ids, NEW e \in Endpoints, openStream(i, e)
      PROVE  OneStream'
  <2>1. /\ endpoint' = [endpoint EXCEPT ![i] = e] /\ e # "none"
        /\ pc' = [pc EXCEPT ![i] = IF e = "events" THEN "mark" ELSE "lookup"]
        /\ reader' = reader /\ registered' = registered \cup {i}
    BY <1>2 DEF openStream, Endpoints
  <2>2. endpoint \in [Ids -> Endpoints \cup {"none"}] /\ pc \in [Ids -> Places]
    BY DEF Typed, StreamTyped
  <2> QED BY <2>1, <2>2
<1>3. CASE openUnknown \/ Refuse \/ protoClose \/ ReadFails
  BY <1>3 DEF openUnknown, Refuse, protoClose, ReadFails, closeAll, conn, streams
<1>4. ASSUME NEW i \in Ids, cancelStream(i) \/ CancelNext(i)
      PROVE  OneStream'
  BY <1>4 DEF cancelStream, CancelNext, callCancel, Reads, streams
<1>5. CASE CloseConn \/ DropFromHub \/ Pinger
  BY <1>5 DEF CloseConn, DropFromHub, Pinger, PingFails, PingCloses, streams
<1>6. CASE AppendEvent \/ Emit
  BY <1>6 DEF AppendEvent, Emit, emitEvent, EmitTarget, EmitWrite, conn, streams
<1>7. ASSUME NEW i \in Ids, Stream(i)
      PROVE  OneStream'
  <2>1. endpoint' = endpoint /\ reader' = reader /\ registered' = registered
    BY <1>7 DEF Stream, Lookup, SendError, subscribe, ReadHistory, sendSnapshot, unsubscribe,
                MarkEvents, SendReady, ClearEvents, conn
  <2>2. pc \in [Ids -> Places]
    BY DEF Typed, StreamTyped
  <2>3. CASE Lookup(i) \/ SendError(i) \/ subscribe(i)
    BY <2>1, <2>2, <2>3 DEF Lookup, SendError, subscribe, Goto
  <2>4. CASE ReadHistory(i) \/ sendSnapshot(i) \/ unsubscribe(i)
    BY <2>1, <2>2, <2>4 DEF ReadHistory, sendSnapshot, unsubscribe, Goto
  <2>5. CASE MarkEvents(i) \/ SendReady(i) \/ ClearEvents(i)
    BY <2>1, <2>2, <2>5 DEF MarkEvents, SendReady, ClearEvents, Goto
  <2> QED BY <1>7, <2>3, <2>4, <2>5 DEF Stream
<1> QED BY <1>1, <1>2, <1>3, <1>4, <1>5, <1>6, <1>7 DEF Next, Reader, ReaderEnds

-----------------------------------------------------------------------------
(* Who is subscribed, and where a push goes.                               *)

\* The steps of the connection that open no stream concern neither.
ConnOnly == Browser \/ openUnknown \/ Refuse \/ ReaderEnds \/ Pinger
            \/ \E id \in Ids : cancelStream(id)

LEMMA ConnOnlyLeaves ==
  ASSUME ConnOnly
  PROVE  UNCHANGED <<endpoint, pc, history, subscribed, follows, log, appender>>
BY DEF ConnOnly, Browser, openUnknown, Refuse, ReaderEnds, Pinger, cancelStream, protoClose,
       ReadFails, CloseConn, DropFromHub, CancelNext, PingFails, PingCloses, streams, server

LEMMA NextSplits ==
  ASSUME Next
  PROVE  \/ ConnOnly \/ AppendEvent \/ Emit
         \/ \E id \in Ids : Stream(id) \/ \E e \in Endpoints : openStream(id, e)
BY DEF Next, ConnOnly, Reader

\* Opening a stream under a fresh id.
LEMMA OpenStarts ==
  ASSUME Typed, OneStream, NEW i \in Ids, NEW e \in Endpoints, openStream(i, e)
  PROVE  /\ endpoint[i] = "none" /\ endpoint'[i] = e /\ pc'[i] \in {"mark", "lookup"}
         /\ \A id \in Ids \ {i} : endpoint'[id] = endpoint[id] /\ pc'[id] = pc[id]
         /\ UNCHANGED <<peer, history, subscribed, follows, log, appender, frames>>
<1>1. endpoint \in [Ids -> Endpoints \cup {"none"}] /\ pc \in [Ids -> Places]
  BY DEF Typed, StreamTyped
<1> QED BY <1>1 DEF openStream, OneStream, Reads, server

\* A stream that had no follow beside it before another was opened.
LEMMA OpenKeepsFollowed ==
  ASSUME Typed, OneStream, NEW i \in Ids, NEW e \in Endpoints, openStream(i, e)
  PROVE  /\ \A id \in Ids \ {i} : Followed(id)' => Followed(id)
         /\ Followed(i)' => \A id \in Ids : endpoint[id] # "follow"
BY OpenStarts DEF Followed, OnlyFollow

\* A follow stream that is alone is the one whose step subscribes.
LEMMA StreamMoves ==
  ASSUME Typed, OneStream, NEW i \in Ids, Stream(i)
  PROVE  /\ UNCHANGED <<peer, endpoint, log, appender>>
         /\ \A id \in Ids \ {i} : pc'[id] = pc[id] /\ history'[id] = history[id]
         /\ endpoint[i] # "follow" => UNCHANGED <<subscribed, follows>>
<1>1. pc \in [Ids -> Places] /\ history \in [Ids -> 0..MaxEvents]
  BY DEF Typed, StreamTyped
<1>2. CASE Lookup(i) \/ SendError(i) \/ subscribe(i)
  BY <1>1, <1>2 DEF Lookup, SendError, subscribe, Goto, conn, server, OneStream
<1>3. CASE ReadHistory(i) \/ sendSnapshot(i) \/ unsubscribe(i)
  BY <1>1, <1>3 DEF ReadHistory, sendSnapshot, unsubscribe, Goto, conn, server
<1>4. CASE MarkEvents(i) \/ SendReady(i) \/ ClearEvents(i)
  BY <1>1, <1>4 DEF MarkEvents, SendReady, ClearEvents, Goto, conn, server
<1> QED BY <1>2, <1>3, <1>4 DEF Stream

LEMMA SubscriptionKept ==
  ASSUME Typed, OneStream, Subscription, Next
  PROVE  Subscription'
<1>1. CASE ConnOnly
  <2>1. UNCHANGED <<endpoint, pc, subscribed, follows, appender>>
    BY <1>1, ConnOnlyLeaves
  <2> QED BY <2>1 DEF Subscription, Followed, OnlyFollow, Past
<1>2. ASSUME NEW i \in Ids, NEW e \in Endpoints, openStream(i, e)
      PROVE  Subscription'
  <2>1. /\ endpoint[i] = "none" /\ pc'[i] \in {"mark", "lookup"}
        /\ \A id \in Ids \ {i} : endpoint'[id] = endpoint[id] /\ pc'[id] = pc[id]
        /\ subscribed' = subscribed /\ follows' = follows /\ appender' = appender
    BY <1>2, OpenStarts
  <2>2. /\ \A id \in Ids \ {i} : Followed(id)' => Followed(id)
        /\ Followed(i)' => \A id \in Ids : endpoint[id] # "follow"
    BY <1>2, OpenKeepsFollowed
  <2>3. (\A id \in Ids : endpoint'[id] # "follow") =>
           ~subscribed' /\ appender'.pc \notin {"target", "write"}
    BY <2>1 DEF Subscription
  <2>4. ASSUME NEW id \in Ids, Followed(id)'
        PROVE  /\ Past(id)' <=> subscribed'
               /\ Past(id)' => follows' = id
               /\ appender'.pc \in {"target", "write"} => Past(id)' \/ pc'[id] = "done"
               /\ appender'.pc = "write" /\ Past(id)' => appender'.to = id
    <3>1. CASE id = i
      BY <2>1, <2>2, <2>4, <3>1 DEF Subscription, Past
    <3>2. CASE id # i
      BY <2>1, <2>2, <2>4, <3>2 DEF Subscription, Past
    <3> QED BY <3>1, <3>2
  <2> QED BY <2>3, <2>4 DEF Subscription
<1>3. ASSUME NEW i \in Ids, Stream(i)
      PROVE  Subscription'
  <2>1. /\ endpoint' = endpoint /\ appender' = appender
        /\ \A id \in Ids \ {i} : pc'[id] = pc[id]
        /\ endpoint[i] # "follow" => subscribed' = subscribed /\ follows' = follows
    BY <1>3, StreamMoves
  <2>2. pc \in [Ids -> Places]
    BY DEF Typed, StreamTyped
  <2>3. CASE endpoint[i] # "follow"
    BY <2>1, <2>3 DEF Subscription, Followed, OnlyFollow, Past
  <2>4. CASE endpoint[i] = "follow"
    <3>1. \A id \in Ids : Followed(id)' => id = i /\ Followed(i)
      BY <2>1, <2>4 DEF Followed, OnlyFollow
    <3>2. ~Followed(i) => Subscription'
      BY <2>1, <2>4, <3>1 DEF Subscription
    <3>3. ASSUME Followed(i)
          PROVE  /\ Past(i)' <=> subscribed'
                 /\ Past(i)' => follows' = i
                 /\ appender.pc \in {"target", "write"} => Past(i)' \/ pc'[i] = "done"
                 /\ appender.pc = "write" /\ Past(i)' => appender.to = i
      <4>1. CASE Lookup(i)
        BY <2>2, <3>3, <4>1 DEF Lookup, Goto, server, Subscription, Past
      <4>2. CASE subscribe(i)
        BY <2>2, <3>3, <4>2 DEF subscribe, Goto, Subscription, Past
      <4>3. CASE ReadHistory(i) \/ sendSnapshot(i)
        BY <2>2, <3>3, <4>3 DEF ReadHistory, sendSnapshot, Goto, server, Subscription, Past
      <4>4. CASE unsubscribe(i)
        BY <2>2, <3>3, <4>4 DEF unsubscribe, Goto, Subscription, Past
      <4>5. ~(SendError(i) \/ MarkEvents(i) \/ SendReady(i) \/ ClearEvents(i))
        BY <2>4 DEF SendError, MarkEvents, SendReady, ClearEvents, OneStream
      <4> QED BY <1>3, <4>1, <4>2, <4>3, <4>4, <4>5 DEF Stream
    <3> QED BY <2>1, <2>4, <3>1, <3>2, <3>3 DEF Subscription
  <2> QED BY <2>3, <2>4
<1>4. CASE AppendEvent \/ Emit
  <2>1. UNCHANGED <<endpoint, pc, subscribed, follows>>
    BY <1>4 DEF AppendEvent, Emit, emitEvent, EmitTarget, EmitWrite, streams, server
  <2>2. appender \in Appenders
    BY DEF Typed, LogTyped
  <2>3. CASE appender'.pc \notin {"target", "write"}
    BY <2>1, <2>3 DEF Subscription, Followed, OnlyFollow, Past
  <2>4. CASE emitEvent /\ subscribed
    <3>1. appender'.pc = "target"
      BY <2>2, <2>4 DEF emitEvent, Appenders
    <3> QED BY <2>1, <2>4, <3>1 DEF Subscription, Followed, OnlyFollow, Past
  <2>5. CASE EmitTarget
    <3>1. appender.pc = "target" /\ appender'.pc = "write" /\ appender'.to = follows
      BY <2>2, <2>5 DEF EmitTarget, Appenders
    <3> QED BY <2>1, <3>1 DEF Subscription, Followed, OnlyFollow, Past
  <2>6. CASE EmitWrite /\ appender' = appender
    BY <2>1, <2>6 DEF Subscription, Followed, OnlyFollow, Past
  <2>7. \/ appender'.pc \notin {"target", "write"} \/ (emitEvent /\ subscribed) \/ EmitTarget
        \/ (EmitWrite /\ appender' = appender)
    <3>1. AppendEvent => appender'.pc = "emit"
      BY DEF AppendEvent, Idle
    <3>2. emitEvent /\ ~subscribed => appender'.pc = "idle"
      BY DEF emitEvent, Idle
    <3>3. EmitWrite /\ appender' # appender => appender'.pc = "idle"
      BY DEF EmitWrite, Idle
    <3> QED BY <1>4, <3>1, <3>2, <3>3 DEF Emit
  <2> QED BY <2>3, <2>4, <2>5, <2>6, <2>7
<1> QED BY <1>1, <1>2, <1>3, <1>4, NextSplits

-----------------------------------------------------------------------------
(* What the browser has been shown.                                        *)

\* What has been shown stays shown, and a step that leaves a stream and the
\* log where they are covers what was covered.
LEMMA ShownStays ==
  ASSUME Typed, Next
  PROVE  \A id \in Ids : Shown(id) \subseteq Shown(id)'
<1>1. CASE UNCHANGED frames
  BY <1>1 DEF Shown
<1>2. ASSUME NEW to, NEW kind, NEW seq, [kind |-> kind, seq |-> seq] \in Frames,
             Delivers(to, kind, seq)
      PROVE  \A id \in Ids : Shown(id) \subseteq Shown(id)'
  BY <1>2, WriteShows
<1>3. CASE openUnknown
  BY <1>1, <1>2, <1>3 DEF openUnknown, writeLine, Frames
<1>4. CASE EmitWrite
  <2>1. [kind |-> "event", seq |-> appender.seq] \in Frames
    BY DEF Typed, LogTyped, Appenders, Frames
  <2> QED BY <1>1, <1>2, <1>4, <2>1 DEF EmitWrite, writeLine
<1>5. ASSUME NEW i \in Ids, Stream(i)
      PROVE  \A id \in Ids : Shown(id) \subseteq Shown(id)'
  <2>1. CASE SendError(i) \/ SendReady(i)
    BY <1>1, <1>2, <2>1 DEF SendError, SendReady, writeLine, Frames
  <2>2. CASE sendSnapshot(i)
    <3>1. [kind |-> "snapshot", seq |-> history[i]] \in Frames
      BY DEF Typed, StreamTyped, Frames
    <3> QED BY <1>1, <1>2, <2>2, <3>1 DEF sendSnapshot, writeLine
  <2>3. CASE ~(SendError(i) \/ SendReady(i) \/ sendSnapshot(i))
    BY <1>1, <1>5, <2>3 DEF Stream, Lookup, subscribe, ReadHistory, unsubscribe, MarkEvents,
                            ClearEvents
  <2> QED BY <2>1, <2>2, <2>3
<1>6. CASE Browser \/ Refuse \/ Pinger \/ AppendEvent \/ emitEvent \/ EmitTarget
  BY <1>1, <1>6 DEF Browser, Refuse, Pinger, PingFails, PingCloses, AppendEvent, emitEvent,
                    EmitTarget
<1>7. CASE ReaderEnds \/ \E id \in Ids : cancelStream(id) \/ \E e \in Endpoints : openStream(id, e)
  BY <1>1, <1>3, <1>7 DEF ReaderEnds, protoClose, ReadFails, CloseConn, DropFromHub, CancelNext,
                          cancelStream, openStream
<1> QED BY <1>3, <1>4, <1>5, <1>6, <1>7 DEF Next, Reader, Emit

LEMMA CompleteKept ==
  ASSUME Typed, ClosedIsGone, OneStream, Subscription, Complete, Next
  PROVE  Complete'
<1> DEFINE Whole(id) ==
      Followed(id) /\ pc[id] \in {"snapshot", "live"} /\ peer # "gone" =>
        (1..log) \ {appender.seq} \subseteq Covered(id)
<1> DEFINE Rest == appender.pc = "idle" => appender.seq = 0
<1>1. peer' # "gone" => peer # "gone"
  BY GoneForGood
<1>2. \A id \in Ids : Shown(id) \subseteq Shown(id)'
  BY ShownStays
<1>3. Complete <=> Rest /\ \A id \in Ids : Whole(id)
  BY DEF Complete
<1>4. Complete' <=> Rest' /\ \A id \in Ids : Whole(id)'
  BY DEF Complete
<1>5. ASSUME NEW id \in Ids, Followed(id)' => Followed(id), pc'[id] = pc[id],
             history'[id] = history[id], log' = log, appender' = appender
      PROVE  Whole(id)'
  <2>1. Covered(id) \subseteq Covered(id)'
    BY <1>2, <1>5 DEF Covered
  <2> QED BY <1>1, <1>3, <1>5, <2>1
<1>6. CASE ConnOnly
  <2>1. UNCHANGED <<endpoint, pc, history, log, appender>>
    BY <1>6, ConnOnlyLeaves
  <2>2. \A id \in Ids : Followed(id)' => Followed(id)
    BY <2>1 DEF Followed, OnlyFollow
  <2> QED BY <1>3, <1>4, <1>5, <2>1, <2>2
<1>7. ASSUME NEW i \in Ids, NEW e \in Endpoints, openStream(i, e)
      PROVE  Complete'
  <2>1. /\ pc'[i] \in {"mark", "lookup"}
        /\ \A id \in Ids \ {i} : pc'[id] = pc[id]
        /\ UNCHANGED <<history, log, appender>>
    BY <1>7, OpenStarts
  <2>2. \A id \in Ids \ {i} : Whole(id)'
    BY <1>5, <1>7, <2>1, OpenKeepsFollowed
  <2>3. Whole(i)'
    BY <2>1
  <2> QED BY <1>3, <1>4, <2>1, <2>2, <2>3
<1>8. ASSUME NEW i \in Ids, Stream(i)
      PROVE  Complete'
  <2>1. /\ endpoint' = endpoint /\ log' = log /\ appender' = appender
        /\ \A id \in Ids \ {i} : pc'[id] = pc[id] /\ history'[id] = history[id]
    BY <1>8, StreamMoves
  <2>2. pc \in [Ids -> Places] /\ history \in [Ids -> 0..MaxEvents]
    BY DEF Typed, StreamTyped
  <2>3. \A id \in Ids : Followed(id)' => Followed(id)
    BY <2>1 DEF Followed, OnlyFollow
  <2>4. \A id \in Ids \ {i} : Whole(id)'
    BY <1>5, <2>1, <2>3
  <2>5. Whole(i)'
    <3>1. CASE endpoint[i] # "follow"
      BY <2>1, <3>1 DEF Followed
    <3>2. CASE Lookup(i) \/ subscribe(i) \/ unsubscribe(i)
      <4>1. pc'[i] \in {"subscribe", "history", "done"}
        BY <2>2, <3>2 DEF Lookup, subscribe, unsubscribe, Goto
      <4> QED BY <4>1
    <3>3. CASE ReadHistory(i)
      <4>1. pc'[i] = "snapshot" /\ history'[i] = log
        BY <2>2, <3>3 DEF ReadHistory, Goto
      <4> QED BY <2>1, <4>1 DEF Covered
    <3>4. CASE sendSnapshot(i) /\ UNCHANGED pc
      <4>1. pc'[i] = pc[i] /\ history'[i] = history[i]
        BY <3>4 DEF sendSnapshot
      <4> QED BY <1>5, <2>1, <2>3, <4>1
    <3>5. CASE /\ sendSnapshot(i)
               /\ writeLine(i, i, "snapshot", history[i]) /\ Goto(i, "live")
      <4>1. [kind |-> "snapshot", seq |-> history[i]] \in Frames
        BY <2>2 DEF Frames
      <4>2. peer # "gone" => 1..history[i] \subseteq Shown(i)'
        BY <3>5, <4>1, WriteArrives, WriteShows DEF writeLine
      <4>3. pc[i] = "snapshot" /\ pc'[i] = "live"
        BY <2>2, <3>5 DEF sendSnapshot, Goto
      <4>4. peer # "gone" => Covered(i) \subseteq Covered(i)'
        <5>1. Covered(i) = Shown(i) \cup 1..history[i] /\ Covered(i)' = Shown(i)'
          BY <4>3 DEF Covered
        <5> QED BY <1>2, <4>2, <5>1
      <4>5. Followed(i)' => Followed(i)
        BY <2>3
      <4> QED BY <1>1, <1>3, <2>1, <4>3, <4>4, <4>5
    <3>6. endpoint[i] = "follow" =>
             ~(SendError(i) \/ MarkEvents(i) \/ SendReady(i) \/ ClearEvents(i))
      BY DEF SendError, MarkEvents, SendReady, ClearEvents, OneStream
    <3> QED BY <1>8, <3>1, <3>2, <3>3, <3>4, <3>5, <3>6 DEF Stream, sendSnapshot
  <2> QED BY <1>3, <1>4, <2>1, <2>4, <2>5
<1>9. CASE AppendEvent \/ Emit
  <2>1. UNCHANGED <<endpoint, pc, history, subscribed>>
    BY <1>9 DEF AppendEvent, Emit, emitEvent, EmitTarget, EmitWrite, streams, server
  <2>2. \A id \in Ids : (Followed(id)' <=> Followed(id)) /\ Covered(id) \subseteq Covered(id)'
    BY <1>2, <2>1 DEF Followed, OnlyFollow, Covered
  <2>3. appender \in Appenders /\ log \in 0..MaxEvents
    BY DEF Typed, LogTyped
  <2>4. CASE AppendEvent
    <3>1. log' = log + 1 /\ appender'.pc = "emit" /\ appender'.seq = log + 1 /\ appender.seq = 0
      BY <1>3, <2>4 DEF AppendEvent, Idle
    <3>2. (1..log') \ {appender'.seq} \subseteq (1..log) \ {appender.seq}
      BY <2>3, <3>1, StreamsAssumption
    <3> QED BY <1>1, <1>3, <1>4, <2>1, <2>2, <3>1, <3>2
  <2>5. CASE emitEvent /\ ~subscribed
    <3>1. appender' = Idle /\ log' = log
      BY <2>5 DEF emitEvent
    <3>2. \A id \in Ids : Followed(id) => pc[id] \notin {"snapshot", "live"}
      BY <2>5 DEF Subscription, Past
    <3> QED BY <1>4, <2>1, <2>2, <3>1, <3>2 DEF Idle
  <2>6. CASE (emitEvent /\ subscribed) \/ EmitTarget
    <3>1. appender'.pc # "idle" /\ appender'.seq = appender.seq /\ log' = log
      BY <2>3, <2>6 DEF emitEvent, EmitTarget, Appenders
    <3> QED BY <1>1, <1>3, <1>4, <2>1, <2>2, <3>1
  <2>7. CASE EmitWrite
    <3>1. CASE appender' = appender
      BY <1>1, <1>3, <1>4, <2>1, <2>2, <2>7, <3>1 DEF EmitWrite
    <3>2. CASE writeLine("appender", appender.to, "event", appender.seq) /\ appender' = Idle
      <4>1. [kind |-> "event", seq |-> appender.seq] \in Frames
        BY <2>3 DEF Appenders, Frames
      <4>2. appender.pc = "write" /\ log' = log /\ appender'.pc = "idle" /\ appender'.seq = 0
        BY <2>7, <3>2 DEF EmitWrite, Idle
      <4>3. \A id \in Ids : peer # "gone" /\ appender.to = id => appender.seq \in Shown(id)'
        BY <3>2, <4>1, WriteArrives, WriteShows DEF writeLine
      <4>4. ASSUME NEW id \in Ids, Followed(id), pc[id] \in {"snapshot", "live"}, peer # "gone"
            PROVE  1..log \subseteq Covered(id)'
        <5>1. appender.to = id
          BY <4>2, <4>4 DEF Subscription, Past
        <5>2. (1..log) \ {appender.seq} \subseteq Covered(id)
          BY <1>3, <4>4
        <5>3. appender.seq \in Covered(id)'
          BY <4>3, <4>4, <5>1 DEF Covered
        <5> QED BY <2>2, <5>2, <5>3
      <4> QED BY <1>1, <1>4, <2>1, <2>2, <4>2, <4>4
    <3> QED BY <2>7, <3>1, <3>2 DEF EmitWrite
  <2> QED BY <1>9, <2>4, <2>5, <2>6, <2>7 DEF Emit
<1> QED BY <1>6, <1>7, <1>8, <1>9, NextSplits

-----------------------------------------------------------------------------
(* The theorems.                                                           *)

LEMMA InitEstablishes == Init => IInv
<1>1. Init => Typed
  <2>1. Init => ConnTyped /\ ServerTyped
    BY DEF Init, ConnTyped, ServerTyped
  <2>2. Init => StreamTyped
    BY StreamsAssumption DEF Init, StreamTyped, Places
  <2>3. Idle \in Appenders /\ 0 \in 0..MaxEvents
    BY StreamsAssumption DEF Idle, Appenders
  <2>4. << >> \in Seq(Frames)
    OBVIOUS
  <2>5. Init => LogTyped
    BY <2>3, <2>4 DEF Init, LogTyped
  <2> QED BY <2>1, <2>2, <2>5 DEF Typed
<1>2. Init => ClosedIsGone /\ OneStream
  BY DEF Init, ClosedIsGone, OneStream
<1>3. Init => Subscription
  BY DEF Init, Idle, Subscription, Followed
<1>4. Init => Complete
  BY DEF Init, Idle, Complete, Followed
<1> QED BY <1>1, <1>2, <1>3, <1>4 DEF IInv

LEMMA StutterKeeps ==
  ASSUME IInv, UNCHANGED vars
  PROVE  IInv'
<1>1. /\ UNCHANGED <<peer, reader, pinger, open, writer, registered, sweep, shut>>
      /\ UNCHANGED <<endpoint, pc, history, subscribed, follows, events, inHub>>
      /\ UNCHANGED <<log, appender, frames>>
  BY DEF vars, conn, streams, server
<1>2. Typed'
  BY <1>1 DEF IInv, Typed, ConnTyped, StreamTyped, ServerTyped, LogTyped
<1>3. ClosedIsGone' /\ OneStream' /\ Subscription'
  BY <1>1 DEF IInv, ClosedIsGone, OneStream, Subscription, Followed, OnlyFollow, Past
<1>4. Complete'
  BY <1>1 DEF IInv, Complete, Followed, OnlyFollow, Covered, Shown
<1> QED BY <1>2, <1>3, <1>4 DEF IInv

LEMMA Invariance == Spec => []IInv
<1>1. IInv /\ [Next]_vars => IInv'
  BY StutterKeeps, StepTyped, ClosedKept, OneStreamKept, SubscriptionKept, CompleteKept DEF IInv
<1> QED BY InitEstablishes, <1>1, PTL DEF Spec

\* The variables of a connection, of its streams and of the session keep
\* their types.
THEOREM StreamsTypeCorrect == Spec => []TypeOK
<1>1. IInv => TypeOK
  BY TypedIsTypeOK DEF IInv
<1> QED BY <1>1, Invariance, PTL

\* A browser that follows a session once has been shown every event but the
\* one being pushed, however its stream was opened while the session went on
\* (runFollow, emitEvent).
THEOREM FollowersMissNothing == Spec => []NothingMissed
<1>1. IInv => NothingMissed
  <2> SUFFICES ASSUME IInv, NEW id \in Ids, Followed(id), pc[id] = "live", peer # "gone"
               PROVE  (1..log) \ {appender.seq} \subseteq Shown(id)
    BY DEF NothingMissed, Followed
  <2> QED BY DEF IInv, Complete, Covered
<1> QED BY <1>1, Invariance, PTL
=============================================================================
