------------------------------ MODULE Approvals ------------------------------
(***************************************************************************)
(* Asking the browser whether a tool call may leave its sandbox: the bash  *)
(* tool (tools/bash.go, sandbox/approval.go), the waterfall that carries   *)
(* the question to every $events client (server/waterfall.go, approver.go) *)
(* and the $events/result calls that carry the answers back.               *)
(*                                                                         *)
(* Calls of different sessions wait at the same time, clients come and go  *)
(* or stop reading, answers may be late, repeated or of somebody who was   *)
(* never asked, and a user may cancel the turn.                            *)
(***************************************************************************)
EXTENDS Naturals, Sequences, FiniteSets, SequencesExt

CONSTANTS
  Clients,    (* browsers                                              *)
  Calls,      (* tool calls; each is an eventId of its own             *)
  MaxPosts,   (* bound: answers that are sent                          *)
  MaxJoins    (* bound: connections that are made                      *)

ASSUME ApprovalsAssumption ==
  IsFiniteSet(Clients) /\ MaxPosts \in Nat /\ MaxJoins \in Nat

VARIABLES
  sandbox,    (* SandboxOptions: standing mode, policy, approver       *)
  online,     (* clients with an open $events stream (eventsConns)     *)
  deaf,       (* those of them that do not read                        *)
  dialogs,    (* the questions each client is showing                  *)
  call,       (* the goroutine of each tool call                       *)
  waterfall,  (* the waterfall struct of each call                     *)
  writing,    (* the client each call is writing a frame to            *)
  ch,         (* its channel, of capacity one                          *)
  posts,      (* $events/result calls that have looked up a waterfall  *)
  answers,    (* ghost: the answers each waterfall adopted, in order   *)
  spent       (* answers sent and connections made                     *)

vars == <<sandbox, online, deaf, dialogs, call, waterfall, writing, ch, posts, answers, spent>>

Modes == {"read-only", "workspace-write", "danger-full-access"}
WiderModes(m) ==
  CASE m = "read-only" -> {"workspace-write", "danger-full-access"}
    [] m = "workspace-write" -> {"danger-full-access"}
    [] OTHER -> {}

\* What a browser can send: not mine, one of the two values (an error counts
\* as the second), or a value outside the set.
Outcomes == {"next", "allowed-once", "rejected", "other"}

Ended == {"ran", "refused"}

Init ==
  /\ sandbox \in [mode : Modes, policy : {"ask", "never"}, approver : BOOLEAN]
  /\ online = {} /\ deaf = {}
  /\ dialogs = [c \in Clients |-> {}]
  /\ call = [e \in Calls |-> [pc |-> "off", want |-> "none", mode |-> "none", cancelled |-> FALSE]]
  /\ waterfall = [e \in Calls |-> [listed |-> FALSE, settled |-> FALSE, nextCount |-> 0,
                                   totalConns |-> 0, todo |-> {}, delivered |-> {}]]
  /\ writing = [e \in Calls |-> "none"]
  /\ ch = [e \in Calls |-> "empty"]
  /\ posts = {}
  /\ answers = [e \in Calls |-> <<>>]
  /\ spent = [posts |-> 0, joins |-> 0]

-----------------------------------------------------------------------------
(* The browsers.                                                           *)

Join(c) ==
  /\ c \notin online /\ spent.joins < MaxJoins
  /\ online' = online \cup {c}
  /\ spent' = [spent EXCEPT !.joins = @ + 1]
  /\ UNCHANGED <<sandbox, deaf, dialogs, call, waterfall, writing, ch, posts, answers>>

Leave(c) ==
  /\ c \in online
  /\ online' = online \ {c} /\ deaf' = deaf \ {c}
  /\ dialogs' = [dialogs EXCEPT ![c] = {}]
  /\ UNCHANGED <<sandbox, call, waterfall, writing, ch, posts, answers, spent>>

\* A browser stops reading its socket, or reads on.
StopsReading(c) ==
  /\ c \in online
  /\ deaf' = IF c \in deaf THEN deaf \ {c} ELSE deaf \cup {c}
  /\ UNCHANGED <<sandbox, online, dialogs, call, waterfall, writing, ch, posts, answers, spent>>

\* rpcEventsResult: anybody may answer any question, asked or not, connected
\* or not.  submitResult first looks the waterfall up: an unknown eventId is
\* dropped, an unknown clientId is not.
Post(c, e, outcome) ==
  /\ spent.posts < MaxPosts
  /\ spent' = [spent EXCEPT !.posts = @ + 1]
  /\ posts' = IF waterfall[e].listed
              THEN posts \cup {[client |-> c, event |-> e, kind |-> outcome, nr |-> spent.posts]}
              ELSE posts
  /\ UNCHANGED <<sandbox, online, deaf, dialogs, call, waterfall, writing, ch, answers>>

\* The user cancels the turn: the context of the call is done.
Cancel(e) ==
  /\ call[e].pc \notin {"off"} \cup Ended /\ ~call[e].cancelled
  /\ call' = [call EXCEPT ![e].cancelled = TRUE]
  /\ UNCHANGED <<sandbox, online, deaf, dialogs, waterfall, writing, ch, posts, answers, spent>>

-----------------------------------------------------------------------------
(* submitResult, under waterfall.mu.                                       *)

Send(e, kind) == ch' = IF ch[e] = "empty" THEN [ch EXCEPT ![e] = kind] ELSE ch

Adopt(p) == answers' = [answers EXCEPT ![p.event] = Append(@, p)]

SubmitNext(p) ==
  LET w == waterfall[p.event]
      all == w.totalConns > 0 /\ w.nextCount + 1 >= w.totalConns
  IN  /\ p.kind = "next" /\ ~w.settled
      /\ waterfall' = [waterfall EXCEPT ![p.event].nextCount = @ + 1, ![p.event].settled = all]
      /\ IF all THEN Send(p.event, "next") ELSE UNCHANGED ch
      /\ Adopt(p)

SubmitAnswer(p) ==
  /\ p.kind # "next" /\ ~waterfall[p.event].settled
  /\ waterfall' = [waterfall EXCEPT ![p.event].settled = TRUE]
  /\ Send(p.event, p.kind)
  /\ Adopt(p)

submitResult(p) ==
  /\ p \in posts
  /\ posts' = posts \ {p}
  /\ \/ waterfall[p.event].settled /\ UNCHANGED <<waterfall, ch, answers>>
     \/ SubmitNext(p) \/ SubmitAnswer(p)
  /\ UNCHANGED <<sandbox, online, deaf, dialogs, call, writing, spent>>

-----------------------------------------------------------------------------
(* The tool call: runBashSandboxed, ApproveEscalation, dispatchWaterfall.  *)

\* ApproveEscalation reaches the approver.
Asks(want) ==
  /\ want \in WiderModes(sandbox.mode)
  /\ sandbox.approver /\ sandbox.policy = "ask"

\* A call that wants no wider mode runs in the standing one.
RunPlain(e) ==
  /\ call[e].pc = "off"
  /\ call' = [call EXCEPT ![e].pc = "ran", ![e].mode = sandbox.mode]
  /\ UNCHANGED <<sandbox, online, deaf, dialogs, waterfall, writing, ch, posts, answers, spent>>

\* ValidateEscalationArgs or ApproveEscalation turns it down unasked.
RefuseUnasked(e, want) ==
  /\ call[e].pc = "off" /\ ~Asks(want)
  /\ call' = [call EXCEPT ![e].pc = "refused"]
  /\ UNCHANGED <<sandbox, online, deaf, dialogs, waterfall, writing, ch, posts, answers, spent>>

\* dispatchWaterfall lists the waterfall and takes the clients to ask.
dispatchWaterfall(e, want) ==
  /\ call[e].pc = "off" /\ Asks(want)
  /\ call' = [call EXCEPT ![e].pc = "asking", ![e].want = want]
  /\ waterfall' = [waterfall EXCEPT ![e].listed = TRUE,
                                    ![e].totalConns = Cardinality(online),
                                    ![e].todo = online]
  /\ UNCHANGED <<sandbox, online, deaf, dialogs, writing, ch, posts, answers, spent>>

\* The loop over the clients takes the next one: writeLine begins.
TurnTo(e, c) ==
  /\ call[e].pc \in {"asking", "cancelling"}
  /\ writing[e] = "none" /\ c \in waterfall[e].todo
  /\ writing' = [writing EXCEPT ![e] = c]
  /\ UNCHANGED <<sandbox, online, deaf, dialogs, call, waterfall, ch, posts, answers, spent>>

\* A write has no deadline: it returns once the client reads, or fails once
\* the client has left.
Written(e, c) == writing[e] = c /\ c \notin deaf

\* A client that could not be told stays counted.
Deliver(e, c) ==
  /\ call[e].pc = "asking" /\ Written(e, c)
  /\ writing' = [writing EXCEPT ![e] = "none"]
  /\ waterfall' = [waterfall EXCEPT ![e].todo = @ \ {c},
                                    ![e].delivered = IF c \in online THEN @ \cup {c} ELSE @]
  /\ dialogs' = IF c \in online THEN [dialogs EXCEPT ![c] = @ \cup {e}] ELSE dialogs
  /\ UNCHANGED <<sandbox, online, deaf, call, ch, posts, answers, spent>>

\* Only when every client has been written to does the timer start.
Waiting(e) == call[e].pc = "asking" /\ waterfall[e].todo = {}

\* A cancelled context keeps the process from starting.
Proceed(e, mode) ==
  IF call[e].cancelled
  THEN [call EXCEPT ![e].pc = "refused"]
  ELSE [call EXCEPT ![e].pc = "ran", ![e].mode = mode]

\* Mutant: only an explicit rejection keeps the call in.
AllowsUnlessRejected(kind) == kind # "rejected"

\* waterfallApprover.Request: whatever is not the one permission is a refusal.
Allows(kind) == kind = "allowed-once"

\* The outcome arrives; the waterfall is unlisted on return.
Receive(e) ==
  /\ Waiting(e) /\ ch[e] # "empty"
  /\ ch' = [ch EXCEPT ![e] = "empty"]
  /\ waterfall' = [waterfall EXCEPT ![e].listed = FALSE]
  /\ call' = IF Allows(ch[e]) THEN Proceed(e, call[e].want) ELSE [call EXCEPT ![e].pc = "refused"]
  /\ UNCHANGED <<sandbox, online, deaf, dialogs, writing, posts, answers, spent>>

\* Mutant: the timer runs only when somebody was asked.
TimeoutWhenAsked(e) ==
  /\ Waiting(e) /\ waterfall[e].delivered # {}
  /\ call' = [call EXCEPT ![e].pc = "cancelling"]
  /\ waterfall' = [waterfall EXCEPT ![e].todo = online]
  /\ UNCHANGED <<sandbox, online, deaf, dialogs, writing, ch, posts, answers, spent>>

\* Mutant: the timeout is not announced.
TimeoutSilently(e) ==
  /\ Waiting(e)
  /\ call' = [call EXCEPT ![e].pc = "cancelling"]
  /\ UNCHANGED <<sandbox, online, deaf, dialogs, waterfall, writing, ch, posts, answers, spent>>

\* waterfallTimeout: the clients of this moment are told to drop the question.
Timeout(e) ==
  /\ Waiting(e)
  /\ call' = [call EXCEPT ![e].pc = "cancelling"]
  /\ waterfall' = [waterfall EXCEPT ![e].todo = online]
  /\ UNCHANGED <<sandbox, online, deaf, dialogs, writing, ch, posts, answers, spent>>

broadcastEventsCancel(e, c) ==
  /\ call[e].pc = "cancelling" /\ Written(e, c)
  /\ writing' = [writing EXCEPT ![e] = "none"]
  /\ waterfall' = [waterfall EXCEPT ![e].todo = @ \ {c}]
  /\ dialogs' = [dialogs EXCEPT ![c] = @ \ {e}]
  /\ UNCHANGED <<sandbox, online, deaf, call, ch, posts, answers, spent>>

GiveUp(e) ==
  /\ call[e].pc = "cancelling" /\ waterfall[e].todo = {}
  /\ waterfall' = [waterfall EXCEPT ![e].listed = FALSE]
  /\ call' = [call EXCEPT ![e].pc = "refused"]
  /\ UNCHANGED <<sandbox, online, deaf, dialogs, writing, ch, posts, answers, spent>>

Progress(e) ==
  \/ Receive(e) \/ Timeout(e) \/ GiveUp(e)
  \/ \E c \in Clients : TurnTo(e, c) \/ Deliver(e, c) \/ broadcastEventsCancel(e, c)

-----------------------------------------------------------------------------
Next ==
  \/ \E c \in Clients :
       \/ Join(c) \/ Leave(c) \/ StopsReading(c)
       \/ \E e \in Calls, outcome \in Outcomes : Post(c, e, outcome)
  \/ \E p \in posts : submitResult(p)
  \/ \E e \in Calls :
       \/ Cancel(e) \/ RunPlain(e) \/ Progress(e)
       \/ \E want \in Modes : RefuseUnasked(e, want) \/ dispatchWaterfall(e, want)

\* The goroutine of a call goes on while it can; a write gets through to a
\* client that reads again and again.
Spec == Init /\ [][Next]_vars /\ \A e \in Calls : SF_vars(Progress(e))

-----------------------------------------------------------------------------
CallStates == [pc : {"off", "asking", "cancelling"} \cup Ended, want : Modes \cup {"none"},
               mode : Modes \cup {"none"}, cancelled : BOOLEAN]
Waterfalls == [listed : BOOLEAN, settled : BOOLEAN, nextCount : Nat,
               totalConns : 0..Cardinality(Clients), todo : SUBSET Clients,
               delivered : SUBSET Clients]
Posts == [client : Clients, event : Calls, kind : Outcomes, nr : 0..MaxPosts]
Spent == [posts : 0..MaxPosts, joins : 0..MaxJoins]

TypeOK ==
  /\ sandbox \in [mode : Modes, policy : {"ask", "never"}, approver : BOOLEAN]
  /\ online \subseteq Clients /\ deaf \subseteq online
  /\ dialogs \in [Clients -> SUBSET Calls]
  /\ call \in [Calls -> CallStates]
  /\ waterfall \in [Calls -> Waterfalls]
  /\ writing \in [Calls -> Clients \cup {"none"}]
  /\ ch \in [Calls -> Outcomes \cup {"empty"}]
  /\ posts \subseteq Posts
  /\ answers \in [Calls -> Seq(Posts)]
  /\ spent \in Spent

\* The first verdict adopted, an answer other than "not mine", is a permission.
Approved(e) ==
  \E i \in DOMAIN answers[e] :
    /\ answers[e][i].kind = "allowed-once"
    /\ \A j \in 1..(i - 1) : answers[e][j].kind = "next"

\* A command runs in a wider mode than the standing one only if the policy
\* lets the user be asked and the first verdict on this very question allowed
\* it, however many answer, late, twice or uninvited.
RunsAsApproved ==
  \A e \in Calls :
    call[e].pc = "ran" /\ call[e].mode # sandbox.mode =>
      /\ call[e].mode \in WiderModes(sandbox.mode) /\ sandbox.policy = "ask"
      /\ Approved(e)

\* No answer has been taken from the channel of the question.
Unheard(e) == ~waterfall[e].settled \/ ch[e] # "empty"

\* A question whose time ran out leaves every screen, whatever was answered
\* short of a verdict or too late: no browser goes on showing it once the call
\* has been given up.
DialogsCleared ==
  \A e \in Calls, c \in Clients :
    call[e].pc = "refused" /\ Unheard(e) => e \notin dialogs[c]

\* A call that asks ends, whoever is there to answer, unless it is for ever
\* writing to a browser that has stopped reading and not left: the timer runs
\* only after the writes, and they have no deadline (waterfall.go:90).
CallsEnd ==
  \A e \in Calls :
    [](call[e].pc \in {"asking", "cancelling"} =>
         <>(call[e].pc \in Ended) \/ <>[](writing[e] \in deaf))

\* waterfall.go:99: the wait is guarded by a timeout, so that a client that
\* is lost to the host cannot hang it.
LostClientsCannotHang ==
  \A e \in Calls : call[e].pc = "asking" ~> call[e].pc \in Ended

\* waterfall.go:8, waterfall.go:123, rpc.go:300, ws-protocol.md:200: the result
\* of a client the host does not know is dropped.
AnswersFromAsked ==
  \A e \in Calls : \A i \in DOMAIN answers[e] :
    answers[e][i].client \in waterfall[e].delivered

\* ws-protocol.md:197, waterfall.go:139: "next" settles a waterfall when all
\* the clients it was delivered to have said so.
NextIsUnanimous ==
  \A e \in Calls :
    waterfall[e].settled /\ (\A i \in DOMAIN answers[e] : answers[e][i].kind = "next") =>
      \A c \in waterfall[e].delivered : \E i \in DOMAIN answers[e] : answers[e][i].client = c

\* approval.go:52: a cancelled call is not granted anything.
CancelledIsNotGranted ==
  \A e \in Calls : call[e].cancelled => ~(Waiting(e) /\ ch[e] = "allowed-once")
=============================================================================
