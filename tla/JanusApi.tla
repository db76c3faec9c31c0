------------------------------ MODULE JanusApi ------------------------------
(***************************************************************************)
(* One janusAPI session (janus/api.go): the calls its client goroutines    *)
(* make, the polling goroutine Create starts, and the Janus server at the  *)
(* other end of the HTTP requests.                                         *)
(*                                                                         *)
(* A message call has two answers: the HTTP response ("ack") and, later or *)
(* sooner, an event with the same transaction id that only the poller      *)
(* reads and hands to the caller through a channel with one slot.          *)
(*                                                                         *)
(* A transaction id is used by one call, so what the call is (its          *)
(* operation, its handle) is a function of the id.                         *)
(***************************************************************************)
EXTENDS Naturals, Sequences, FiniteSets

CONSTANTS
  Tid,        \* what newTransactionID returns
  OpOf,       \* [Tid -> Op]: the operation a transaction is for
  HandleOf,   \* [Tid -> Handle]: the handle it names; for attach the new one
  Handle,     \* plugin handle ids
  Notices,    \* the unsolicited events the server sends
  MaxNotices, \* how many of them (bounds the model)
  NoTid       \* the transaction of an unsolicited event

\* The calls answered by an event, and those the HTTP response answers.
MessageOp == {"JoinAsPublisher", "Publish", "JoinAsSubscribe", "Subscribe"}
Op == MessageOp \cup {"AttachPlugin", "DetachPlugin", "UnPublish"}
Notice == {"publishers", "unpublished", "leaving", "webrtcup", "media",
           "slowlink", "detached"}

\* The videoroom field of an answer: "found" is a "joined" whose publishers
\* list is not empty, "started" an "event" with started = "ok", "error" a
\* message that is no event.
Verdict == {"joined", "found", "attached", "started", "event", "error"}

ASSUME ConstantsAssumption ==
  /\ OpOf \in [Tid -> Op]
  /\ HandleOf \in [Tid -> Handle]
  /\ Notices \subseteq Notice
  /\ MaxNotices \in Nat
  /\ NoTid \notin Tid

\* The check each call makes of the event that answers it.
Accepted(op) ==
  CASE op = "JoinAsPublisher" -> {"joined", "found"}
    [] op = "Publish"         -> {"event", "started"}
    [] op = "JoinAsSubscribe" -> {"attached"}
    [] op = "Subscribe"       -> {"started"}
    [] OTHER                  -> Verdict

Accepts(t, v) == v \in Accepted(OpOf[t])

\* The answers to an operation; where it is not expected "event" is an error
\* of the plugin.
Answers(op) ==
  CASE op = "JoinAsPublisher" -> {"joined", "found", "event"}
    [] op = "Publish"         -> {"event", "error"}
    [] op = "JoinAsSubscribe" -> {"attached", "event"}
    [] op = "Subscribe"       -> {"started", "event"}
    [] OTHER                  -> {"event"}

VARIABLES
  ctx,         \* the context of the caller of Create
  pollingCtx,  \* its child, made by Create
  poller,      \* where the polling goroutine is
  held,        \* the event it has read and not yet dealt with, or Idle
  closing,     \* progress of Close
  handles,     \* the keys of v.handles
  registered,  \* the keys of v.replies
  channel,     \* [Tid -> Seq(Verdict)]: janusReply.replies
  call,        \* [Tid -> CallState]
  wire,        \* [Tid -> WireState]: the HTTP exchange of the request
  verdict,     \* [Tid -> Verdict or "none"]: what the server decided
  events,      \* the events the server has queued for the session
  handled      \* [Notice -> Nat]: callbacks handleCall has made

client == <<handles, registered, call>>
polling == <<poller, held>>
server == <<wire, verdict, events>>
control == <<ctx, pollingCtx, closing>>
vars == <<control, polling, client, channel, server, handled>>

CallState == {"unused", "http", "wait", "ok", "fail", "canceled"}
WireState == {"none", "sent", "ack", "refused"}
Returned == {"ok", "fail", "canceled"}

Event == [tid : Tid, kind : Verdict] \cup [tid : {NoTid}, kind : Notice]
Idle == [tid |-> NoTid, kind |-> "none"]

TypeOK ==
  /\ ctx \in {"live", "done"}
  /\ pollingCtx \in {"nil", "live", "done"}
  /\ closing \in {"no", "waiting", "closed"}
  /\ poller \in {"none", "poll", "held", "done"}
  /\ IF poller = "held" THEN held \in Event ELSE held = Idle
  /\ handles \subseteq Handle
  /\ registered \subseteq Tid
  /\ channel \in [Tid -> Seq(Verdict)]
  /\ call \in [Tid -> CallState]
  /\ wire \in [Tid -> WireState]
  /\ verdict \in [Tid -> Verdict \cup {"none"}]
  /\ events \in Seq(Event)
  /\ handled \in [Notice -> Nat]

Init ==
  /\ ctx = "live" /\ pollingCtx = "nil" /\ closing = "no"
  /\ poller = "none" /\ held = Idle
  /\ handles = {} /\ registered = {}
  /\ channel = [t \in Tid |-> <<>>]
  /\ call = [t \in Tid |-> "unused"]
  /\ wire = [t \in Tid |-> "none"]
  /\ verdict = [t \in Tid |-> "none"]
  /\ events = <<>>
  /\ handled = [n \in Notice |-> 0]

\* Create succeeded: its callers go on, and Close only, in that case.
HasSession == poller # "none"

-----------------------------------------------------------------------------
(* Contexts: pollingCtx is a child of ctx, so canceling ctx cancels both.   *)

Cancel ==
  /\ ctx = "live"
  /\ ctx' = "done"
  /\ pollingCtx' = IF pollingCtx = "live" THEN "done" ELSE pollingCtx
  /\ UNCHANGED <<closing, polling, client, channel, server, handled>>

\* Create asks the server for a session and, when it answers, starts the
\* poller.  When it does not, pollingCtx exists and no goroutine does.
Create ==
  /\ pollingCtx = "nil"
  /\ \/ /\ ctx = "live"
        /\ pollingCtx' = "live"
        /\ poller' = "poll" /\ held' = Idle
     \/ /\ pollingCtx' = IF ctx = "live" THEN "live" ELSE "done"
        /\ UNCHANGED polling
  /\ UNCHANGED <<ctx, closing, client, channel, server, handled>>

\* Close cancels the polling, then waits for the poller.
Close ==
  /\ HasSession /\ closing = "no"
  /\ closing' = "waiting" /\ pollingCtx' = "done"
  /\ UNCHANGED <<ctx, polling, client, channel, server, handled>>

CloseReturn ==
  /\ closing = "waiting" /\ poller = "done"
  /\ closing' = "closed"
  /\ UNCHANGED <<ctx, pollingCtx, polling, client, channel, server, handled>>

-----------------------------------------------------------------------------
(* The calls. Every one sends a POST; a message call first registers the    *)
(* channel for the event that answers it.                                   *)

Post(t) ==
  /\ HasSession /\ call[t] = "unused"
  /\ call' = [call EXCEPT ![t] = "http"]
  /\ wire' = [wire EXCEPT ![t] = "sent"]
  /\ UNCHANGED <<control, polling, handles, channel, verdict, events, handled>>

\* Mutant: the channel is not stored before the request is sent.
RegisterNothing(t) == t \in Tid /\ UNCHANGED registered

Register(t) == registered' = registered \cup {t}

SendMessage(t) ==
  /\ HandleOf[t] \in handles
  /\ Post(t) /\ Register(t)

JoinAsPublisher(t) == OpOf[t] = "JoinAsPublisher" /\ SendMessage(t)
Publish(t)         == OpOf[t] = "Publish"         /\ SendMessage(t)
JoinAsSubscribe(t) == OpOf[t] = "JoinAsSubscribe" /\ SendMessage(t)
Subscribe(t)       == OpOf[t] = "Subscribe"       /\ SendMessage(t)

AttachPlugin(t) ==
  /\ OpOf[t] = "AttachPlugin"
  /\ Post(t) /\ UNCHANGED registered

DetachPlugin(t) ==
  /\ OpOf[t] = "DetachPlugin" /\ HandleOf[t] \in handles
  /\ Post(t) /\ UNCHANGED registered

UnPublish(t) ==
  /\ OpOf[t] = "UnPublish" /\ HandleOf[t] \in handles
  /\ Post(t) /\ UNCHANGED registered

\* Any call, from the return of Create on.
Begin(t) ==
  /\ HasSession
  /\ \/ AttachPlugin(t) \/ DetachPlugin(t) \/ UnPublish(t)
     \/ JoinAsPublisher(t) \/ Publish(t) \/ JoinAsSubscribe(t) \/ Subscribe(t)

\* Mutant: a message call is done when it is acknowledged.
HttpResponseNoWait(t) ==
  /\ call[t] = "http" /\ wire[t] = "ack"
  /\ call' = [call EXCEPT ![t] = "ok"]
  /\ handles' = handles \cup {HandleOf[t]}
  /\ UNCHANGED <<control, polling, registered, channel, server, handled>>

\* The HTTP response arrives: a message call goes on to wait for its event,
\* the others are done; attach stores the new handle.
HttpResponse(t) ==
  /\ call[t] = "http" /\ wire[t] \in {"ack", "refused"}
  /\ call' = [call EXCEPT ![t] =
       IF wire[t] = "refused" THEN "fail"
       ELSE IF OpOf[t] \in MessageOp THEN "wait" ELSE "ok"]
  /\ handles' = IF wire[t] = "ack" /\ OpOf[t] = "AttachPlugin"
                THEN handles \cup {HandleOf[t]} ELSE handles
  /\ UNCHANGED <<control, polling, registered, channel, server, handled>>

\* The request or its response is lost, or ctx is canceled meanwhile. The
\* server may have accepted the request.
HttpError(t) ==
  /\ call[t] = "http"
  /\ call' = [call EXCEPT ![t] = "fail"]
  /\ UNCHANGED <<control, polling, handles, registered, channel, server, handled>>

\* select { case <-ctx.Done(): case b3 := <-reply.replies: }
TakeReply(t) ==
  /\ call[t] = "wait" /\ channel[t] # <<>>
  /\ call' = [call EXCEPT ![t] =
       IF Accepts(t, Head(channel[t])) THEN "ok" ELSE "fail"]
  /\ channel' = [channel EXCEPT ![t] = Tail(@)]
  /\ UNCHANGED <<control, polling, handles, registered, server, handled>>

WaitCanceled(t) ==
  /\ call[t] = "wait" /\ ctx = "done"
  /\ call' = [call EXCEPT ![t] = "canceled"]
  /\ UNCHANGED <<control, polling, handles, registered, channel, server, handled>>

-----------------------------------------------------------------------------
(* The polling goroutine.                                                   *)

\* Mutant: the channel has no slot, and a caller that gave up is not there.
NoReplyCap == 0

\* The channel made by newJanusReply holds one event.
ReplyCap == 1

\* Mutant: only a caller that has its ack already gets its event.
RoutedToWaiters(e) == e.tid \in registered /\ call[e.tid] = "wait"

\* An event with a registered transaction is a reply to hand over; any other
\* goes to handleCall, which ignores the answers of ack-only calls.
Routed(e) == e.tid \in registered

handleCall(e) ==
  handled' = IF e.kind \in Notice THEN [handled EXCEPT ![e.kind] = @ + 1] ELSE handled

\* Mutant: the server's event is read again by the next poll.
PollReceiveAgain ==
  /\ poller = "poll" /\ pollingCtx = "live" /\ events # <<>>
  /\ poller' = "held" /\ held' = Head(events)
  /\ UNCHANGED <<control, client, channel, server, handled>>

\* The GET returns the next event of the session (maxev=1).
PollReceive ==
  /\ poller = "poll" /\ pollingCtx = "live" /\ events # <<>>
  /\ poller' = "held" /\ held' = Head(events)
  /\ events' = Tail(events)
  /\ UNCHANGED <<control, client, channel, wire, verdict, handled>>

PollDispatch ==
  /\ poller = "held" /\ ~Routed(held)
  /\ handleCall(held)
  /\ poller' = "poll" /\ held' = Idle
  /\ UNCHANGED <<control, client, channel, server>>

PollSend ==
  /\ poller = "held" /\ Routed(held)
  /\ Len(channel[held.tid]) < ReplyCap
  /\ channel' = [channel EXCEPT ![held.tid] = Append(@, held.kind)]
  /\ poller' = "poll" /\ held' = Idle
  /\ UNCHANGED <<control, client, server, handled>>

\* pollingCtx is done: the GET or the send of a reply ends, then the loop.
PollStop ==
  /\ pollingCtx = "done"
  /\ \/ poller = "poll"
     \/ poller = "held" /\ Routed(held)
  /\ poller' = "done" /\ held' = Idle
  /\ UNCHANGED <<control, client, channel, server, handled>>

\* The GET fails, before or after the server took an event for it. The loop
\* breaks and cancels pollingCtx; ctx stays live.
PollError ==
  /\ poller = "poll" /\ pollingCtx = "live"
  /\ poller' = "done" /\ held' = Idle
  /\ pollingCtx' = "done"
  /\ \/ UNCHANGED events
     \/ events # <<>> /\ events' = Tail(events)
  /\ UNCHANGED <<ctx, closing, client, channel, wire, verdict, handled>>

-----------------------------------------------------------------------------
(* The Janus server.                                                        *)

ServerAccept(t) ==
  /\ wire[t] = "sent"
  /\ wire' = [wire EXCEPT ![t] = "ack"]
  /\ UNCHANGED <<control, polling, client, channel, verdict, events, handled>>

ServerRefuse(t) ==
  /\ wire[t] = "sent"
  /\ wire' = [wire EXCEPT ![t] = "refused"]
  /\ UNCHANGED <<control, polling, client, channel, verdict, events, handled>>

\* The plugin answers a message once, at any time after it accepted it.
ServerAnswer(t) ==
  /\ wire[t] = "ack" /\ verdict[t] = "none"
  /\ OpOf[t] \in MessageOp \cup {"UnPublish"}
  /\ \E v \in Answers(OpOf[t]) :
       /\ verdict' = [verdict EXCEPT ![t] = v]
       /\ events' = Append(events, [tid |-> t, kind |-> v])
  /\ UNCHANGED <<control, polling, client, channel, wire, handled>>

NoticesSent(n) ==
  handled[n] + Cardinality({i \in DOMAIN events : events[i].kind = n})
    + (IF held.kind = n THEN 1 ELSE 0)

ServerNotice(n) ==
  /\ HasSession /\ NoticesSent(n) < MaxNotices
  /\ events' = Append(events, [tid |-> NoTid, kind |-> n])
  /\ UNCHANGED <<control, polling, client, channel, wire, verdict, handled>>

-----------------------------------------------------------------------------

Poll == PollReceive \/ PollDispatch \/ PollSend \/ PollStop
CallStep(t) == HttpResponse(t) \/ TakeReply(t) \/ WaitCanceled(t)

Next ==
  \/ Cancel \/ Create \/ Close \/ CloseReturn
  \/ Poll \/ PollError
  \/ \E t \in Tid :
       \/ Begin(t) \/ CallStep(t) \/ HttpError(t)
       \/ ServerAccept(t) \/ ServerRefuse(t) \/ ServerAnswer(t)
  \/ \E n \in Notices : ServerNotice(n)

Spec == Init /\ [][Next]_vars

\* The goroutines run, net/http returns when its context is done, and the
\* server answers every request it receives. Nothing makes a caller begin
\* or cancel, and nothing makes a connection fail.
Fairness ==
  /\ WF_vars(PollReceive) /\ WF_vars(PollDispatch)
  /\ WF_vars(PollSend) /\ WF_vars(PollStop)
  /\ WF_vars(CloseReturn)
  /\ \A t \in Tid :
       /\ WF_vars(HttpResponse(t)) /\ WF_vars(TakeReply(t))
       /\ WF_vars(WaitCanceled(t))
       /\ WF_vars(ctx = "done" /\ HttpError(t))
       /\ WF_vars(ServerAccept(t) \/ ServerRefuse(t))
       /\ WF_vars(ServerAnswer(t))

FairSpec == Spec /\ Fairness

-----------------------------------------------------------------------------
(* Properties.                                                              *)

Pending(t) == call[t] \in {"http", "wait"}

InQueue(t)   == \E i \in DOMAIN events : events[i].tid = t
InHand(t)    == held.tid = t
InChannel(t) == channel[t] # <<>>

\* A call that reports success was decided by the server in the way the
\* operation expects: no goroutine ever gets another transaction's event
\* (the map of replies in polling, the checks after "Reply from polling").
VerdictRespected ==
  \A t \in Tid : call[t] = "ok" /\ OpOf[t] \in MessageOp =>
    verdict[t] # "none" /\ Accepts(t, verdict[t])

\* While the poller runs, the answer to a call that has not returned is on
\* its way to it: an event is never read before its transaction is known,
\* even when it overtakes the HTTP response (v.replies.Store before Do).
AnswerNotLost ==
  \A t \in Tid :
    Pending(t) /\ OpOf[t] \in MessageOp /\ verdict[t] # "none" /\ poller # "done"
      => InQueue(t) \/ InHand(t) \/ InChannel(t)

\* An answer is in one place at most, so it is delivered at most once.
AnswerNotDuplicated ==
  \A t \in Tid :
    /\ \A i, j \in DOMAIN events : events[i].tid = t /\ events[j].tid = t => i = j
    /\ ~(InQueue(t) /\ InHand(t)) /\ ~(InQueue(t) /\ InChannel(t))
    /\ ~(InHand(t) /\ InChannel(t)) /\ Len(channel[t]) <= 1

\* What the three above rest on: which calls the server and the maps of the
\* client know of, and that an event never changes on its way.
Consistent ==
  /\ pollingCtx = "nil" => poller = "none"
  /\ \A t \in Tid :
       /\ call[t] = "unused" => wire[t] = "none"
       /\ wire[t] # "ack" => verdict[t] = "none"
       /\ call[t] # "unused" /\ OpOf[t] \in MessageOp => t \in registered
       /\ InHand(t) => held.kind = verdict[t]
       /\ InChannel(t) => channel[t] = <<verdict[t]>>
  /\ \A i \in DOMAIN events :
       events[i].tid \in Tid => events[i].kind = verdict[events[i].tid]

\* The poller never waits for the caller of an abandoned transaction: the
\* channel made by newJanusReply has room when its event arrives, so one call
\* that gave up does not hold up the events behind its answer.
PollerNotBlocked ==
  poller = "held" /\ Routed(held) => Len(channel[held.tid]) < ReplyCap

\* Every call returns, unless the poller died of a failed GET while the
\* context of its callers stays live: then nobody tells the waiters until
\* the context is canceled, which releases every caller and the poller. Close
\* returns, too: wg.Wait waits for a poller that its cancel reaches.
CallsReturn ==
  /\ \A t \in Tid : Pending(t) ~> ~Pending(t) \/ (poller = "done" /\ ctx = "live")
  /\ ctx = "done" ~> poller \in {"none", "done"} /\ \A t \in Tid : ~Pending(t)
  /\ closing = "waiting" ~> closing = "closed"

MessageTid == {t \in Tid : OpOf[t] \in MessageOp}

StatusOf(t) ==
  CASE call[t] = "unused"           -> "idle"
    [] call[t] \in {"http", "wait"} -> "pending"
    [] call[t] = "ok"               -> "ok"
    [] OTHER                        -> "failed"

\* The session keeps the promise of RpcPromise to the callers that wait for
\* an event: whatever the order of ack, answer, cancellation and failures,
\* their calls move only as that module allows.
Promise == INSTANCE RpcPromise WITH
  Tid <- MessageTid,
  status <- [t \in MessageTid |-> StatusOf(t)],
  decided <- [t \in MessageTid |-> verdict[t]]

KeepsPromise == Promise!PSpec
=============================================================================
