---------------------------- MODULE Janus_proof ----------------------------
(***************************************************************************)
(* Proofs about JanusApi, for every set of transactions and handles, and   *)
(* about JanusPlay: every step of a viewer is a step of JanusApi or leaves *)
(* the session alone, so what is proved of every session holds of its own. *)
(***************************************************************************)
EXTENDS JanusPlay, TLAPS

-----------------------------------------------------------------------------
(* One session.                                                             *)

LEMMA EventTypes ==
  /\ \A t \in Tid, v \in Verdict : [tid |-> t, kind |-> v] \in Event
  /\ \A n \in Notice : [tid |-> NoTid, kind |-> n] \in Event
  /\ \A e \in Event : e.tid \in Tid => e.kind \in Verdict
BY ConstantsAssumption DEF Event

LEMMA AnswersAreVerdicts == ASSUME NEW op PROVE Answers(op) \subseteq Verdict
BY DEF Answers, Verdict

\* The poller, the maps and the queue always hold values of their types.
THEOREM TypeCorrect == Spec => []TypeOK
<1>1. Init => TypeOK
  BY DEF Init, TypeOK, CallState, WireState
<1>2. TypeOK /\ [Next]_vars => TypeOK'
  <2> SUFFICES ASSUME TypeOK, [Next]_vars PROVE TypeOK'
    OBVIOUS
  <2> USE DEF TypeOK, client, server, control, polling
  <2>Ctx. CASE Cancel \/ Close \/ CloseReturn
    BY <2>Ctx DEF Cancel, Close, CloseReturn
  <2>Create. CASE Create
    BY <2>Create DEF Create
  <2>Recv. CASE PollReceive
    BY <2>Recv DEF PollReceive
  <2>Disp. CASE PollDispatch
    BY <2>Disp DEF PollDispatch, handleCall
  <2>Send. CASE PollSend
    <3>1. held \in Event /\ held.tid \in Tid
      BY <2>Send DEF PollSend, Routed
    <3>2. held.kind \in Verdict
      BY <3>1, EventTypes
    <3>3. channel' \in [Tid -> Seq(Verdict)]
      BY <2>Send, <3>1, <3>2 DEF PollSend
    <3>4. QED
      BY <2>Send, <3>3 DEF PollSend
  <2>Stop. CASE PollStop
    BY <2>Stop DEF PollStop
  <2>Err. CASE PollError
    <3>1. CASE UNCHANGED events
      BY <2>Err, <3>1 DEF PollError
    <3>2. CASE events # <<>> /\ events' = Tail(events)
      <4>1. events' \in Seq(Event)
        BY <3>2
      <4>2. QED
        BY <2>Err, <4>1 DEF PollError
    <3>3. QED
      BY <2>Err, <3>1, <3>2 DEF PollError
  <2>Beg. ASSUME NEW t \in Tid, Begin(t) PROVE TypeOK'
    <3>1. /\ call' = [call EXCEPT ![t] = "http"]
          /\ wire' = [wire EXCEPT ![t] = "sent"]
          /\ registered' \subseteq Tid
          /\ UNCHANGED <<control, polling, handles, channel, verdict, events, handled>>
      BY <2>Beg DEF Begin, AttachPlugin, DetachPlugin, UnPublish, JoinAsPublisher,
        Publish, JoinAsSubscribe, Subscribe, SendMessage, Post, Register
    <3>2. QED
      BY <3>1 DEF CallState, WireState
  <2>Resp. ASSUME NEW t \in Tid, HttpResponse(t) PROVE TypeOK'
    BY <2>Resp, ConstantsAssumption DEF HttpResponse, CallState
  <2>Take. ASSUME NEW t \in Tid, TakeReply(t) PROVE TypeOK'
    <3>1. channel' \in [Tid -> Seq(Verdict)]
      BY <2>Take DEF TakeReply
    <3>2. QED
      BY <2>Take, <3>1 DEF TakeReply, CallState
  <2>Fail. ASSUME NEW t \in Tid, WaitCanceled(t) \/ HttpError(t) PROVE TypeOK'
    BY <2>Fail DEF WaitCanceled, HttpError, CallState
  <2>Acc. ASSUME NEW t \in Tid, ServerAccept(t) \/ ServerRefuse(t) PROVE TypeOK'
    BY <2>Acc DEF ServerAccept, ServerRefuse, WireState
  <2>Ans. ASSUME NEW t \in Tid, ServerAnswer(t) PROVE TypeOK'
    BY <2>Ans, EventTypes, AnswersAreVerdicts DEF ServerAnswer
  <2>Note. ASSUME NEW n \in Notices, ServerNotice(n) PROVE TypeOK'
    BY <2>Note, EventTypes, ConstantsAssumption DEF ServerNotice
  <2>Stut. CASE UNCHANGED vars
    BY <2>Stut DEF vars
  <2>Q. QED
    BY <2>Ctx, <2>Create, <2>Recv, <2>Disp, <2>Send, <2>Stop, <2>Err, <2>Beg,
       <2>Resp, <2>Take, <2>Fail, <2>Acc, <2>Ans, <2>Note, <2>Stut
    DEF Next, Poll, CallStep
<1>3. QED
  BY <1>1, <1>2, PTL DEF Spec

-----------------------------------------------------------------------------
(* Where an answer may be: the queue of the session, the hand of the poller *)
(* or the channel of its call.                                              *)

LEMMA TailPositions ==
  ASSUME NEW S, NEW s \in Seq(S), s # <<>>
  PROVE  /\ 1 \in DOMAIN s /\ Head(s) = s[1] /\ Head(s) \in S
         /\ Tail(s) \in Seq(S)
         /\ \A i \in DOMAIN Tail(s) :
              i \in Nat /\ i + 1 \in DOMAIN s /\ i + 1 # 1 /\ Tail(s)[i] = s[i + 1]
OBVIOUS

LEMMA AppendPositions ==
  ASSUME NEW S, NEW s \in Seq(S), NEW e \in S
  PROVE  /\ DOMAIN Append(s, e) = DOMAIN s \cup {Len(s) + 1}
         /\ Len(s) + 1 \notin DOMAIN s
         /\ \A i \in DOMAIN s : Append(s, e)[i] = s[i]
         /\ Append(s, e)[Len(s) + 1] = e
OBVIOUS

\* The inductive invariant: an answer never changes, and is in one place
\* exactly until its call has returned or the poller is gone.
AnswerInv ==
  Consistent /\ AnswerNotDuplicated /\ AnswerNotLost /\ VerdictRespected

\* A transaction the server has not decided is nowhere.
LEMMA UndecidedNowhere ==
  ASSUME TypeOK, Consistent, NEW t \in Tid, verdict[t] = "none"
  PROVE  ~InQueue(t) /\ ~InHand(t) /\ ~InChannel(t)
<1> USE DEF TypeOK
<1>1. ~InHand(t)
  <2> SUFFICES ASSUME InHand(t) PROVE FALSE
    OBVIOUS
  <2>1. held \in Event
    BY ConstantsAssumption DEF InHand, Idle
  <2>2. held.kind \in Verdict /\ held.kind = "none"
    BY <2>1, EventTypes DEF InHand, Consistent
  <2>3. QED
    BY <2>2 DEF Verdict
<1>2. ~InQueue(t)
  <2> SUFFICES ASSUME NEW i \in DOMAIN events, events[i].tid = t PROVE FALSE
    BY DEF InQueue
  <2>1. events[i] \in Event
    OBVIOUS
  <2>2. events[i].kind \in Verdict /\ events[i].kind = "none"
    BY <2>1, EventTypes DEF Consistent
  <2>3. QED
    BY <2>2 DEF Verdict
<1>3. ~InChannel(t)
  <2> SUFFICES ASSUME channel[t] = <<"none">> PROVE FALSE
    BY DEF InChannel, Consistent
  <2>1. channel[t][1] = "none" /\ channel[t][1] \in Verdict
    BY channel[t] \in Seq(Verdict)
  <2>2. QED
    BY <2>1 DEF Verdict
<1>4. QED
  BY <1>1, <1>2, <1>3

\* A step that moves no answer keeps each of them in one place.
LEMMA NothingMoved ==
  ASSUME AnswerNotDuplicated, UNCHANGED <<events, held, channel>>
  PROVE  /\ AnswerNotDuplicated'
         /\ \A t \in Tid : /\ InQueue(t)' = InQueue(t)
                          /\ InHand(t)' = InHand(t)
                          /\ InChannel(t)' = InChannel(t)
BY DEF AnswerNotDuplicated, InQueue, InHand, InChannel

\* Steps of the client: only the progress of one call changes.
LEMMA CallKeepsAnswers ==
  ASSUME TypeOK, AnswerInv, NEW t \in Tid,
         Begin(t) \/ HttpResponse(t) \/ WaitCanceled(t) \/ HttpError(t)
  PROVE  AnswerInv'
<1> USE DEF client, server, control, polling
<1>1. /\ UNCHANGED <<events, held, channel, verdict, poller, pollingCtx>>
      /\ call' = [call EXCEPT ![t] = call'[t]]
      /\ \/ UNCHANGED <<wire, registered>> /\ call[t] # "unused" /\ call'[t] # "unused"
         \/ /\ wire' = [wire EXCEPT ![t] = "sent"] /\ wire[t] # "ack"
            /\ call'[t] = "http" /\ call[t] = "unused"
            /\ registered \subseteq registered'
            /\ OpOf[t] \in MessageOp => t \in registered'
      /\ call'[t] = "ok" => OpOf[t] \notin MessageOp
      /\ call'[t] \in {"http", "wait"} => call[t] = "unused" \/ Pending(t)
  <2>1. CASE Begin(t)
    <3>1. Post(t) /\ (registered' = registered \/ Register(t))
      BY <2>1 DEF Begin, AttachPlugin, DetachPlugin, UnPublish, JoinAsPublisher,
        Publish, JoinAsSubscribe, Subscribe, SendMessage
    <3>2. OpOf[t] \in MessageOp => Register(t)
      BY <2>1 DEF Begin, AttachPlugin, DetachPlugin, UnPublish, JoinAsPublisher,
        Publish, JoinAsSubscribe, Subscribe, SendMessage, MessageOp
    <3>3. wire[t] = "none"
      BY <3>1 DEF Post, AnswerInv, Consistent
    <3>4. QED
      BY <3>1, <3>2, <3>3 DEF Post, Register, TypeOK
  <2>2. CASE HttpResponse(t)
    BY <2>2 DEF HttpResponse, TypeOK, Pending
  <2>3. CASE WaitCanceled(t) \/ HttpError(t)
    BY <2>3 DEF WaitCanceled, HttpError, TypeOK, Pending
  <2>4. QED
    BY <2>1, <2>2, <2>3
<1>2. AnswerNotDuplicated'
  BY <1>1, NothingMoved DEF AnswerInv
<1>3. Consistent'
  BY <1>1 DEF AnswerInv, Consistent, InHand, InChannel, TypeOK
<1>4. AnswerNotLost'
  <2> SUFFICES ASSUME NEW u \in Tid, Pending(u)', OpOf[u] \in MessageOp,
                      verdict[u] # "none", poller # "done"
               PROVE  InQueue(u) \/ InHand(u) \/ InChannel(u)
    BY <1>1, NothingMoved DEF AnswerNotLost, AnswerInv
  <2>1. Pending(u)
    BY <1>1 DEF Pending, AnswerInv, Consistent, TypeOK
  <2>2. QED
    BY <2>1 DEF AnswerInv, AnswerNotLost
<1>5. VerdictRespected'
  BY <1>1 DEF AnswerInv, VerdictRespected, TypeOK
<1>6. QED
  BY <1>2, <1>3, <1>4, <1>5 DEF AnswerInv

\* The server decides an undecided transaction once and queues its answer,
\* or queues an event of no transaction.
LEMMA ServerKeepsAnswers ==
  ASSUME TypeOK, AnswerInv,
         \/ \E t \in Tid : ServerAccept(t) \/ ServerRefuse(t) \/ ServerAnswer(t)
         \/ \E n \in Notices : ServerNotice(n)
  PROVE  AnswerInv'
<1> USE DEF client, server, control, polling
<1>1. ASSUME NEW t \in Tid, ServerAccept(t) \/ ServerRefuse(t) PROVE AnswerInv'
  <2>1. /\ UNCHANGED <<events, held, channel, verdict, poller, pollingCtx, call, registered>>
        /\ \A u \in Tid : call[u] = "unused" => wire'[u] = "none"
        /\ \A u \in Tid : wire'[u] # "ack" => verdict[u] = "none"
    BY <1>1 DEF ServerAccept, ServerRefuse, TypeOK, AnswerInv, Consistent
  <2>2. AnswerNotDuplicated'
    BY <2>1, NothingMoved DEF AnswerInv
  <2>3. QED
    BY <2>1, <2>2, NothingMoved
    DEF AnswerInv, Consistent, AnswerNotLost, VerdictRespected, InHand, InChannel, Pending
<1>2. ASSUME NEW e \in Event, events' = Append(events, e),
             UNCHANGED <<held, channel, poller, pollingCtx, call, registered, wire>>,
             \/ e.tid \notin Tid /\ UNCHANGED verdict
             \/ /\ e.tid \in Tid /\ verdict[e.tid] = "none" /\ wire[e.tid] = "ack"
                /\ verdict' = [verdict EXCEPT ![e.tid] = e.kind]
      PROVE  AnswerInv'
  <2>1. \A u \in Tid : u # e.tid => verdict'[u] = verdict[u]
    BY <1>2 DEF TypeOK
  <2>2. e.tid \in Tid => verdict'[e.tid] = e.kind
    BY <1>2 DEF TypeOK
  <2>3. e.tid \in Tid => ~InQueue(e.tid) /\ ~InHand(e.tid) /\ ~InChannel(e.tid)
    BY <1>2, UndecidedNowhere DEF AnswerInv
  <2>4. /\ DOMAIN events' = DOMAIN events \cup {Len(events) + 1}
        /\ \A i \in DOMAIN events : events'[i] = events[i]
        /\ events'[Len(events) + 1] = e
        /\ Len(events) + 1 \notin DOMAIN events
    BY <1>2, AppendPositions DEF TypeOK
  <2>5. \A u \in Tid : /\ InQueue(u)' <=> InQueue(u) \/ u = e.tid
                      /\ InHand(u)' = InHand(u) /\ InChannel(u)' = InChannel(u)
    BY <1>2, <2>4 DEF InQueue, InHand, InChannel
  <2>6. Consistent'
    BY <1>2, <2>1, <2>2, <2>3, <2>4, <2>5 DEF AnswerInv, Consistent, InHand, InChannel, InQueue
  <2>7. AnswerNotDuplicated'
    BY <1>2, <2>3, <2>4, <2>5 DEF AnswerInv, AnswerNotDuplicated, InQueue
  <2>8. AnswerNotLost'
    BY <1>2, <2>1, <2>5 DEF AnswerInv, AnswerNotLost, Pending
  <2>9. VerdictRespected'
    BY <1>2, <2>1 DEF AnswerInv, VerdictRespected
  <2>10. QED
    BY <2>6, <2>7, <2>8, <2>9 DEF AnswerInv
<1>3. ASSUME NEW t \in Tid, ServerAnswer(t) PROVE AnswerInv'
  <2>1. PICK v \in Answers(OpOf[t]) :
          /\ verdict' = [verdict EXCEPT ![t] = v]
          /\ events' = Append(events, [tid |-> t, kind |-> v])
    BY <1>3 DEF ServerAnswer
  <2>2. [tid |-> t, kind |-> v] \in Event
    BY AnswersAreVerdicts, EventTypes
  <2>3. QED
    BY <1>2, <1>3, <2>1, <2>2 DEF ServerAnswer
<1>4. ASSUME NEW n \in Notices, ServerNotice(n) PROVE AnswerInv'
  <2>1. [tid |-> NoTid, kind |-> n] \in Event
    BY EventTypes, ConstantsAssumption
  <2>2. QED
    BY <1>2, <1>4, <2>1, ConstantsAssumption DEF ServerNotice
<1>5. QED
  BY <1>1, <1>3, <1>4

\* The poller moves the head of the queue to its hand, and what it holds to
\* the channel of its transaction; or drops it when no call is told anymore.
LEMMA PollerKeepsAnswers ==
  ASSUME TypeOK, TypeOK', AnswerInv,
         PollReceive \/ PollDispatch \/ PollSend \/ PollStop \/ PollError
  PROVE  AnswerInv'
<1> USE DEF client, server, control, polling
<1>1. /\ UNCHANGED <<verdict, call, registered, wire>>
      /\ pollingCtx' = "nil" => pollingCtx = "nil"
      /\ poller # "none" /\ poller' # "none"
  BY DEF PollReceive, PollDispatch, PollSend, PollStop, PollError
<1>2. VerdictRespected'
  BY <1>1 DEF AnswerInv, VerdictRespected
<1>3. pollingCtx' # "nil"
  BY <1>1 DEF AnswerInv, Consistent, PollReceive, PollDispatch, PollSend, PollStop, PollError
<1>4. CASE PollReceive
  <2>1. /\ 1 \in DOMAIN events /\ held' = events[1]
        /\ \A i \in DOMAIN events' :
             i \in Nat /\ i + 1 \in DOMAIN events /\ i + 1 # 1 /\ events'[i] = events[i + 1]
    BY <1>4, TailPositions DEF PollReceive, TypeOK
  <2>2. held = Idle /\ \A t \in Tid : ~InHand(t)
    BY <1>4, ConstantsAssumption DEF PollReceive, TypeOK, InHand, Idle
  <2>3. \A t \in Tid : InHand(t)' <=> events[1].tid = t
    BY <2>1 DEF InHand
  <2>4. \A t \in Tid : InQueue(t)' => InQueue(t) /\ events[1].tid # t
    BY <2>1 DEF InQueue, AnswerInv, AnswerNotDuplicated
  <2>5. \A t \in Tid : InQueue(t) => InQueue(t)' \/ InHand(t)'
    <3> SUFFICES ASSUME NEW t \in Tid, NEW i \in DOMAIN events, events[i].tid = t, i # 1
                 PROVE  InQueue(t)'
      BY <2>3 DEF InQueue
    <3>1. events' = Tail(events) /\ events \in Seq(Event)
      BY <1>4 DEF PollReceive, TypeOK
    <3>2. i - 1 \in DOMAIN events' /\ events'[i - 1] = events[i]
      BY <3>1
    <3>3. QED
      BY <3>2 DEF InQueue
  <2>6. UNCHANGED channel
    BY <1>4 DEF PollReceive
  <2>7. Consistent'
    BY <1>1, <1>3, <2>1, <2>3, <2>6 DEF AnswerInv, Consistent, InHand, InChannel
  <2>8. AnswerNotDuplicated'
    <3>1. \A t \in Tid : \A i, j \in DOMAIN events' :
            events'[i].tid = t /\ events'[j].tid = t => i = j
      BY <2>1 DEF AnswerInv, AnswerNotDuplicated
    <3>2. \A t \in Tid : InChannel(t)' = InChannel(t) /\ (InHand(t)' => InQueue(t))
      BY <2>1, <2>3, <2>6 DEF InChannel, InQueue
    <3>3. QED
      BY <2>3, <2>4, <2>6, <3>1, <3>2 DEF AnswerInv, AnswerNotDuplicated
  <2>9. AnswerNotLost'
    BY <1>1, <1>4, <2>2, <2>5, <2>6
    DEF PollReceive, AnswerInv, AnswerNotLost, Pending, InChannel
  <2>10. QED
    BY <1>2, <2>7, <2>8, <2>9 DEF AnswerInv
<1>5. CASE PollSend
  <2> DEFINE s == held.tid
  <2>1. /\ s \in Tid /\ InHand(s) /\ held.kind = verdict[s] /\ channel[s] = <<>>
        /\ channel' = [channel EXCEPT ![s] = <<verdict[s]>>]
    <3>1. s \in Tid /\ InHand(s) /\ held.kind = verdict[s]
      BY <1>5 DEF PollSend, Routed, TypeOK, InHand, AnswerInv, Consistent
    <3>2. channel[s] = <<>>
      BY <3>1 DEF AnswerInv, AnswerNotDuplicated, InChannel
    <3>3. Append(channel[s], held.kind) = <<verdict[s]>>
      BY <3>1, <3>2
    <3>4. QED
      BY <1>5, <3>1, <3>2, <3>3 DEF PollSend
  <2>2. events' = events /\ held' = Idle /\ poller' = "poll"
    BY <1>5 DEF PollSend
  <2>3. /\ \A t \in Tid : t # s => channel'[t] = channel[t]
        /\ channel'[s] = <<verdict[s]>> /\ channel'[s] # <<>> /\ Len(channel'[s]) = 1
        /\ \A t \in Tid : held'.tid # t
    BY <2>1, <2>2, ConstantsAssumption DEF TypeOK, Idle
  <2>4. Consistent'
    BY <1>1, <1>3, <2>2, <2>3 DEF AnswerInv, Consistent, InHand, InChannel
  <2>5. AnswerNotDuplicated'
    BY <2>1, <2>2, <2>3 DEF AnswerInv, AnswerNotDuplicated, InQueue, InHand, InChannel
  <2>6. AnswerNotLost'
    <3>1. poller # "done"
      BY <1>5 DEF PollSend
    <3>2. QED
      BY <1>1, <2>2, <2>3, <3>1
      DEF AnswerInv, AnswerNotLost, Pending, InQueue, InHand, InChannel
  <2>7. QED
    BY <1>2, <2>4, <2>5, <2>6 DEF AnswerInv
<1>6. CASE PollDispatch \/ PollStop \/ PollError
  <2>1. held' = Idle /\ UNCHANGED channel /\ \A t \in Tid : ~InHand(t)'
    BY <1>6, ConstantsAssumption DEF PollDispatch, PollStop, PollError, InHand, Idle
  <2>2. \/ UNCHANGED events
        \/ \A i \in DOMAIN events' :
             i \in Nat /\ i + 1 \in DOMAIN events /\ i + 1 # 1 /\ events'[i] = events[i + 1]
    <3>1. events \in Seq(Event)
      BY DEF TypeOK
    <3>2. UNCHANGED events \/ (events # <<>> /\ events' = Tail(events))
      BY <1>6 DEF PollDispatch, PollStop, PollError
    <3>3. QED
      BY <3>1, <3>2, TailPositions
  <2>3. \A t \in Tid : (InQueue(t)' => InQueue(t)) /\ InChannel(t)' = InChannel(t)
    BY <2>1, <2>2 DEF InQueue, InChannel
  <2>4. Consistent'
    BY <1>1, <1>3, <2>1, <2>2 DEF AnswerInv, Consistent, InHand, InChannel
  <2>5. AnswerNotDuplicated'
    BY <2>1, <2>2, <2>3 DEF AnswerInv, AnswerNotDuplicated
  <2>6. AnswerNotLost'
    <3>1. CASE PollDispatch
      <4> SUFFICES ASSUME NEW t \in Tid, Pending(t), OpOf[t] \in MessageOp,
                          verdict[t] # "none"
                   PROVE  InQueue(t)' \/ InChannel(t)'
        BY <1>1 DEF AnswerNotLost, Pending
      <4>1. InQueue(t) \/ InHand(t) \/ InChannel(t)
        BY <3>1 DEF AnswerInv, AnswerNotLost, PollDispatch
      <4>2. ~InHand(t)
        BY <3>1 DEF AnswerInv, Consistent, Pending, PollDispatch, Routed, InHand
      <4>3. UNCHANGED events
        BY <3>1 DEF PollDispatch
      <4>4. QED
        BY <2>3, <4>1, <4>2, <4>3 DEF InQueue
    <3>2. CASE poller' = "done"
      BY <3>2 DEF AnswerNotLost
    <3>3. QED
      BY <1>6, <3>1, <3>2 DEF PollStop, PollError
  <2>7. QED
    BY <1>2, <2>4, <2>5, <2>6 DEF AnswerInv
<1>7. QED
  BY <1>4, <1>5, <1>6

LEMMA AnswerInvStep ==
  ASSUME TypeOK, TypeOK', AnswerInv, [Next]_vars
  PROVE  AnswerInv'
<1> USE DEF client, server, control, polling
<1>1. ASSUME UNCHANGED <<polling, channel, verdict, events, registered, wire>>,
             UNCHANGED <<call>>, pollingCtx' = "nil" => poller = "none"
      PROVE  AnswerInv'
  <2>1. AnswerNotDuplicated'
    BY <1>1, NothingMoved DEF AnswerInv
  <2>2. QED
    BY <1>1, <2>1
    DEF AnswerInv, Consistent, AnswerNotLost, VerdictRespected, Pending,
        InQueue, InHand, InChannel
<1>2. CASE Cancel \/ Close \/ CloseReturn \/ UNCHANGED vars
  BY <1>1, <1>2 DEF Cancel, Close, CloseReturn, vars, AnswerInv, Consistent
<1>3. CASE Create
  <2>1. poller = "none" /\ held = Idle /\ held' = Idle /\ pollingCtx' # "nil"
    BY <1>3 DEF Create, AnswerInv, Consistent, TypeOK
  <2>2. AnswerNotDuplicated'
    BY <1>3, <2>1, NothingMoved DEF Create, AnswerInv
  <2>3. QED
    BY <1>3, <2>1, <2>2
    DEF Create, AnswerInv, Consistent, AnswerNotLost, VerdictRespected, Pending,
        InQueue, InHand, InChannel
<1>4. ASSUME NEW t \in Tid, TakeReply(t) PROVE AnswerInv'
  <2>1. /\ channel[t] = <<verdict[t]>> /\ verdict[t] # "none"
        /\ call[t] = "wait" /\ call'[t] \in {"ok", "fail"}
        /\ call'[t] = "ok" => Accepts(t, verdict[t])
        /\ \A u \in Tid : u # t => call'[u] = call[u] /\ channel'[u] = channel[u]
    <3>1. channel[t] = <<verdict[t]>> /\ channel[t] # <<>>
      BY <1>4 DEF TakeReply, AnswerInv, Consistent, InChannel
    <3>2. Head(channel[t]) = verdict[t]
      BY <3>1
    <3>3. verdict[t] # "none"
      BY <3>1, UndecidedNowhere DEF AnswerInv, InChannel
    <3>4. QED
      BY <1>4, <3>1, <3>2, <3>3 DEF TakeReply, TypeOK
  <2>2. channel'[t] = <<>> /\ Len(channel'[t]) = 0
    BY <1>4, <2>1 DEF TakeReply, TypeOK
  <2>3. UNCHANGED <<control, polling, handles, registered, server, handled>>
    BY <1>4 DEF TakeReply
  <2>4. Consistent'
    BY <2>1, <2>2, <2>3 DEF AnswerInv, Consistent, InHand, InChannel
  <2>5. AnswerNotDuplicated'
    BY <2>1, <2>2, <2>3 DEF AnswerInv, AnswerNotDuplicated, InQueue, InHand, InChannel
  <2>6. AnswerNotLost'
    BY <2>1, <2>2, <2>3
    DEF AnswerInv, AnswerNotLost, Pending, InQueue, InHand, InChannel
  <2>7. VerdictRespected'
    BY <2>1, <2>3 DEF AnswerInv, VerdictRespected, Accepts
  <2>8. QED
    BY <2>4, <2>5, <2>6, <2>7 DEF AnswerInv
<1>5. QED
  BY <1>2, <1>3, <1>4, CallKeepsAnswers, PollerKeepsAnswers, ServerKeepsAnswers
  DEF Next, Poll, CallStep

\* In every session: an answer is never lost while its call waits for it and
\* the poller runs, never in two places, and never taken for another's.
THEOREM AnswersDelivered == Spec => []AnswerInv
<1>1. Init => AnswerInv
  BY ConstantsAssumption
  DEF Init, AnswerInv, Consistent, AnswerNotDuplicated, AnswerNotLost,
      VerdictRespected, InQueue, InHand, InChannel, Pending, Idle
<1>2. QED
  BY <1>1, TypeCorrect, AnswerInvStep, PTL DEF Spec

\* The calls that succeed were decided so by the server.
COROLLARY VerdictsRespected == Spec => []VerdictRespected
BY AnswersDelivered, PTL DEF AnswerInv

\* No answer to a pending call is lost while the poller runs.
COROLLARY NoAnswerLost == Spec => []AnswerNotLost
BY AnswersDelivered, PTL DEF AnswerInv

\* No answer is in two places.
COROLLARY NoAnswerDuplicated == Spec => []AnswerNotDuplicated
BY AnswersDelivered, PTL DEF AnswerInv

\* The slot of a transaction is free whenever the poller holds its answer.
THEOREM PollerFree == Spec => []PollerNotBlocked
<1>1. TypeOK /\ AnswerInv => PollerNotBlocked
  BY DEF TypeOK, AnswerInv, AnswerNotDuplicated, PollerNotBlocked, Routed, ReplyCap,
         InHand, InChannel
<1>2. QED
  BY <1>1, TypeCorrect, AnswersDelivered, PTL

-----------------------------------------------------------------------------
(* The session implements RpcPromise.                                       *)

StatusMap == [t \in MessageTid |-> StatusOf(t)]
DecidedMap == [t \in MessageTid |-> verdict[t]]

\* A step that changes neither a call nor a decision is a stutter, one that
\* changes one call is a step of that call.
LEMMA MapUnchanged ==
  ASSUME UNCHANGED call, UNCHANGED verdict
  PROVE  StatusMap' = StatusMap /\ DecidedMap' = DecidedMap
BY DEF StatusMap, DecidedMap, StatusOf

LEMMA MapOfCall ==
  ASSUME NEW t \in Tid, TypeOK, NEW c \in CallState,
         call' = [call EXCEPT ![t] = c], UNCHANGED verdict
  PROVE  /\ t \notin MessageTid => StatusMap' = StatusMap
         /\ t \in MessageTid => StatusMap' = [StatusMap EXCEPT ![t] = StatusOf(t)']
         /\ DecidedMap' = DecidedMap
BY DEF StatusMap, DecidedMap, StatusOf, MessageTid, TypeOK

LEMMA PromiseStep ==
  ASSUME TypeOK, AnswerInv, [Next]_vars
  PROVE  [Promise!PNext]_<<StatusMap, DecidedMap>>
<1> USE DEF client, server, control, polling
<1> DEFINE Goal == [Promise!PNext]_<<StatusMap, DecidedMap>>
<1>1. ASSUME UNCHANGED <<call, verdict>> PROVE Goal
  BY <1>1, MapUnchanged
<1>2. ASSUME NEW t \in Tid, Begin(t) PROVE Goal
  <2>1. Post(t)
    BY <1>2 DEF Begin, AttachPlugin, DetachPlugin, UnPublish, JoinAsPublisher,
      Publish, JoinAsSubscribe, Subscribe, SendMessage
  <2>2. StatusOf(t) = "idle" /\ StatusOf(t)' = "pending"
    BY <2>1 DEF Post, StatusOf, TypeOK
  <2>3. t \in MessageTid => Promise!PBegin(t)
    BY <2>1, <2>2, MapOfCall DEF Post, Promise!PBegin, StatusMap, DecidedMap, CallState
  <2>4. QED
    BY <2>1, <2>3, MapOfCall DEF Post, Promise!PNext, CallState, MessageTid
<1>3. ASSUME NEW t \in Tid, HttpResponse(t) \/ HttpError(t) \/ WaitCanceled(t)
      PROVE  Goal
  <2>1. PICK c \in CallState :
          /\ call' = [call EXCEPT ![t] = c] /\ UNCHANGED verdict
          /\ OpOf[t] \in MessageOp => c \in {"wait", "fail", "canceled"}
    BY <1>3 DEF HttpResponse, HttpError, WaitCanceled, CallState
  <2>2. StatusOf(t) = "pending"
    BY <1>3 DEF HttpResponse, HttpError, WaitCanceled, StatusOf
  <2>3. ASSUME t \in MessageTid PROVE Promise!PFail(t) \/ StatusMap' = StatusMap
    <3>1. StatusOf(t)' \in {"pending", "failed"}
      BY <2>1, <2>3 DEF StatusOf, TypeOK, MessageTid
    <3>2. StatusMap' = [StatusMap EXCEPT ![t] = StatusOf(t)'] /\ DecidedMap' = DecidedMap
      BY <2>1, <2>3, MapOfCall
    <3>3. CASE StatusOf(t)' = "failed"
      BY <2>2, <2>3, <3>2, <3>3 DEF Promise!PFail, StatusMap, DecidedMap
    <3>4. CASE StatusOf(t)' = "pending"
      BY <2>2, <2>3, <3>2, <3>4 DEF StatusMap
    <3>5. QED
      BY <3>1, <3>3, <3>4
  <2>4. DecidedMap' = DecidedMap /\ (t \notin MessageTid => StatusMap' = StatusMap)
    BY <2>1, MapOfCall
  <2>5. QED
    BY <2>3, <2>4 DEF Promise!PNext
<1>4. ASSUME NEW t \in Tid, TakeReply(t) PROVE Goal
  <2>1. /\ verdict[t] # "none" /\ Head(channel[t]) = verdict[t]
    <3>1. channel[t] = <<verdict[t]>> /\ InChannel(t)
      BY <1>4 DEF TakeReply, AnswerInv, Consistent, InChannel
    <3>2. QED
      BY <3>1, UndecidedNowhere DEF AnswerInv
  <2>2. PICK c \in {"ok", "fail"} :
          /\ call' = [call EXCEPT ![t] = c] /\ UNCHANGED verdict
          /\ c = "ok" => Accepts(t, verdict[t])
    BY <1>4, <2>1 DEF TakeReply
  <2>3. /\ t \notin MessageTid => StatusMap' = StatusMap
        /\ t \in MessageTid => StatusMap' = [StatusMap EXCEPT ![t] = StatusOf(t)']
        /\ DecidedMap' = DecidedMap
    BY <2>2, MapOfCall DEF CallState
  <2>4. /\ StatusOf(t) = "pending"
        /\ StatusOf(t)' = IF c = "ok" THEN "ok" ELSE "failed"
    BY <1>4, <2>2 DEF TakeReply, StatusOf, TypeOK
  <2>5. ASSUME t \in MessageTid PROVE Promise!PSucceed(t) \/ Promise!PFail(t)
    BY <2>1, <2>2, <2>3, <2>4, <2>5
    DEF Promise!PSucceed, Promise!PFail, StatusMap, DecidedMap
  <2>6. QED
    BY <2>3, <2>5 DEF Promise!PNext
<1>5. ASSUME NEW t \in Tid, ServerAnswer(t) PROVE Goal
  <2>1. PICK v \in Answers(OpOf[t]) : verdict' = [verdict EXCEPT ![t] = v]
    BY <1>5 DEF ServerAnswer
  <2>2. v \in Verdict /\ verdict[t] = "none" /\ UNCHANGED call
    BY <1>5, AnswersAreVerdicts DEF ServerAnswer
  <2>3. StatusOf(t) # "idle"
    BY <1>5 DEF ServerAnswer, AnswerInv, Consistent, StatusOf
  <2>4. StatusMap' = StatusMap
    BY <2>2 DEF StatusMap, StatusOf
  <2>5. /\ t \in MessageTid => DecidedMap' = [DecidedMap EXCEPT ![t] = v]
        /\ t \notin MessageTid => DecidedMap' = DecidedMap
    BY <2>1 DEF DecidedMap, MessageTid, TypeOK
  <2>6. t \in MessageTid => Promise!PDecide(t, v)
    BY <2>2, <2>3, <2>4, <2>5 DEF Promise!PDecide, StatusMap, DecidedMap
  <2>7. QED
    BY <2>2, <2>4, <2>5, <2>6 DEF Promise!PNext
<1>6. CASE \/ Cancel \/ Create \/ Close \/ CloseReturn \/ Poll \/ PollError
           \/ \E t \in Tid : ServerAccept(t) \/ ServerRefuse(t)
           \/ \E n \in Notices : ServerNotice(n)
           \/ UNCHANGED vars
  BY <1>1, <1>6
  DEF Cancel, Create, Close, CloseReturn, Poll, PollReceive, PollDispatch, PollSend,
      PollStop, PollError, ServerAccept, ServerRefuse, ServerNotice, vars
<1>7. QED
  BY <1>2, <1>3, <1>4, <1>5, <1>6 DEF Next, CallStep

\* The goroutines, channels and HTTP exchanges of a session implement the
\* promise: a message call succeeds only after a decision it accepts.
THEOREM Implements == Spec => KeepsPromise
<1>1. Init => Promise!PInit
  BY DEF Init, Promise!PInit, StatusOf, MessageTid
<1>2. TypeOK /\ AnswerInv /\ [Next]_vars => [Promise!PNext]_<<StatusMap, DecidedMap>>
  BY PromiseStep
<1>3. QED
  BY <1>1, <1>2, TypeCorrect, AnswersDelivered, PTL
  DEF Spec, KeepsPromise, Promise!PSpec, StatusMap, DecidedMap

-----------------------------------------------------------------------------
(* startPlay uses its session legally.                                      *)

LEMMA PlayStepIsApiStep == ASSUME [PlayNext]_playVars PROVE [Next]_vars
<1>1. CASE MainCreate \/ MainClose \/ MainReturn
  BY <1>1 DEF MainCreate, MainClose, MainReturn, Next
<1>2. CASE \/ InstallCallback \/ DiscoverCanceled \/ DiscoverDone \/ DiscoverTimeout
           \/ DiscoverReturn \/ HelperExit \/ MainEnds \/ MainBadOffer
  BY <1>2 DEF InstallCallback, DiscoverCanceled, DiscoverDone, DiscoverTimeout,
    DiscoverReturn, HelperExit, MainEnds, MainBadOffer
<1>3. CASE HelperCall \/ MainCall
  <2>1. PICK t \in Tid : AttachPlugin(t) \/ DetachPlugin(t) \/ JoinAsPublisher(t)
                         \/ JoinAsSubscribe(t) \/ Subscribe(t)
    BY <1>3, PlayAssumption DEF HelperCall, MainCall
  <2>2. HasSession
    BY <2>1 DEF AttachPlugin, DetachPlugin, JoinAsPublisher, JoinAsSubscribe, Subscribe,
      SendMessage, Post
  <2>3. QED
    BY <2>1, <2>2 DEF Next, Begin
<1>4. CASE PollPublishers \/ TakeJoinReply
  BY <1>4, PlayAssumption DEF PollPublishers, TakeJoinReply, Next, Poll, CallStep
<1>5. CASE SessionStep
  BY <1>5 DEF SessionStep, Next, Poll, CallStep
<1>6. CASE RoomNotice
  BY <1>6 DEF RoomNotice, Next
<1>7. CASE UNCHANGED playVars
  BY <1>7 DEF playVars
<1>8. QED
  BY <1>1, <1>2, <1>3, <1>4, <1>5, <1>6, <1>7 DEF PlayNext

\* A viewer's session is a session of JanusApi.
THEOREM PlayUsesSession == PlaySpec => Spec
<1>1. PlayInit => Init
  BY DEF PlayInit
<1>2. QED
  BY <1>1, PlayStepIsApiStep, PTL DEF PlaySpec, Spec

\* The calls of a viewer, of main and of its helper, move only as RpcPromise allows.
THEOREM PlayKeepsPromise == PlaySpec => KeepsPromise
BY PlayUsesSession, Implements

\* No answer to the viewer or its helper is lost, duplicated or mixed up.
COROLLARY PlayAnswersDelivered == PlaySpec => []AnswerInv
BY PlayUsesSession, AnswersDelivered, PTL

\* The type invariant of the goroutines of startPlay.
THEOREM PlayTypeCorrect == PlaySpec => []PlayTypeOK
<1>1. PlayInit => PlayTypeOK
  BY DEF PlayInit, PlayTypeOK
<1>2. PlayTypeOK /\ [PlayNext]_playVars => PlayTypeOK'
  BY DEF PlayTypeOK, PlayNext, playVars, play, MainCreate, InstallCallback, MainCall,
    MainEnds, MainBadOffer, DiscoverCanceled, DiscoverDone, DiscoverTimeout,
    DiscoverReturn, MainClose, MainReturn, HelperCall, HelperExit, PollPublishers,
    TakeJoinReply, SessionStep, RoomNotice, Discovered
<1>3. QED
  BY <1>1, <1>2, PTL DEF PlaySpec

\* What ReturnLeavesNothing rests on: which phases the replaced callback and
\* the wait of Close can overlap with.
PhaseInv ==
  /\ main \in {"subscribe", "close", "closing", "returned", "create", "install"}
       => onPublisher = "original"
  /\ main \in {"closing", "returned"} => closing \in {"waiting", "closed"} \/ poller = "none"
  /\ main = "returned" => poller \in {"none", "done"}
  /\ main = "create" => poller = "none"

\* When startPlay returns, its poller has ended and its callback is undone.
THEOREM PlayReturnsClean == PlaySpec => []ReturnLeavesNothing
<1>1. PlayInit => PhaseInv
  BY DEF PlayInit, PhaseInv, Init
<1>2. TypeOK /\ PlayTypeOK /\ PhaseInv /\ [PlayNext]_playVars => PhaseInv'
  <2> SUFFICES ASSUME TypeOK, PlayTypeOK, PhaseInv, [PlayNext]_playVars
               PROVE  PhaseInv'
    OBVIOUS
  <2> USE DEF PhaseInv, PlayTypeOK, play, vars, control, polling
  <2>1. CASE MainCreate
    BY <2>1 DEF MainCreate, Create, TypeOK
  <2>2. CASE \/ InstallCallback \/ DiscoverCanceled \/ DiscoverDone \/ DiscoverTimeout
             \/ DiscoverReturn \/ HelperExit \/ MainEnds \/ MainBadOffer
    BY <2>2 DEF InstallCallback, DiscoverCanceled, DiscoverDone, DiscoverTimeout,
      DiscoverReturn, HelperExit, MainEnds, MainBadOffer
  <2>3. CASE MainClose \/ MainReturn
    BY <2>3 DEF MainClose, Close, MainReturn, CloseReturn
  <2>4. ASSUME UNCHANGED <<main, onPublisher>>, UNCHANGED closing,
               poller' = poller \/ (poller \notin {"none", "done"} /\ poller' # "none")
        PROVE  PhaseInv'
    BY <2>4 DEF TypeOK
  <2>5. CASE HelperCall \/ MainCall
    <3>1. \E t \in Tid : Post(t) /\ UNCHANGED <<main, onPublisher>>
      BY <2>5, PlayAssumption DEF HelperCall, MainCall, AttachPlugin, DetachPlugin,
        JoinAsPublisher, JoinAsSubscribe, Subscribe, SendMessage
    <3>2. QED
      BY <2>4, <3>1 DEF Post
  <2>6. CASE PollPublishers \/ TakeJoinReply
    BY <2>4, <2>6 DEF PollPublishers, TakeJoinReply, PollDispatch, TakeReply
  <2>7. CASE SessionStep
    BY <2>4, <2>7 DEF SessionStep, Cancel, PollReceive, PollSend, PollStop, PollError,
      PollDispatch, HttpResponse, HttpError, WaitCanceled, TakeReply, ServerAccept,
      ServerRefuse, ServerAnswer
  <2>8. CASE RoomNotice
    BY <2>4, <2>8 DEF RoomNotice, ServerNotice
  <2>9. CASE UNCHANGED playVars
    BY <2>4, <2>9 DEF playVars
  <2>10. QED
    BY <2>1, <2>2, <2>3, <2>5, <2>6, <2>7, <2>8, <2>9 DEF PlayNext
<1>3. PhaseInv => ReturnLeavesNothing
  BY DEF PhaseInv, ReturnLeavesNothing
<1>4. []TypeOK /\ []PlayTypeOK /\ PhaseInv /\ [][PlayNext]_playVars => []PhaseInv
  BY <1>2, PTL
<1>5. QED
  BY <1>1, <1>3, <1>4, PlayUsesSession, TypeCorrect, PlayTypeCorrect, PTL DEF PlaySpec

\* What ToldIsFound rests on: the helper starts behind the callback, and what
\* it is told while main waits reaches the variable.
DiscoverInv ==
  /\ main \in {"create", "install"} => helper = "none"
  /\ helper = "none" => call[hJoin] = "unused"
  /\ main = "discover" => onPublisher = "discover"
  /\ ToldIsFound

\* A list of publishers which the helper is given while DiscoverPublisher
\* waits is found by main, whoever else is told of publishers meanwhile.
THEOREM PlayToldIsFound == PlaySpec => []ToldIsFound
<1>1. PlayInit => DiscoverInv
  BY PlayAssumption DEF PlayInit, DiscoverInv, ToldIsFound, Init
<1>2. TypeOK /\ AnswerInv /\ PlayTypeOK /\ DiscoverInv /\ [PlayNext]_playVars => DiscoverInv'
  <2> SUFFICES ASSUME TypeOK, AnswerInv, PlayTypeOK, DiscoverInv, [PlayNext]_playVars
               PROVE  DiscoverInv'
    OBVIOUS
  <2>t. /\ hJoin \in Tid /\ OpOf[hJoin] = "JoinAsPublisher" /\ OpOf[hJoin] \in MessageOp
        /\ hJoin \notin {hAttach, hDetach, mAttach, mJoin, mStart}
        /\ call \in [Tid -> CallState] /\ verdict \in [Tid -> Verdict \cup {"none"}]
    BY PlayAssumption DEF TypeOK, MessageOp
  <2>1. call[hJoin] = "ok" => verdict[hJoin] # "none"
    BY <2>t DEF AnswerInv, VerdictRespected
  \* A step of the session that is not the reply to the join.
  <2>2. ASSUME UNCHANGED <<main, helper, onPublisher>>, publisher => publisher',
               call'[hJoin] = call[hJoin] \/ (call[hJoin] # "unused" /\ call'[hJoin] # "ok"),
               verdict'[hJoin] = verdict[hJoin] \/ verdict[hJoin] = "none",
               call'[hJoin] # "ok" \/ verdict[hJoin] # "none"
        PROVE  DiscoverInv'
    BY <2>2 DEF DiscoverInv, ToldIsFound
  <2>3. CASE MainCreate
    BY <2>3 DEF MainCreate, Create, client, server, DiscoverInv, ToldIsFound
  <2>4. CASE InstallCallback
    BY <2>4 DEF InstallCallback, vars, client, server, DiscoverInv, ToldIsFound
  <2>5. CASE DiscoverCanceled \/ DiscoverDone \/ DiscoverTimeout \/ DiscoverReturn \/ MainEnds \/ MainBadOffer
    BY <2>5 DEF DiscoverCanceled, DiscoverDone, DiscoverTimeout, DiscoverReturn, MainEnds, MainBadOffer,
      vars, client, server, DiscoverInv, ToldIsFound
  <2>6. CASE MainClose \/ MainReturn
    BY <2>6 DEF MainClose, Close, MainReturn, CloseReturn, client, server, DiscoverInv, ToldIsFound
  <2>7. CASE HelperExit
    BY <2>7 DEF HelperExit, vars, client, server, DiscoverInv, ToldIsFound
  <2>8. CASE MainCall
    <3>1. PICK t \in Tid \ {hJoin} : Post(t) /\ UNCHANGED play
      BY <2>8, <2>t, PlayAssumption DEF MainCall, AttachPlugin, JoinAsSubscribe, Subscribe, SendMessage
    <3>2. call'[hJoin] = call[hJoin] /\ verdict' = verdict
      BY <3>1, <2>t DEF Post
    <3>3. QED
      BY <3>1, <3>2, <2>1, <2>2 DEF play
  <2>9. CASE HelperCall
    <3>1. PICK t \in Tid : Post(t) /\ UNCHANGED play /\ helper = "running"
      BY <2>9, PlayAssumption DEF HelperCall, AttachPlugin, JoinAsPublisher, DetachPlugin, SendMessage
    <3>2. call'[hJoin] \in {call[hJoin], "http"} /\ verdict' = verdict
      BY <3>1, <2>t DEF Post
    <3>3. QED
      BY <3>1, <3>2 DEF play, DiscoverInv, ToldIsFound
  <2>10. CASE PollPublishers
    <3>1. UNCHANGED <<call, verdict, main, helper, onPublisher>>
      BY <2>10 DEF PollPublishers, PollDispatch, client, server
    <3>2. publisher => publisher'
      BY <2>10 DEF PollPublishers, Discovered
    <3>3. QED
      BY <3>1, <3>2, <2>1, <2>2
  <2>11. CASE TakeJoinReply
    <3>1. UNCHANGED <<verdict, main, helper, onPublisher>> /\ call[hJoin] = "wait"
      BY <2>11 DEF TakeJoinReply, TakeReply, server
    <3>2. publisher => publisher'
      BY <2>11 DEF TakeJoinReply, Discovered
    <3>3. main = "discover" /\ call'[hJoin] = "ok" /\ verdict[hJoin] = "found" => publisher'
      BY <2>11 DEF TakeJoinReply, Discovered, DiscoverInv
    <3>4. QED
      BY <3>1, <3>2, <3>3 DEF DiscoverInv, ToldIsFound
  <2>12. CASE SessionStep
    <3>1. UNCHANGED <<main, helper, onPublisher, publisher>>
      BY <2>12 DEF SessionStep, play
    <3>2. CASE Cancel \/ PollReceive \/ PollSend \/ PollStop \/ PollError \/ PollDispatch
      <4>1. UNCHANGED <<call, verdict>>
        BY <3>2 DEF Cancel, PollReceive, PollSend, PollStop, PollError, PollDispatch, client, server
      <4>2. QED
        BY <4>1, <3>1, <2>1, <2>2
    <3>3. ASSUME NEW t \in Tid, HttpResponse(t) \/ HttpError(t) \/ WaitCanceled(t) PROVE DiscoverInv'
      <4>1. call'[hJoin] = call[hJoin] \/ (call[hJoin] # "unused" /\ call'[hJoin] # "ok")
        BY <3>3, <2>t DEF HttpResponse, HttpError, WaitCanceled
      <4>2. verdict' = verdict
        BY <3>3 DEF HttpResponse, HttpError, WaitCanceled, server
      <4>3. QED
        BY <4>1, <4>2, <3>1, <2>1, <2>2
    <3>4. ASSUME NEW t \in Tid \ {hJoin}, TakeReply(t) PROVE DiscoverInv'
      <4>1. call'[hJoin] = call[hJoin] /\ verdict' = verdict
        BY <3>4, <2>t DEF TakeReply, server
      <4>2. QED
        BY <4>1, <3>1, <2>1, <2>2
    <3>5. ASSUME NEW t \in Tid, ServerAccept(t) \/ ServerRefuse(t) \/ ServerAnswer(t) PROVE DiscoverInv'
      <4>1. call' = call
        BY <3>5 DEF ServerAccept, ServerRefuse, ServerAnswer, client
      <4>2. verdict'[hJoin] = verdict[hJoin] \/ verdict[hJoin] = "none"
        BY <3>5, <2>t DEF ServerAccept, ServerRefuse, ServerAnswer
      <4>3. QED
        BY <4>1, <4>2, <3>1, <2>1, <2>2
    <3>6. QED
      BY <2>12, <3>2, <3>3, <3>4, <3>5 DEF SessionStep
  <2>13. CASE RoomNotice
    <3>1. UNCHANGED <<call, verdict>> /\ UNCHANGED play
      BY <2>13 DEF RoomNotice, ServerNotice, client
    <3>2. QED
      BY <3>1, <2>1, <2>2 DEF play
  <2>14. CASE UNCHANGED playVars
    BY <2>14, <2>1, <2>2 DEF playVars, vars, play, client, server
  <2>15. QED
    BY <2>3, <2>4, <2>5, <2>6, <2>7, <2>8, <2>9, <2>10, <2>11, <2>12, <2>13, <2>14 DEF PlayNext
<1>3. DiscoverInv => ToldIsFound
  BY DEF DiscoverInv
<1>4. []TypeOK /\ []AnswerInv /\ []PlayTypeOK /\ DiscoverInv /\ [][PlayNext]_playVars => []DiscoverInv
  BY <1>2, PTL
<1>5. QED
  BY <1>1, <1>3, <1>4, PlayUsesSession, TypeCorrect, PlayAnswersDelivered, PlayTypeCorrect, PTL DEF PlaySpec
=============================================================================
