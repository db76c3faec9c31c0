----------------------------- MODULE RtcPublish -----------------------------
(***************************************************************************)
(* A WebRTC publisher: startPublish in srs/publisher.go, which negotiates  *)
(* by one HTTP request, and in janus/publisher.go, which does so by calls  *)
(* of a Janus session (JanusApi) that it undoes when it leaves, and waits  *)
(* for the session's poller to tell that the server has the media path up. *)
(*                                                                         *)
(* Both start, for each medium, a goroutine that reads RTCP and one that   *)
(* ingests a file: both wait for the peer connection.  Another goroutine   *)
(* closes everything when the context is done, which is what interrupts    *)
(* the readers.  pion tells connection states to a callback, each in a     *)
(* goroutine of its own, and to nobody before the callback is registered.  *)
(***************************************************************************)
CONSTANT Media  \* the media to send, of "audio" and "video"

ASSUME MediaAssumption == Media \subseteq {"audio", "video"}

VARIABLES
  program,    \* which startPublish it is: "srs" or "janus"
  parent,     \* the context of Run
  ctx,        \* its child, "nil" until the callbacks are registered
  pcDone,     \* pcDoneCtx
  cap,        \* closeAfterPublished, the -cap flag
  main,       \* the goroutine of startPublish
  poller,     \* the polling goroutine of the Janus session
  up,         \* webrtcUpCtx of janus, a child of parent
  deferred,   \* the calls of the session that main has deferred
  pc,         \* the state of the peer connection
  callbacks,  \* the states told to callback goroutines that have not run yet
  senders,    \* whether doClose has stopped the senders of the ingesters
  closer,     \* the goroutine that waits for ctx and calls doClose
  reader,     \* [Media -> Worker]: the goroutines that read RTCP
  ingester,   \* [Media -> Worker]: the goroutines that send a file
  stats       \* the goroutine that polls GetStats

contexts == <<parent, ctx, pcDone>>
session == <<poller, up, deferred>>
connection == <<pc, callbacks, senders>>
workers == <<reader, ingester, stats>>
vars == <<program, contexts, cap, main, session, connection, closer, workers>>

Worker == {"none", "wait", "work", "done"}
Ended(worker) == worker \in {"none", "done"}
PcState == {"none", "new", "connecting", "connected", "failed", "closed"}

\* The calls of the Janus session, in order.
Signaling == {"create", "attach", "join", "publish"}
Main == {"offer", "request", "answered", "cap", "up", "start", "wait", "undo",
         "returned"} \cup Signaling

TypeOK ==
  /\ parent \in {"live", "done"} /\ ctx \in {"nil", "live", "done"}
  /\ pcDone \in {"live", "done"} /\ cap \in BOOLEAN
  /\ program \in {"srs", "janus"} /\ main \in Main
  /\ poller \in {"none", "poll", "stopping", "done"} /\ up \in {"live", "done"}
  /\ deferred \subseteq {"Close", "DetachPlugin", "UnPublish"}
  /\ pc \in PcState /\ callbacks \subseteq {"connected", "failed", "closed"}
  /\ senders \in {"idle", "stopped"}
  /\ closer \in Worker /\ stats \in Worker
  /\ reader \in [Media -> Worker] /\ ingester \in [Media -> Worker]

Init ==
  /\ program \in {"srs", "janus"}
  /\ poller = "none" /\ up = "live" /\ deferred = {}
  /\ parent = "live" /\ ctx = "nil" /\ pcDone = "live"
  /\ cap \in BOOLEAN /\ (cap => "audio" \in Media /\ program = "srs")
  /\ main = "offer" /\ pc = "none" /\ callbacks = {} /\ senders = "idle"
  /\ closer = "none" /\ stats = "none"
  /\ reader = [m \in Media |-> "none"] /\ ingester = [m \in Media |-> "none"]

-----------------------------------------------------------------------------
(* The peer connection.  Its callback exists once ctx does.                 *)

Tell(state) ==
  /\ pc' = state
  /\ callbacks' = IF ctx = "nil" THEN callbacks ELSE callbacks \cup {state}

Connected ==
  /\ pc = "connecting" /\ Tell("connected")
  /\ UNCHANGED <<program, session, contexts, cap, main, senders, closer, workers>>

\* ICE or DTLS fails; a failed connection does not recover.
Failed ==
  /\ pc \in {"connecting", "connected"} /\ Tell("failed")
  /\ UNCHANGED <<program, session, contexts, cap, main, senders, closer, workers>>

\* Mutant: a failed connection does not end the publisher.
CallbackConnectedOnly ==
  \E state \in callbacks :
    /\ callbacks' = callbacks \ {state}
    /\ pcDone' = IF state = "connected" THEN "done" ELSE pcDone
    /\ UNCHANGED <<program, session, parent, ctx, cap, main, pc, senders, closer, workers>>

\* The handler of OnConnectionStateChange, also after startPublish returned.
Callback ==
  \E state \in callbacks :
    /\ callbacks' = callbacks \ {state}
    /\ pcDone' = IF state = "connected" THEN "done" ELSE pcDone
    /\ ctx' = IF state = "connected" THEN ctx ELSE "done"
    /\ UNCHANGED <<program, session, parent, cap, main, pc, senders, closer, workers>>

\* pc.Close, then the ingesters. The second time it does nothing.
doClose ==
  /\ IF pc = "closed" THEN UNCHANGED <<pc, callbacks>> ELSE Tell("closed")
  /\ senders' = "stopped"

-----------------------------------------------------------------------------
(* Main.                                                                    *)

Interrupt ==
  /\ parent = "live"
  /\ parent' = "done" /\ up' = "done" /\ ctx' = IF ctx = "nil" THEN "nil" ELSE "done"
  /\ UNCHANGED <<program, poller, deferred, pcDone, cap, main, connection, closer, workers>>

Offer ==
  /\ main = "offer"
  /\ main' = IF program = "srs" THEN "request" ELSE "create"
  /\ pc' = "new"
  /\ UNCHANGED <<program, session, contexts, cap, callbacks, senders, closer, workers>>

\* Nothing to close before the peer connection exists.
OfferFails ==
  /\ main = "offer"
  /\ main' = "returned"
  /\ \/ UNCHANGED connection
     \/ doClose
  /\ UNCHANGED <<program, session, contexts, cap, closer, workers>>

\* apiRtcRequest has an answer, and SetRemoteDescription starts to connect.
Answered ==
  /\ main = "request"
  /\ main' = "answered" /\ pc' = "connecting"
  /\ UNCHANGED <<program, session, contexts, cap, callbacks, senders, closer, workers>>

\* The request is refused, fails or is canceled, or its answer is no good.
RequestFails ==
  /\ main = "request"
  /\ main' = "returned" /\ doClose
  /\ UNCHANGED <<program, session, contexts, cap, closer, workers>>

\* A call of the session succeeds. Each defers its undoing but the join; the
\* answer to the offer comes with the last.
CallSucceeds ==
  /\ main \in Signaling
  /\ main' = [create |-> "attach", attach |-> "join", join |-> "publish",
              publish |-> "answered"][main]
  /\ deferred' = deferred \cup
       [create |-> {"Close"}, attach |-> {"DetachPlugin"}, join |-> {},
        publish |-> {"UnPublish"}][main]
  /\ poller' = IF main = "create" THEN "poll" ELSE poller
  /\ pc' = IF main = "publish" THEN "connecting" ELSE pc
  /\ UNCHANGED <<program, contexts, cap, up, callbacks, senders, closer, workers>>

\* It fails, or is canceled while it waits for the poller.
CallFails ==
  /\ main \in Signaling
  /\ main' = "undo"
  /\ UNCHANGED <<program, contexts, cap, session, connection, closer, workers>>

\* The server publishes, but SetRemoteDescription refuses its answer.
BadAnswer ==
  /\ main = "publish"
  /\ main' = "undo" /\ deferred' = deferred \cup {"UnPublish"}
  /\ UNCHANGED <<program, contexts, cap, poller, up, connection, closer, workers>>

\* The context and the callbacks, then the closing goroutine. Janus waits for
\* the server before it starts that one.
Register ==
  /\ main = "answered"
  /\ ctx' = parent
  /\ IF program = "srs"
     THEN closer' = "wait" /\ main' = IF cap THEN "cap" ELSE "start"
     ELSE closer' = "none" /\ main' = "up"
  /\ UNCHANGED <<program, session, parent, pcDone, cap, connection, workers>>

\* select { case <-ctx.Done(): return nil; case <-webrtcUpCtx.Done(): }
UpCanceled ==
  /\ main = "up" /\ ctx = "done"
  /\ main' = "undo"
  /\ UNCHANGED <<program, contexts, cap, session, connection, closer, workers>>

IsUp ==
  /\ main = "up" /\ up = "done"
  /\ main' = "start" /\ closer' = "wait"
  /\ UNCHANGED <<program, contexts, cap, session, connection, workers>>

\* With -cap: close as soon as published.
CapCloses ==
  /\ main = "cap" /\ (ctx = "done" \/ pcDone = "done")
  /\ main' = "wait" /\ ctx' = "done"
  /\ UNCHANGED <<program, session, parent, pcDone, cap, connection, closer, workers>>

Start ==
  /\ main = "start"
  /\ main' = "wait" /\ stats' = IF program = "srs" THEN "work" ELSE "none"
  /\ reader' = [m \in Media |-> "wait"] /\ ingester' = [m \in Media |-> "wait"]
  /\ UNCHANGED <<program, session, contexts, cap, connection, closer>>

\* Mutant: the closing goroutine and the readers are not counted by wg.
WaitedEarly ==
  /\ main = "wait" /\ ctx = "done" /\ Ended(stats)
  /\ \A m \in Media : Ended(ingester[m])
  /\ main' = "undo"
  /\ UNCHANGED <<program, contexts, cap, session, connection, closer, workers>>

\* wg.Wait.
Waited ==
  /\ main = "wait" /\ Ended(closer) /\ Ended(stats)
  /\ \A m \in Media : Ended(reader[m]) /\ Ended(ingester[m])
  /\ main' = "undo"
  /\ UNCHANGED <<program, contexts, cap, session, connection, closer, workers>>

\* The deferred calls, last first: UnPublish and DetachPlugin are requests of
\* the outer context, whose outcome is ignored ...
Undo ==
  /\ main = "undo"
  /\ \E c \in deferred \ {"Close"} :
       /\ c = "DetachPlugin" => "UnPublish" \notin deferred
       /\ deferred' = deferred \ {c}
  /\ UNCHANGED <<program, contexts, cap, main, poller, up, connection, closer, workers>>

\* ... and Close cancels the poller ...
CloseSession ==
  /\ main = "undo" /\ deferred = {"Close"} /\ poller = "poll"
  /\ poller' = "stopping"
  /\ UNCHANGED <<program, contexts, cap, main, up, deferred, connection, closer, workers>>

\* ... and waits for it.
SessionClosed ==
  /\ main = "undo" /\ deferred = {"Close"} /\ poller = "done"
  /\ deferred' = {}
  /\ UNCHANGED <<program, contexts, cap, main, poller, up, connection, closer, workers>>

\* The first deferred call, doClose, is the last to run.
Return ==
  /\ main = "undo" /\ deferred = {}
  /\ main' = "returned" /\ doClose
  /\ UNCHANGED <<program, session, contexts, cap, closer, workers>>

-----------------------------------------------------------------------------
(* The poller of the Janus session.                                         *)

\* The server has the media path up, at any time after it began to connect.
\* It matters until main has heard of it.
WebrtcUp ==
  /\ poller = "poll" /\ up = "live" /\ pc \in {"connecting", "connected", "failed"}
  /\ main \in {"answered", "up"}
  /\ up' = "done"
  /\ UNCHANGED <<program, contexts, cap, main, poller, deferred, connection, closer, workers>>

\* A poll fails, or its context is done.
PollError ==
  /\ poller = "poll"
  /\ poller' = "done"
  /\ UNCHANGED <<program, contexts, cap, main, up, deferred, connection, closer, workers>>

PollStop ==
  /\ poller = "stopping" \/ (poller = "poll" /\ parent = "done")
  /\ poller' = "done"
  /\ UNCHANGED <<program, contexts, cap, main, up, deferred, connection, closer, workers>>

-----------------------------------------------------------------------------
(* The other goroutines.                                                    *)

CloseAll ==
  /\ closer = "wait" /\ ctx = "done"
  /\ closer' = "done" /\ doClose
  /\ UNCHANGED <<program, session, contexts, cap, main, workers>>

\* Mutant: ctx is looked at after the first packet only.
WokenUnchecked == "work"

\* select { case <-ctx.Done(): case <-pcDoneCtx.Done(): } and the first test
\* of for ctx.Err() == nil.
Woken == IF ctx = "done" THEN "done" ELSE "work"

ReaderWakes(m) ==
  /\ reader[m] = "wait" /\ (ctx = "done" \/ pcDone = "done")
  /\ reader' = [reader EXCEPT ![m] = Woken]
  /\ UNCHANGED <<program, session, contexts, cap, main, connection, closer, ingester, stats>>

\* Mutant: what was told before the ingester came is not seen.
IngesterWakesLate(m) ==
  /\ ingester[m] = "wait" /\ (ctx = "done" \/ (pcDone = "done" /\ callbacks # {}))
  /\ ingester' = [ingester EXCEPT ![m] = Woken]
  /\ UNCHANGED <<program, session, contexts, cap, main, connection, closer, reader, stats>>

IngesterWakes(m) ==
  /\ ingester[m] = "wait" /\ (ctx = "done" \/ pcDone = "done")
  /\ ingester' = [ingester EXCEPT ![m] = Woken]
  /\ UNCHANGED <<program, session, contexts, cap, main, connection, closer, reader, stats>>

\* Read fails, or its packet is the last one before ctx is seen to be done.
\* Nothing but the end of its sender is sure to interrupt it.
ReaderEnds(m) ==
  /\ reader[m] = "work"
  /\ reader' = [reader EXCEPT ![m] = "done"]
  /\ UNCHANGED <<program, session, contexts, cap, main, connection, closer, ingester, stats>>

\* At the end of its file and after an error Ingest is called again.
IngesterEnds(m) ==
  /\ ingester[m] = "work" /\ ctx = "done"
  /\ ingester' = [ingester EXCEPT ![m] = "done"]
  /\ UNCHANGED <<program, session, contexts, cap, main, connection, closer, reader, stats>>

StatsEnd ==
  /\ stats = "work" /\ ctx = "done"
  /\ stats' = "done"
  /\ UNCHANGED <<program, session, contexts, cap, main, connection, closer, reader, ingester>>

-----------------------------------------------------------------------------

Goroutine(m) ==
  ReaderWakes(m) \/ ReaderEnds(m) \/ IngesterWakes(m) \/ IngesterEnds(m)

Next ==
  \/ Interrupt \/ Connected \/ Failed \/ Callback
  \/ Offer \/ OfferFails \/ Answered \/ RequestFails
  \/ CallSucceeds \/ CallFails \/ BadAnswer \/ Register \/ UpCanceled \/ IsUp
  \/ CapCloses \/ Start \/ Waited \/ Undo \/ CloseSession \/ SessionClosed \/ Return
  \/ WebrtcUp \/ PollError \/ PollStop \/ CloseAll \/ StatsEnd
  \/ \E m \in Media : Goroutine(m)

Spec == Init /\ [][Next]_vars

\* Goroutines run, and net/http and a stopped sender give up. The server may
\* leave the request of the offer, the calls that wait for an event and the
\* connection open for ever; requests that undo are answered.
Fairness ==
  /\ WF_vars(Offer) /\ WF_vars(parent = "done" /\ (RequestFails \/ CallFails))
  /\ WF_vars(Register) /\ WF_vars(UpCanceled \/ IsUp) /\ WF_vars(CapCloses)
  /\ WF_vars(Start) /\ WF_vars(Waited)
  /\ WF_vars(Undo \/ CloseSession \/ SessionClosed) /\ WF_vars(Return)
  /\ WF_vars(PollStop)
  /\ WF_vars(Callback) /\ WF_vars(CloseAll) /\ WF_vars(StatsEnd)
  /\ \A m \in Media :
       /\ WF_vars(ReaderWakes(m)) /\ WF_vars(senders = "stopped" /\ ReaderEnds(m))
       /\ WF_vars(IngesterWakes(m)) /\ WF_vars(IngesterEnds(m))

FairSpec == Spec /\ Fairness

-----------------------------------------------------------------------------
(* Properties.                                                              *)

\* startPublish returns with every goroutine ended, its connection and senders
\* closed and what it did to the session undone, on every way out (defer
\* doClose, wg.Wait, defer api.Close).
ReturnLeavesNothing ==
  main = "returned" =>
    /\ pc = "none" \/ (pc = "closed" /\ senders = "stopped")
    /\ Ended(closer) /\ Ended(stats) /\ Ended(poller) /\ deferred = {}
    /\ \A m \in Media : Ended(reader[m]) /\ Ended(ingester[m])

\* No RTCP is read and no file is sent before the connection was up, at both
\* ends with janus, and with -cap never (pcDoneCtx, webrtcUpCtx).
MediaAfterConnected ==
  \A m \in Media : reader[m] = "work" \/ ingester[m] = "work" =>
    /\ pcDone = "done" /\ pc # "connecting" /\ ~cap
    /\ program = "janus" => up = "done"

\* Once both were told of, in either order, the media of both directions
\* begin, unless the publisher is ended (two contexts for two messengers).
MediaBegins ==
  pcDone = "done" /\ (program = "janus" => up = "done")
    ~> ctx = "done" \/ \A m \in Media : {reader[m], ingester[m]} \cap {"none", "wait"} = {}

\* Interrupting the run ends the publisher wherever it is, a blocked read of
\* RTCP and a call that waits for a dead poller included; and so does a failure
\* that is told to the callback, also while the publisher waits for the server.
PublisherEnds ==
  /\ parent = "done" ~> main = "returned"
  /\ "failed" \in callbacks ~> main = "returned"
=============================================================================
