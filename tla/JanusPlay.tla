------------------------------ MODULE JanusPlay ------------------------------
(***************************************************************************)
(* A Janus viewer (startPlay in janus/player.go) on one session of         *)
(* JanusApi.  DiscoverPublisher starts a helper goroutine that joins the   *)
(* room only to be told who publishes, replaces the session's onPublisher  *)
(* callback meanwhile, and waits for the callback, a timer or ctx.  Main   *)
(* then subscribes while the helper detaches.                              *)
(*                                                                         *)
(* Where a goroutine is in its sequence of calls is told by the state of   *)
(* the calls, so main and helper only name the phases between them.        *)
(***************************************************************************)
EXTENDS JanusApi

CONSTANTS
  hAttach, hJoin, hDetach,   \* the calls of the helper, in order
  mAttach, mJoin, mStart     \* the calls of main, in order

ASSUME PlayAssumption ==
  /\ Tid = {hAttach, hJoin, hDetach, mAttach, mJoin, mStart}
  /\ OpOf[hAttach] = "AttachPlugin" /\ OpOf[hJoin] = "JoinAsPublisher"
  /\ OpOf[hDetach] = "DetachPlugin" /\ OpOf[mAttach] = "AttachPlugin"
  /\ OpOf[mJoin] = "JoinAsSubscribe" /\ OpOf[mStart] = "Subscribe"

VARIABLES
  main,         \* the goroutine of startPlay
  helper,       \* the goroutine DiscoverPublisher starts
  discoverCtx,  \* ends the helper's stay in the room
  publisher,    \* whether the local variable publisher is not nil
  onPublisher   \* which callback v.onPublisher is: "original" or "discover"

play == <<main, helper, discoverCtx, publisher, onPublisher>>
playVars == <<vars, play>>

PlayTypeOK ==
  /\ main \in {"create", "install", "discover", "check", "subscribe", "close",
               "closing", "returned"}
  /\ helper \in {"none", "running", "exited"}
  /\ discoverCtx \in {"live", "done"}
  /\ publisher \in BOOLEAN
  /\ onPublisher \in {"original", "discover"}
  /\ main \in {"discover", "check", "subscribe"} => helper # "none"

PlayInit ==
  /\ Init
  /\ main = "create" /\ helper = "none" /\ discoverCtx = "live"
  /\ publisher = FALSE /\ onPublisher = "original"

-----------------------------------------------------------------------------
(* DiscoverPublisher, in main.                                              *)

MainCreate ==
  /\ main = "create" /\ Create
  /\ main' = IF poller' = "poll" THEN "install" ELSE "returned"
  /\ UNCHANGED <<helper, discoverCtx, publisher, onPublisher>>

\* The callback is in place before the helper can make anyone call it.
InstallCallback ==
  /\ main = "install"
  /\ onPublisher' = "discover" /\ helper' = "running" /\ main' = "discover"
  /\ UNCHANGED <<vars, discoverCtx, publisher>>

\* Mutant: the callback is restored on the other ways out only.
DiscoverCanceledNoRestore ==
  /\ main = "discover" /\ ctx = "done"
  /\ main' = "close"
  /\ UNCHANGED <<vars, helper, discoverCtx, publisher, onPublisher>>

\* select { case <-ctx.Done(): case <-discoverCtx.Done(): case <-time.After: }
\* Each way out restores the callback, when DiscoverPublisher returns.
DiscoverCanceled ==
  /\ main = "discover" /\ ctx = "done"
  /\ main' = "close" /\ onPublisher' = "original"
  /\ UNCHANGED <<vars, helper, discoverCtx, publisher>>

DiscoverDone ==
  /\ main = "discover" /\ discoverCtx = "done"
  /\ main' = "check"
  /\ UNCHANGED <<vars, helper, discoverCtx, publisher, onPublisher>>

DiscoverTimeout ==
  /\ main = "discover"
  /\ main' = "check" /\ discoverCtx' = "done"
  /\ UNCHANGED <<vars, helper, publisher, onPublisher>>

DiscoverReturn ==
  /\ main = "check"
  /\ main' = IF publisher THEN "subscribe" ELSE "close"
  /\ onPublisher' = "original"
  /\ UNCHANGED <<vars, helper, discoverCtx, publisher>>

\* The callback, called with a list that names the wanted display.
Discovered ==
  IF onPublisher = "discover"
  THEN publisher' = TRUE /\ discoverCtx' = "done"
  ELSE UNCHANGED <<publisher, discoverCtx>>

-----------------------------------------------------------------------------
(* The helper: attach, join, wait for discoverCtx, detach.  A failed join   *)
(* detaches too (defer), a failed attach does not.                          *)

\* Mutant: the helper waits for the end of the run.
HelperStayEndsLate == call[hJoin] \in {"fail", "canceled"} \/ ctx = "done"

HelperStayEnds ==
  \/ call[hJoin] \in {"fail", "canceled"}
  \/ call[hJoin] = "ok" /\ discoverCtx = "done"

HelperCall ==
  /\ helper = "running"
  /\ \/ AttachPlugin(hAttach)
     \/ call[hAttach] = "ok" /\ JoinAsPublisher(hJoin)
     \/ HelperStayEnds /\ DetachPlugin(hDetach)
  /\ UNCHANGED play

HelperExit ==
  /\ helper = "running"
  /\ call[hAttach] = "fail" \/ call[hDetach] \in Returned
  /\ helper' = "exited"
  /\ UNCHANGED <<vars, main, discoverCtx, publisher, onPublisher>>

-----------------------------------------------------------------------------
(* The rest of startPlay, in main: subscribe, play until ctx is done, close.*)

MainCall ==
  /\ main = "subscribe"
  /\ \/ AttachPlugin(mAttach)
     \/ call[mAttach] = "ok" /\ JoinAsSubscribe(mJoin)
     \/ call[mJoin] = "ok" /\ Subscribe(mStart)
  /\ UNCHANGED play

MainEnds ==
  /\ main = "subscribe"
  /\ \/ \E t \in {mAttach, mJoin, mStart} : call[t] \in {"fail", "canceled"}
     \/ call[mStart] = "ok" /\ ctx = "done"
  /\ main' = "close"
  /\ UNCHANGED <<vars, helper, discoverCtx, publisher, onPublisher>>

\* The SDP answer of the viewer cannot be made from the publisher's offer.
MainBadOffer ==
  /\ main = "subscribe" /\ call[mJoin] = "ok" /\ call[mStart] = "unused"
  /\ main' = "close"
  /\ UNCHANGED <<vars, helper, discoverCtx, publisher, onPublisher>>

MainClose ==
  /\ main = "close" /\ Close
  /\ main' = "closing"
  /\ UNCHANGED <<helper, discoverCtx, publisher, onPublisher>>

MainReturn ==
  /\ main = "closing" /\ CloseReturn
  /\ main' = "returned"
  /\ UNCHANGED <<helper, discoverCtx, publisher, onPublisher>>

-----------------------------------------------------------------------------
(* Steps of the session. Two of them may call onPublisher: the poller with  *)
(* an event, and the helper with the list in the answer to its join.        *)

PollPublishers ==
  /\ held.kind = "publishers" /\ PollDispatch
  /\ Discovered \/ UNCHANGED <<publisher, discoverCtx>>
  /\ UNCHANGED <<main, helper, onPublisher>>

\* Mutant: the publishers listed in the answer to the join are not told.
TakeJoinReplySilent ==
  /\ TakeReply(hJoin)
  /\ UNCHANGED play

TakeJoinReply ==
  /\ TakeReply(hJoin)
  /\ IF call'[hJoin] = "ok" /\ verdict[hJoin] = "found"
     THEN Discovered ELSE UNCHANGED <<publisher, discoverCtx>>
  /\ UNCHANGED <<main, helper, onPublisher>>

SessionStep ==
  /\ \/ Cancel \/ PollReceive \/ PollSend \/ PollStop \/ PollError
     \/ held.kind # "publishers" /\ PollDispatch
     \/ \E t \in Tid : HttpResponse(t) \/ HttpError(t) \/ WaitCanceled(t)
     \/ \E t \in Tid \ {hJoin} : TakeReply(t)
     \/ \E t \in Tid : ServerAccept(t) \/ ServerRefuse(t) \/ ServerAnswer(t)
  /\ UNCHANGED play

\* The server tells a session who publishes once it is in the room.
RoomNotice ==
  /\ verdict[hJoin] \in {"joined", "found"}
  /\ \E n \in Notices : ServerNotice(n)
  /\ UNCHANGED play

PlayNext ==
  \/ MainCreate \/ InstallCallback \/ MainCall \/ MainEnds \/ MainBadOffer
  \/ DiscoverCanceled \/ DiscoverDone \/ DiscoverTimeout \/ DiscoverReturn
  \/ MainClose \/ MainReturn \/ HelperCall \/ HelperExit
  \/ PollPublishers \/ TakeJoinReply \/ SessionStep \/ RoomNotice

PlaySpec == PlayInit /\ [][PlayNext]_playVars

\* The goroutines run and the timer fires; the rest as in JanusApi.
PlayFairness ==
  /\ WF_playVars(MainCreate) /\ WF_playVars(InstallCallback)
  /\ WF_playVars(MainCall) /\ WF_playVars(MainEnds)
  /\ WF_playVars(DiscoverCanceled) /\ WF_playVars(DiscoverDone)
  /\ WF_playVars(DiscoverTimeout) /\ WF_playVars(DiscoverReturn)
  /\ WF_playVars(MainClose) /\ WF_playVars(MainReturn)
  /\ WF_playVars(HelperCall) /\ WF_playVars(HelperExit)
  /\ WF_playVars(PollPublishers) /\ WF_playVars(TakeJoinReply)
  /\ WF_playVars((PollReceive \/ PollSend \/ PollStop) /\ UNCHANGED play)
  /\ WF_playVars(held.kind # "publishers" /\ PollDispatch /\ UNCHANGED play)
  /\ \A t \in Tid :
       /\ WF_playVars(HttpResponse(t) /\ UNCHANGED play)
       /\ WF_playVars(t # hJoin /\ TakeReply(t) /\ UNCHANGED play)
       /\ WF_playVars(WaitCanceled(t) /\ UNCHANGED play)
       /\ WF_playVars(ctx = "done" /\ HttpError(t) /\ UNCHANGED play)
       /\ WF_playVars((ServerAccept(t) \/ ServerRefuse(t)) /\ UNCHANGED play)
       /\ WF_playVars(ServerAnswer(t) /\ UNCHANGED play)

PlayFairSpec == PlaySpec /\ PlayFairness

-----------------------------------------------------------------------------
(* Properties.                                                              *)

\* Whoever was told of the publisher while DiscoverPublisher waits has put
\* it in the variable main looks at: no list arrives before the callback is
\* installed (v.onPublisher is set before the helper starts).
ToldIsFound ==
  main = "discover" /\ call[hJoin] = "ok" /\ verdict[hJoin] = "found" => publisher

\* Nothing of the session is left when startPlay returns: the poller has
\* ended and the replaced callback is back (the defers of startPlay and
\* DiscoverPublisher, on every path).
ReturnLeavesNothing ==
  main = "returned" => poller \in {"none", "done"} /\ onPublisher = "original"

\* A call whose answer cannot come anymore and that only ctx can release.
Stranded(t) == call[t] = "wait" /\ channel[t] = <<>> /\ poller = "done" /\ ctx = "live"

\* Canceling the run ends startPlay wherever it is. After DiscoverPublisher has
\* found a publisher or timed out, the helper leaves the room and ends: only a
\* poller that died, or that main has closed, can strand it in its join.
PlayEnds ==
  /\ ctx = "done" ~> main = "returned"
  /\ main \notin {"create", "install", "discover"} /\ discoverCtx = "done"
       ~> helper = "exited" \/ Stranded(hJoin)
=============================================================================
