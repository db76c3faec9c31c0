------------------------------- MODULE RtcPlay -------------------------------
(***************************************************************************)
(* A WebRTC player: startPlay in srs/player.go, which negotiates by one    *)
(* HTTP request and polls statistics, and in janus/player.go, which does   *)
(* so by calls of a session (JanusPlay) that it closes when it leaves.     *)
(*                                                                         *)
(* Main then waits for its context; a goroutine per track, started by      *)
(* pion, reads what it receives, and in srs may write it to a file.  The   *)
(* handlers of the tracks share the variable err with each other and with  *)
(* main: OnTrack assigns to it what handleTrack returns and tests it, and  *)
(* handleTrack of srs does both before, without a lock.  A dump that       *)
(* cannot be opened leaves a nil writer in the variable of main, which is  *)
(* not the nil interface that main and writeTrackToDisk test for: using it *)
(* ends the process.                                                       *)
(***************************************************************************)
CONSTANT Track  \* the tracks the server may send: one per kind at most

ASSUME TrackAssumption == Track \subseteq {"audio", "video"}

VARIABLES
  program,   \* which startPlay it is: "srs" or "janus"
  poller,    \* the polling goroutine of the Janus session
  parent,    \* the context of Run
  ctx,       \* its child, "nil" until OnTrack is registered
  main,      \* the goroutine of startPlay
  pc,        \* the ICE state of the peer connection
  handler,   \* [Track -> Phase]: the goroutines of OnTrack
  outcome,   \* [Track -> Error or "none"]: what handleTrack returns
  err,       \* the shared variable
  returned,  \* what startPlay returned
  file,      \* [Track -> FileState]: the dump of a track
  pli,       \* the goroutine of the video handler that asks for key frames
  stats      \* the goroutine that polls GetStats

session == <<program, poller>>
handling == <<handler, outcome, err, file>>
vars == <<session, parent, ctx, main, pc, handling, returned, pli, stats>>

Error == {"nil", "failed", "canceled"}
Phase == {"none", "lost", "born", "opened", "read", "inner", "tested", "outer", "done"}
FileState == {"none", "open", "broken", "closed"}
Over == main \in {"returned", "crashed"}

TypeOK ==
  /\ parent \in {"live", "done"} /\ ctx \in {"nil", "live", "done"}
  /\ program \in {"srs", "janus"} /\ poller \in {"none", "poll", "done"}
  /\ main \in {"offer", "request", "discover", "subscribe", "answered", "wait",
               "closing", "returned", "crashed"}
  /\ pc \in {"none", "new", "connecting", "connected", "failed", "closed"}
  /\ handler \in [Track -> Phase]
  /\ outcome \in [Track -> Error \cup {"none"}]
  /\ err \in Error /\ returned \in Error \cup {"none"}
  /\ file \in [Track -> FileState]
  /\ pli \in {"none", "run", "done"} /\ stats \in {"none", "run", "done"}

Init ==
  /\ program \in {"srs", "janus"} /\ poller = "none"
  /\ parent = "live" /\ ctx = "nil" /\ main = "offer" /\ pc = "none"
  /\ handler = [t \in Track |-> "none"] /\ outcome = [t \in Track |-> "none"]
  /\ err = "nil" /\ returned = "none"
  /\ file = [t \in Track |-> "none"] /\ pli = "none" /\ stats = "none"

-----------------------------------------------------------------------------
(* Main.                                                                    *)

Interrupt ==
  /\ parent = "live"
  /\ parent' = "done" /\ ctx' = IF ctx = "nil" THEN "nil" ELSE "done"
  /\ UNCHANGED <<session, main, pc, handling, returned, pli, stats>>

Offer ==
  /\ main = "offer"
  /\ main' = "request" /\ pc' = "new"
  /\ UNCHANGED <<session, parent, ctx, handling, returned, pli, stats>>

\* The peer connection cannot be made, the offer fails, or the request, which
\* is Create with janus, does.
Fails ==
  /\ main \in {"offer", "request"}
  /\ main' = "returned" /\ returned' = "failed"
  /\ IF main = "offer" THEN pc' \in {"none", "closed"} ELSE pc' = "closed"
  /\ UNCHANGED <<session, parent, ctx, handling, pli, stats>>

Answered ==
  /\ main = "request" /\ program = "srs"
  /\ main' = "answered" /\ pc' = "connecting"
  /\ UNCHANGED <<session, parent, ctx, handling, returned, pli, stats>>

Created ==
  /\ main = "request" /\ program = "janus"
  /\ main' = "discover" /\ poller' = "poll"
  /\ UNCHANGED <<program, parent, ctx, pc, handling, returned, pli, stats>>

\* The publisher is found and joined, and the answer to its offer is set.
Discovered ==
  /\ main = "discover"
  /\ main' = "subscribe" /\ pc' = "connecting"
  /\ UNCHANGED <<session, parent, ctx, handling, returned, pli, stats>>

Subscribed ==
  /\ main = "subscribe"
  /\ main' = "answered"
  /\ UNCHANGED <<session, parent, ctx, pc, handling, returned, pli, stats>>

\* A call fails, is canceled, or brings an offer that is no good.
CallFails ==
  /\ main \in {"discover", "subscribe"}
  /\ main' = "closing" /\ returned' = "failed"
  /\ UNCHANGED <<session, parent, ctx, pc, handling, pli, stats>>

\* The context, OnTrack and OnICEConnectionStateChange, and the statistics.
Register ==
  /\ main = "answered"
  /\ main' = "wait" /\ ctx' = parent
  /\ stats' = IF program = "srs" THEN "run" ELSE "none"
  /\ UNCHANGED <<session, parent, pc, handling, returned, pli>>

\* The process is gone, and every goroutine with it.
Crash ==
  /\ main' = "crashed" /\ pc' = "closed" /\ pli' = "done" /\ stats' = "done"
  /\ handler' = [t \in Track |-> "done"]
  /\ UNCHANGED <<session, parent, ctx, outcome, err, file, returned>>

Broken == \E t \in Track : file[t] = "broken"

\* Mutant: the peer connection is left open.
ReturnOpen ==
  /\ main = "wait" /\ stats = "done" /\ ~Broken
  /\ main' = "returned" /\ returned' = err
  /\ file' = [t \in Track |-> IF file[t] = "open" THEN "closed" ELSE file[t]]
  /\ UNCHANGED <<session, parent, ctx, pc, handler, outcome, err, pli, stats>>

\* wg.Wait is over: err is read, the dumps are closed, then pc. wg counts
\* the goroutine of the statistics and no handler.
Return ==
  /\ main = "wait" /\ stats = "done" /\ ~Broken
  /\ main' = "returned" /\ returned' = err /\ pc' = "closed"
  /\ file' = [t \in Track |-> IF file[t] = "open" THEN "closed" ELSE file[t]]
  /\ UNCHANGED <<session, parent, ctx, handler, outcome, err, pli, stats>>

\* <-ctx.Done(); return nil, whatever ended it. The session is closed first ...
Leaves ==
  /\ main = "wait" /\ program = "janus" /\ ctx = "done"
  /\ main' = "closing" /\ returned' = "nil"
  /\ UNCHANGED <<session, parent, ctx, pc, handling, pli, stats>>

\* ... its poller stops by Close or by the context of Run ...
PollStop ==
  /\ poller = "poll" /\ (main = "closing" \/ parent = "done")
  /\ poller' = "done"
  /\ UNCHANGED <<program, parent, ctx, main, pc, handling, returned, pli, stats>>

\* ... or at any time, when a poll fails ...
PollError ==
  /\ poller = "poll"
  /\ poller' = "done"
  /\ UNCHANGED <<program, parent, ctx, main, pc, handling, returned, pli, stats>>

\* ... and then pc.
SessionClosed ==
  /\ main = "closing" /\ poller = "done"
  /\ main' = "returned" /\ pc' = "closed"
  /\ UNCHANGED <<session, parent, ctx, handling, returned, pli, stats>>

\* The deferred Close of a nil writer.
CloseCrashes == main = "wait" /\ stats = "done" /\ Broken /\ Crash

StatsEnd ==
  /\ stats = "run" /\ ctx = "done"
  /\ stats' = "done"
  /\ UNCHANGED <<session, parent, ctx, main, pc, handling, returned, pli>>

-----------------------------------------------------------------------------
(* The peer connection.                                                     *)

Connected ==
  /\ pc = "connecting" /\ pc' = "connected"
  /\ UNCHANGED <<session, parent, ctx, main, handling, returned, pli, stats>>

\* pion calls the handler of ICE states itself; before Register there is none.
IceFailed ==
  /\ pc \in {"connecting", "connected"} /\ pc' = "failed"
  /\ ctx' = IF ctx = "nil" THEN "nil" ELSE "done"
  /\ UNCHANGED <<session, parent, main, handling, returned, pli, stats>>

\* The first packet of a track. pion drops a track that nobody handles.
OnTrack(t) ==
  /\ pc = "connected" /\ handler[t] = "none"
  /\ handler' = [handler EXCEPT ![t] = IF ctx = "nil" THEN "lost" ELSE "born"]
  /\ UNCHANGED <<session, parent, ctx, main, pc, outcome, err, returned, file, pli, stats>>

-----------------------------------------------------------------------------
(* handleTrack.                                                             *)

HandlerGoes(t, phase) == handler' = [handler EXCEPT ![t] = phase]

\* Only for video, and with -pli.
StartPli(t) == IF t = "video" THEN pli' \in {"run", "done"} ELSE pli' = pli

\* Without -da or -dv, and with janus: read from the track.
HandleUndumped(t) ==
  /\ handler[t] = "born" /\ HandlerGoes(t, "read") /\ StartPli(t)
  /\ UNCHANGED <<session, parent, ctx, main, pc, outcome, err, returned, file, stats>>

\* The writer is made, or not: err is assigned. oggwriter.New may return a
\* nil writer and a nil error.
HandleDumped(t) ==
  /\ program = "srs"
  /\ handler[t] = "born" /\ HandlerGoes(t, "opened") /\ StartPli(t)
  /\ \/ file' = [file EXCEPT ![t] = "open"] /\ err' = "nil"
     \/ file' = [file EXCEPT ![t] = "broken"] /\ err' \in {"failed", "nil"}
  /\ UNCHANGED <<session, parent, ctx, main, pc, outcome, returned, stats>>

\* if da, err = oggwriter.New(...); err != nil. The test of err and the use
\* of it in Wrapf are one step here.
OpenTest(t) ==
  /\ handler[t] = "opened"
  /\ IF err = "nil"
       THEN HandlerGoes(t, "read") /\ UNCHANGED outcome
       ELSE HandlerGoes(t, "tested") /\ outcome' = [outcome EXCEPT ![t] = err]
  /\ UNCHANGED <<session, parent, ctx, main, pc, err, returned, file, pli, stats>>

\* The codec is unknown, or the suffix of the file wrong.
HandleRefused(t) ==
  /\ program = "srs"
  /\ handler[t] = "born" /\ HandlerGoes(t, "tested") /\ StartPli(t)
  /\ \E e \in {"nil", "failed"} : outcome' = [outcome EXCEPT ![t] = e]
  /\ UNCHANGED <<session, parent, ctx, main, pc, err, returned, file, stats>>

\* What writeTrackToDisk returns when ReadRTP fails, or when its loop sees
\* that ctx is done.
WriteResult == IF ctx = "done" THEN {"nil", "canceled"} ELSE {"failed"}

WriteEnds(t) ==
  /\ handler[t] = "read" /\ program = "srs"
  /\ HandlerGoes(t, "inner") /\ err' \in WriteResult
  /\ UNCHANGED <<session, parent, ctx, main, pc, outcome, returned, file, pli, stats>>

\* return writeTrackToDisk(ctx, track)
WriteReturns(t) ==
  /\ handler[t] = "read" /\ program = "janus" /\ HandlerGoes(t, "tested")
  /\ \E e \in WriteResult : outcome' = [outcome EXCEPT ![t] = e]
  /\ UNCHANGED <<session, parent, ctx, main, pc, err, returned, file, pli, stats>>

\* WriteRTP of a nil writer, where main has not closed it.
WriteCrashes(t) ==
  /\ handler[t] = "read" /\ file[t] = "broken" /\ pc = "connected" /\ Crash

\* if err = writeTrackToDisk(...); err != nil: what handleTrack returns is
\* what err is now.
InnerTest(t) ==
  /\ handler[t] = "inner" /\ HandlerGoes(t, "tested")
  /\ outcome' = [outcome EXCEPT ![t] = err]
  /\ UNCHANGED <<session, parent, ctx, main, pc, err, returned, file, pli, stats>>

\* err = handleTrack(...)
OuterAssign(t) ==
  /\ handler[t] = "tested" /\ HandlerGoes(t, "outer")
  /\ err' = outcome[t]
  /\ UNCHANGED <<session, parent, ctx, main, pc, outcome, returned, file, pli, stats>>

\* if err != nil { cancel() }
OuterTest(t) ==
  /\ handler[t] = "outer" /\ HandlerGoes(t, "done")
  /\ ctx' = IF err = "nil" THEN ctx ELSE "done"
  /\ UNCHANGED <<session, parent, main, pc, outcome, err, returned, file, pli, stats>>

PliEnds ==
  /\ pli = "run" /\ ctx = "done"
  /\ pli' = "done"
  /\ UNCHANGED <<session, parent, ctx, main, pc, handling, returned, stats>>

-----------------------------------------------------------------------------

Handle(t) ==
  HandleUndumped(t) \/ HandleDumped(t) \/ HandleRefused(t)

Handler(t) ==
  \/ Handle(t) \/ OpenTest(t) \/ WriteEnds(t) \/ WriteReturns(t) \/ WriteCrashes(t)
  \/ InnerTest(t) \/ OuterAssign(t) \/ OuterTest(t)

Next ==
  \/ Interrupt \/ Offer \/ Fails \/ Answered \/ Register \/ Return
  \/ Created \/ Discovered \/ Subscribed \/ CallFails \/ Leaves
  \/ PollStop \/ PollError \/ SessionClosed
  \/ CloseCrashes \/ StatsEnd
  \/ Connected \/ IceFailed \/ PliEnds
  \/ \E t \in Track : OnTrack(t) \/ Handler(t)

Spec == Init /\ [][Next]_vars

\* Goroutines run; a request or a call ends when its context does, and a read
\* from a track when the connection is closed.
Fairness ==
  /\ WF_vars(Offer) /\ WF_vars(parent = "done" /\ (Fails \/ CallFails))
  /\ WF_vars(Register \/ Return \/ CloseCrashes \/ Leaves \/ SessionClosed)
  /\ WF_vars(PollStop) /\ WF_vars(StatsEnd) /\ WF_vars(PliEnds)
  /\ \A t \in Track :
       /\ WF_vars(Handle(t) \/ OpenTest(t) \/ InnerTest(t) \/ OuterAssign(t) \/ OuterTest(t))
       /\ WF_vars(pc = "closed" /\ (WriteEnds(t) \/ WriteReturns(t)))

FairSpec == Spec /\ Fairness

-----------------------------------------------------------------------------
(* Properties.                                                              *)

Gone(t) == handler[t] \in {"none", "lost", "done"}

\* When startPlay has returned, its connection, session and statistics are
\* closed, and its context is not live, so that a handler, which it does not
\* wait for, finds nothing to go on with (the deferred calls, wg.Wait, cancel).
ReturnLeavesNothing ==
  main = "returned" =>
    /\ pc \in {"none", "closed"} /\ poller # "poll" /\ stats # "run"
    /\ ctx # "live"

\* With janus, where only OnTrack assigns to err, the failure of a track is not
\* lost on the other track: behind the test of err the player is canceled.
FailureKept ==
  program = "janus" =>
    \A t \in Track : outcome[t] = "failed" /\ handler[t] = "done" => ctx = "done"

\* Interrupting the run ends the player wherever it is; when startPlay has
\* returned, the connection and the session are closed and the handlers, which
\* it does not wait for, end in time (defer pc.Close, ctx.Err() == nil); and
\* where only OnTrack assigns to err, a track that fails ends the player,
\* although the tracks share err: what the other assigns is nil only when ctx
\* is done.
PlayerEnds ==
  /\ parent = "done" ~> Over
  /\ main = "returned" ~>
       /\ pc \in {"none", "closed"} /\ pli # "run" /\ poller # "poll"
       /\ \A t \in Track : Gone(t)
  /\ \A t \in Track : program = "janus" /\ outcome[t] = "failed" ~> Over

\* "Wait for event from context or tracks": a track whose handler fails ends
\* the player.
TrackFailureEnds == \A t \in Track : outcome[t] = "failed" ~> Over
=============================================================================
