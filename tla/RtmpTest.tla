------------------------------ MODULE RtmpTest ------------------------------
(***************************************************************************)
(* The RTMP and HTTP-FLV clients of the regression tests (srs/util.go) and *)
(* a test that owns a publisher and a player (srs/rtmp_test.go).           *)
(*                                                                         *)
(* Neither Ingest nor Consume looks at its context while it waits for the  *)
(* server: a goroutine beside each closes the connection when the context  *)
(* is done, and is waited for.  The player derives a context, and so ends  *)
(* by itself; the publisher does not.  With two files the first has a      *)
(* context of its own, ctxAvatar, and must leave the connection open.      *)
(***************************************************************************)
EXTENDS Integers, Sequences

CONSTANT Kind  \* the tests: "rtmp" or "flv" says what is played, "twice" sends two files

ASSUME KindAssumption == Kind \subseteq {"rtmp", "flv", "twice"}

VARIABLES
  kind,          \* the test
  test,          \* its goroutine
  testCtx,       \* its context: "live", "canceled" or "expired"
  ctxAvatar,     \* the context of the first of two files
  transport,     \* the connection of the publisher: "none", "open" or "closed"
  playing,       \* that of the player
  publisher,     \* the goroutine that calls Ingest
  closeTransportWhenIngestDone,
  ingestCloser,  \* [1 .. 2 -> Closer]: the goroutine beside each Ingest
  player,        \* the goroutine that calls Consume
  playCloser,    \* the goroutine beside Consume
  played,        \* whether the player had what it was to have in time
  broken,        \* whether a server or a file has failed
  errs           \* which of err and r0 to r2 are errors that are not filtered

rtmpCtxs == <<testCtx, ctxAvatar>>
publishing == <<transport, publisher, closeTransportWhenIngestDone, ingestCloser>>
consuming == <<playing, player, playCloser>>
rtmpVars == <<kind, test, rtmpCtxs, publishing, consuming, played, broken, errs>>

Closer == {"none", "wait", "done"}
CtxState == {"live", "canceled", "expired"}

RtmpTypeOK ==
  /\ kind \in Kind /\ test \in {"publish", "play", "wait", "over"}
  /\ testCtx \in CtxState /\ ctxAvatar \in CtxState
  /\ transport \in {"none", "open", "closed"} /\ playing \in {"none", "open", "closed"}
  /\ publisher \in {"none", "start", "first", "firstDone", "next", "second", "secondDone", "done"}
  /\ closeTransportWhenIngestDone \in BOOLEAN
  /\ ingestCloser \in [1 .. 2 -> Closer] /\ playCloser \in Closer
  /\ player \in {"none", "start", "request", "consume", "leave", "done"}
  /\ played \in BOOLEAN /\ broken \in BOOLEAN /\ errs \subseteq {"err", "r0", "r1", "r2"}

RtmpInit ==
  /\ kind \in Kind /\ test = "publish"
  /\ testCtx = "live" /\ ctxAvatar = "live"
  /\ transport = "none" /\ playing = "none" /\ publisher = "none" /\ player = "none"
  /\ closeTransportWhenIngestDone = TRUE
  /\ ingestCloser = [i \in 1 .. 2 |-> "none"] /\ playCloser = "none"
  /\ played = FALSE /\ broken = FALSE /\ errs = {}

\* A context ends once, and with it the one below it.
End(how) ==
  /\ testCtx' = IF testCtx = "live" THEN how ELSE testCtx
  /\ ctxAvatar' = IF ctxAvatar = "live" THEN testCtx' ELSE ctxAvatar

\* if r = ...; r != nil { cancel() }
Result(r, failed) ==
  IF failed THEN errs' = errs \cup {r} /\ End("canceled")
            ELSE UNCHANGED <<errs, rtmpCtxs>>

-----------------------------------------------------------------------------
(* The test.                                                                *)

Timeout ==
  /\ testCtx = "live" /\ test # "over"
  /\ End("expired")
  /\ UNCHANGED <<kind, test, publishing, consuming, played, broken, errs>>

\* publisher.Publish: the exchanges do not look at the context.
Published ==
  /\ test = "publish"
  /\ test' = "play" /\ transport' = "open"
  /\ UNCHANGED <<kind, rtmpCtxs, publisher, closeTransportWhenIngestDone, ingestCloser,
                 consuming, played, broken, errs>>

\* player.Play, which makes no connection with FLV; then the goroutines.
Plays ==
  /\ test = "play"
  /\ test' = "wait" /\ publisher' = "start" /\ player' = "start"
  /\ playing' = IF kind = "flv" THEN "none" ELSE "open"
  /\ UNCHANGED <<kind, rtmpCtxs, transport, closeTransportWhenIngestDone, ingestCloser,
                 playCloser, played, broken, errs>>

\* The deferred Close of both.
CloseClients ==
  /\ transport' = IF transport = "none" THEN "none" ELSE "closed"
  /\ playing' = IF playing = "none" THEN "none" ELSE "closed"

ConnectFails ==
  /\ test = "publish" \/ (test = "play" /\ kind # "flv")
  /\ test' = "over" /\ broken' = TRUE /\ errs' = {"err"} /\ CloseClients
  /\ UNCHANGED <<kind, rtmpCtxs, publisher, closeTransportWhenIngestDone, ingestCloser, player,
                 playCloser, played>>

\* wg.Wait, then filterTestError.
TestReturns ==
  /\ test = "wait" /\ publisher = "done" /\ player = "done"
  /\ test' = "over" /\ CloseClients
  /\ UNCHANGED <<kind, rtmpCtxs, publisher, closeTransportWhenIngestDone, ingestCloser, player,
                 playCloser, played, broken, errs>>

Passes == test = "over" /\ testCtx # "expired" /\ errs = {}

-----------------------------------------------------------------------------
(* RTMPPublisher.Ingest.                                                    *)

\* The context of a file.
IngestCtx(i) == IF kind = "twice" /\ i = 1 THEN ctxAvatar ELSE testCtx

IngestFirst ==
  /\ publisher = "start"
  /\ publisher' = "first" /\ ingestCloser' = [ingestCloser EXCEPT ![1] = "wait"]
  /\ closeTransportWhenIngestDone' = (kind # "twice")
  /\ UNCHANGED <<kind, test, rtmpCtxs, transport, consuming, played, broken, errs>>

IngestSecond ==
  /\ publisher = "next"
  /\ publisher' = "second" /\ ingestCloser' = [ingestCloser EXCEPT ![2] = "wait"]
  /\ closeTransportWhenIngestDone' = TRUE
  /\ UNCHANGED <<kind, test, rtmpCtxs, transport, consuming, played, broken, errs>>

\* onSendPacket has seen enough of the first of two files.
CancelAvatar ==
  /\ kind = "twice" /\ publisher = "first" /\ transport = "open" /\ ctxAvatar = "live"
  /\ ctxAvatar' = "canceled"
  /\ UNCHANGED <<kind, test, testCtx, publishing, consuming, played, broken, errs>>

Ingesting(i) == publisher = <<"first", "second">>[i]
\* Where ingest has returned, and the deferred wait for the closer is left.
IngestEnds(i) == publisher' = <<"firstDone", "secondDone">>[i]

\* The end of the file.
IngestEof(i) ==
  /\ Ingesting(i) /\ transport = "open"
  /\ IngestEnds(i)
  /\ UNCHANGED <<kind, test, rtmpCtxs, transport, closeTransportWhenIngestDone, ingestCloser,
                 consuming, played, broken, errs>>

\* A write fails, since the transport is closed, or the server has left, or a
\* read of the file. It is no error if the context was canceled before.
IngestFails(i) ==
  /\ Ingesting(i)
  /\ IngestEnds(i)
  /\ broken' = (broken \/ transport = "open")
  /\ errs' = IF IngestCtx(i) = "canceled" THEN errs ELSE errs \cup {<<"r0", "r2">>[i]}
  /\ UNCHANGED <<kind, test, rtmpCtxs, transport, closeTransportWhenIngestDone, ingestCloser,
                 consuming, played>>

\* The goroutine beside it.
IngestCloses(i) ==
  /\ ingestCloser[i] = "wait" /\ IngestCtx(i) # "live"
  /\ ingestCloser' = [ingestCloser EXCEPT ![i] = "done"]
  /\ transport' = IF closeTransportWhenIngestDone THEN "closed" ELSE transport
  /\ UNCHANGED <<kind, test, rtmpCtxs, publisher, closeTransportWhenIngestDone, consuming,
                 played, broken, errs>>

\* Mutant: Ingest does not wait for the goroutine beside it.
IngestReturnsAtOnce(i) ==
  /\ publisher = <<"firstDone", "secondDone">>[i]
  /\ publisher' = IF kind = "twice" /\ i = 1 THEN "next" ELSE "done"
  /\ Result(<<"r0", "r2">>[i], <<"r0", "r2">>[i] \in errs)
  /\ UNCHANGED <<kind, test, transport, closeTransportWhenIngestDone, ingestCloser, consuming,
                 played, broken>>

\* An error comes out when the context is done, and not before.
IngestReturns(i) ==
  /\ publisher = <<"firstDone", "secondDone">>[i] /\ ingestCloser[i] = "done"
  /\ publisher' = IF kind = "twice" /\ i = 1 THEN "next" ELSE "done"
  /\ Result(<<"r0", "r2">>[i], <<"r0", "r2">>[i] \in errs)
  /\ UNCHANGED <<kind, test, transport, closeTransportWhenIngestDone, ingestCloser, consuming,
                 played, broken>>

-----------------------------------------------------------------------------
(* RTMPPlayer.Consume and FLVPlayer.Consume.                                *)

\* With FLV after a while, and the connection is yet to be made.
ConsumeBegins ==
  /\ player = "start"
  /\ player' = IF kind = "flv" THEN "request" ELSE "consume"
  /\ playCloser' = "wait"
  /\ UNCHANGED <<kind, test, rtmpCtxs, publishing, playing, played, broken, errs>>

\* FLVPlayer.play has its response, maybe after the goroutine beside it found
\* nothing to close.
FlvAnswered ==
  /\ player = "request"
  /\ player' = "consume" /\ playing' = "open"
  /\ UNCHANGED <<kind, test, rtmpCtxs, publishing, playCloser, played, broken, errs>>

\* An error of play is not compared with the context's.
FlvRequestFails ==
  /\ player = "request"
  /\ player' = "leave" /\ errs' = errs \cup {"r1"}
  /\ broken' = (broken \/ testCtx = "live")
  /\ UNCHANGED <<kind, test, rtmpCtxs, publishing, playing, playCloser, played>>

\* The callback has counted enough packets, of two files where there are two,
\* and cancels the test.
Complete ==
  /\ player = "consume" /\ playing = "open" /\ transport # "none"
  /\ publisher \in (IF kind = "twice" THEN {"second", "secondDone", "done"}
                    ELSE {"first", "firstDone", "done"})
  /\ End("canceled") /\ played' = (played \/ testCtx = "live")
  /\ UNCHANGED <<kind, test, publishing, consuming, broken, errs>>

\* Mutant: errors count although the test canceled the context.
ConsumeFailsLoudly ==
  /\ player = "consume"
  /\ player' = "leave" /\ errs' = errs \cup {"r1"}
  /\ broken' = (broken \/ (playing = "open" /\ testCtx = "live"))
  /\ UNCHANGED <<kind, test, rtmpCtxs, publishing, playing, playCloser, played>>

\* A read fails, at the end of the stream too, since the libraries wrap io.EOF.
ConsumeFails ==
  /\ player = "consume"
  /\ player' = "leave"
  /\ errs' = IF testCtx = "canceled" THEN errs ELSE errs \cup {"r1"}
  /\ broken' = (broken \/ (playing = "open" /\ testCtx = "live"))
  /\ UNCHANGED <<kind, test, rtmpCtxs, publishing, playing, playCloser, played>>

\* Mutant: the goroutine beside it closes nothing.
PlayNotClosed ==
  /\ playCloser = "wait" /\ (testCtx # "live" \/ player = "leave")
  /\ playCloser' = "done"
  /\ UNCHANGED <<kind, test, rtmpCtxs, publishing, playing, player, played, broken, errs>>

\* The goroutine beside it, when the test or Consume cancels the context.
PlayCloses ==
  /\ playCloser = "wait" /\ (testCtx # "live" \/ player = "leave")
  /\ playCloser' = "done"
  /\ playing' = IF playing = "open" THEN "closed" ELSE playing
  /\ UNCHANGED <<kind, test, rtmpCtxs, publishing, player, played, broken, errs>>

ConsumeReturns ==
  /\ player = "leave" /\ playCloser = "done"
  /\ player' = "done" /\ Result("r1", "r1" \in errs)
  /\ UNCHANGED <<kind, test, publishing, playing, playCloser, played, broken>>

-----------------------------------------------------------------------------

RtmpNext ==
  \/ Timeout \/ Published \/ Plays \/ ConnectFails \/ TestReturns
  \/ IngestFirst \/ IngestSecond \/ CancelAvatar
  \/ \E i \in 1 .. 2 : IngestEof(i) \/ IngestFails(i) \/ IngestCloses(i) \/ IngestReturns(i)
  \/ ConsumeBegins \/ FlvAnswered \/ FlvRequestFails \/ Complete \/ ConsumeFails
  \/ PlayCloses \/ ConsumeReturns

RtmpSpec == RtmpInit /\ [][RtmpNext]_rtmpVars

\* The timer fires, goroutines run, and a write or read ends once the transport
\* is closed or the context of the request is done. Nothing is assumed of the
\* server, which may stop reading and writing for ever.
RtmpFairness ==
  /\ WF_rtmpVars(Timeout) /\ WF_rtmpVars(TestReturns)
  /\ WF_rtmpVars(IngestFirst \/ IngestSecond)
  /\ \A i \in 1 .. 2 :
       /\ WF_rtmpVars(transport = "closed" /\ IngestFails(i))
       /\ WF_rtmpVars(IngestCloses(i)) /\ WF_rtmpVars(IngestReturns(i))
  /\ WF_rtmpVars(ConsumeBegins) /\ WF_rtmpVars(PlayCloses) /\ WF_rtmpVars(ConsumeReturns)
  /\ WF_rtmpVars(testCtx # "live" /\ (FlvAnswered \/ FlvRequestFails))
  /\ WF_rtmpVars((playing = "closed" \/ (kind = "flv" /\ testCtx # "live")) /\ ConsumeFails)

-----------------------------------------------------------------------------
(* Properties.                                                              *)

\* The connection of the publisher stays open from file to file, until the test
\* is complete, has failed or has timed out (closeTransportWhenIngestDone, and
\* the wait in Ingest).
TransportKept == transport = "closed" => testCtx # "live" \/ test = "over"

\* A test passes only if its player had its packets; and if it had, and neither
\* a server nor a file failed, closing the connections under the clients does
\* not make it fail (ctx.Err() == context.Canceled, filterTestError).
PassesIfPlayed ==
  test = "over" =>
    /\ Passes => played
    /\ played /\ ~broken => Passes

\* A test whose clients run is over some time after its timeout, whatever the
\* server does; with two files, if the first was sent, since nothing interrupts
\* that one.
RtmpTestEnds ==
  /\ (test = "wait" /\ kind # "twice") ~> test = "over"
  /\ publisher \in {"next", "second"} ~> test = "over"
=============================================================================
