---------------------------- MODULE TestPublisher ----------------------------
(* The publisher of the regression tests (testPublisher in srs/util.go) with its
   ingesters (srs/ingester.go).  Run negotiates by one HTTP request, then starts
   a goroutine for each medium, which waits for the peer connection and starts
   another that reads RTCP, and one that stops the senders when the context of
   the test is done.  pion tells the states of a connection to a callback, each
   in a goroutine, and to nobody before the callback is registered.          *)

VARIABLES
  ctx,        \* the context of the test: "live", or what it is done for: a
              \* timeout, a failure of the publisher, or anything else
  media,      \* the media that the flags name a file for
  publisher,  \* the goroutine that calls Run
  pubResult,  \* what Run returned; "ended" is the error of ctx
  pubPc,      \* the state of the peer connection
  pubTold,    \* what callback goroutines are told that have not run yet: that
              \* it is "connected", or "down", failed or closed
  pcDone,     \* whether the connection was up, which is also iceReadyCancel
  finalErr,   \* whether finalErr is set
  sender,     \* [Media -> ...]: the senders of the ingesters
  ready,      \* [Media -> BOOLEAN]: the contexts named ready
  ingester,   \* [Media -> ...]: the goroutines that send a file
  reader,     \* [Media -> ...]: the goroutines that read RTCP
  closer      \* the goroutine that stops the senders: the next one, if any

pubConnection == <<pubPc, pubTold, pcDone>>
pubGoroutines == <<ingester, reader, closer>>
ingesting == <<finalErr, sender, ready, pubGoroutines>>
pubVars == <<media, publisher, pubResult, pubConnection, ingesting>>

Media == {"audio", "video"}
PcState == {"none", "new", "connecting", "connected", "failed", "closed"}
Cause == {"timeout", "failed", "over"}
Done == ctx # "live"

PubTypeOK ==
  /\ ctx \in {"live"} \cup Cause
  /\ media \subseteq Media
  /\ publisher \in {"none", "skipped", "offer", "request", "answered", "wait", "returned", "done"}
  /\ pubResult \in {"none", "error", "ended"}
  /\ pubPc \in PcState /\ pubTold \subseteq {"connected", "down"}
  /\ pcDone \in BOOLEAN /\ finalErr \in BOOLEAN
  /\ sender \in [Media -> {"none", "bound", "stopped"}] /\ ready \in [Media -> BOOLEAN]
  /\ ingester \in [Media -> {"none", "wait", "open", "again", "work", "failed", "leave", "done"}]
  /\ reader \in [Media -> {"none", "work", "done"}]
  /\ closer \in {"none", "wait", "audio", "video", "done"}
  /\ \A m \in Media \ media : sender[m] = "none" /\ reader[m] = "none" /\ ~ready[m]

PubInit ==
  /\ ctx = "live" /\ media \in {Media, {"video"}}
  /\ publisher = "none" /\ pubResult = "none"
  /\ pubPc = "none" /\ pubTold = {} /\ pcDone = FALSE /\ finalErr = FALSE
  /\ sender = [m \in Media |-> "none"] /\ ready = [m \in Media |-> FALSE]
  /\ ingester = [m \in Media |-> "none"] /\ reader = [m \in Media |-> "none"]
  /\ closer = "none"

(* The first who cancels the context decides what it is done for. *)
Cancel(why) == ctx' = IF Done THEN ctx ELSE why

-----------------------------------------------------------------------------
(* The peer connection. *)

(* finalErr, which nobody reads once Run has returned it. *)
Fails == finalErr' = (finalErr \/ publisher = "wait")

Registered == closer # "none"

PubTell(state) ==
  /\ pubPc' = state
  /\ pubTold' = pubTold \cup
       {told \in {IF state = "connected" THEN state ELSE "down"} : Registered}

PubConnected ==
  /\ pubPc = "connecting" /\ PubTell("connected")
  /\ UNCHANGED <<ctx, media, publisher, pubResult, pcDone, ingesting>>

PubFailed ==
  /\ pubPc \in {"connecting", "connected"} /\ PubTell("failed")
  /\ UNCHANGED <<ctx, media, publisher, pubResult, pcDone, ingesting>>

(* The handler of the DTLS transport, which the sender of audio is asked for,
   is called by pion itself, before the connection fails.                    *)
DtlsFailed ==
  /\ pubPc = "connecting" /\ PubTell("failed")
  /\ IF Registered /\ "audio" \in media THEN Fails /\ Cancel("failed")
                                         ELSE UNCHANGED <<finalErr, ctx>>
  /\ UNCHANGED <<media, publisher, pubResult, pcDone, sender, ready, pubGoroutines>>

(* The handler of OnConnectionStateChange. *)
PubCallback ==
  \E state \in pubTold :
    /\ pubTold' = pubTold \ {state}
    /\ IF state = "connected" THEN pcDone' = TRUE /\ UNCHANGED <<finalErr, ctx>>
       ELSE Fails /\ Cancel("failed") /\ UNCHANGED pcDone
    /\ UNCHANGED <<media, publisher, pubResult, pubPc, sender, ready, pubGoroutines>>

-----------------------------------------------------------------------------
(* Run, until its goroutines run. *)

(* The connection, and a track for each file, video first. *)
PubOffer ==
  /\ publisher = "offer"
  /\ publisher' = "request" /\ pubPc' = "new"
  /\ sender' = [m \in Media |-> IF m \in media THEN "bound" ELSE "none"]
  /\ UNCHANGED <<ctx, media, pubResult, pubTold, pcDone, finalErr, ready, pubGoroutines>>

PubOfferFails ==
  /\ publisher = "offer"
  /\ publisher' = "returned" /\ pubResult' = "error"
  /\ \/ UNCHANGED <<pubPc, sender>>
     \/ /\ pubPc' = "new"
        /\ \E bound \in {{}, {"video"}, media} :
             sender' = [m \in Media |-> IF m \in bound THEN "bound" ELSE "none"]
  /\ UNCHANGED <<ctx, media, pubTold, pcDone, finalErr, ready, pubGoroutines>>

(* The answer, a proxy for its address, and SetRemoteDescription. *)
PubAnswered ==
  /\ publisher = "request"
  /\ publisher' = "answered" /\ pubPc' = "connecting"
  /\ UNCHANGED <<ctx, media, pubResult, pubTold, pcDone, ingesting>>

(* A request that ctx ends is an error, too: one of net/http, not of ctx. *)
PubRequestFails ==
  /\ publisher = "request"
  /\ publisher' = "returned" /\ pubResult' = "error"
  /\ UNCHANGED <<ctx, media, pubConnection, ingesting>>

(* The callbacks and the goroutines, those without a file included. *)
Register ==
  /\ publisher = "answered"
  /\ publisher' = "wait"
  /\ closer' = "wait" /\ ingester' = [m \in Media |-> "wait"]
  /\ UNCHANGED <<ctx, media, pubResult, pubConnection, finalErr, sender, ready, reader>>

Ended(goroutine) == goroutine \in {"none", "done"}
PubEnded == Ended(closer) /\ \A m \in Media : Ended(ingester[m]) /\ Ended(reader[m])

PubReturn ==
  /\ publisher = "wait" /\ PubEnded
  /\ publisher' = "returned" /\ pubResult' = IF finalErr THEN "error" ELSE "ended"
  /\ UNCHANGED <<ctx, media, pubConnection, ingesting>>

-----------------------------------------------------------------------------
(* The goroutines of the ingesters. *)

ToIngest(m, from, to) ==
  /\ ingester[m] = from /\ ingester' = [ingester EXCEPT ![m] = to]

(* Without a file it returns at once, which cancels the test. *)
IngesterWakes(m) ==
  /\ \/ (Done \/ m \notin media) /\ ToIngest(m, "wait", "leave") /\ UNCHANGED reader
     \/ /\ m \in media /\ pcDone /\ ToIngest(m, "wait", "open")
        /\ reader' = [reader EXCEPT ![m] = "work"]
  /\ UNCHANGED <<ctx, media, publisher, pubResult, pubConnection, finalErr, sender, ready,
                 closer>>

(* The error of a context out of time is kept, that of a canceled one is not. *)
KeepTimeout == finalErr' = (finalErr \/ ctx = "timeout")

(* Ingest up to its loop: the file and the parameters of the sender. *)
IngestOpens(m) ==
  /\ ingester[m] \in {"open", "again"}
  /\ IF Done THEN ToIngest(m, ingester[m], "leave") /\ KeepTimeout
             ELSE ToIngest(m, ingester[m], "work") /\ UNCHANGED finalErr
  /\ ready' = [ready EXCEPT ![m] = TRUE]
  /\ UNCHANGED <<ctx, media, publisher, pubResult, pubConnection, sender, reader, closer>>

IngestStops(m) ==
  /\ Done /\ ToIngest(m, "work", "leave") /\ KeepTimeout
  /\ UNCHANGED <<ctx, media, publisher, pubResult, pubConnection, sender, ready, reader, closer>>

(* At the end of the file, whether or not ctx is done. *)
IngestAgain(m) ==
  /\ ToIngest(m, "work", "again")
  /\ UNCHANGED <<ctx, media, publisher, pubResult, pubConnection, finalErr, sender, ready,
                 reader, closer>>

(* The file cannot be opened or read, or a sample cannot be written. *)
IngestFails(m) ==
  /\ ingester[m] \in {"open", "again", "work"} /\ ToIngest(m, ingester[m], "failed")
  /\ finalErr' = TRUE
  /\ UNCHANGED <<ctx, media, publisher, pubResult, pubConnection, sender, ready, reader, closer>>

(* Mutant: nobody defers readyCancel. *)
IngesterLeavesUnready(m) ==
  /\ \/ ToIngest(m, "failed", "done") /\ Cancel("failed")
     \/ ToIngest(m, "leave", "done") /\ Cancel("over")
  /\ UNCHANGED <<media, publisher, pubResult, pubConnection, finalErr, sender, ready, reader,
                 closer>>

(* The deferred calls: readyCancel, and cancel. *)
IngesterLeaves(m) ==
  /\ \/ ToIngest(m, "failed", "done") /\ Cancel("failed")
     \/ ToIngest(m, "leave", "done") /\ Cancel("over")
  /\ ready' = [ready EXCEPT ![m] = m \in media]
  /\ UNCHANGED <<media, publisher, pubResult, pubConnection, finalErr, sender, reader, closer>>

(* Read fails, or its packet is the last one before ctx is seen to be done.
   Whether the end of its sender interrupts it is left open.                 *)
ReaderEnds(m) ==
  /\ reader[m] = "work" /\ reader' = [reader EXCEPT ![m] = "done"]
  /\ UNCHANGED <<ctx, media, publisher, pubResult, pubConnection, finalErr, sender, ready,
                 ingester, closer>>

-----------------------------------------------------------------------------
(* The goroutine that stops the senders. *)

CloserWakes ==
  /\ closer = "wait" /\ Done /\ closer' = "audio"
  /\ UNCHANGED <<ctx, media, publisher, pubResult, pubConnection, finalErr, sender, ready,
                 ingester, reader>>

After(m) == IF m = "audio" THEN "video" ELSE "done"

Stopped(m) == sender' = [sender EXCEPT ![m] = IF m \in media THEN "stopped" ELSE "none"]

(* Mutant: it does not wait for the ingester. *)
CloserStopsAtOnce(m) ==
  /\ closer = m /\ closer' = After(m) /\ Stopped(m)
  /\ ready' = [ready EXCEPT ![m] = m \in media]
  /\ UNCHANGED <<ctx, media, publisher, pubResult, pubConnection, finalErr, ingester, reader>>

(* "We MUST wait for the ingester ready(or closed)". *)
CloserStops(m) ==
  /\ closer = m /\ (m \in media => ready[m]) /\ closer' = After(m) /\ Stopped(m)
  /\ UNCHANGED <<ctx, media, publisher, pubResult, pubConnection, finalErr, ready, ingester,
                 reader>>

-----------------------------------------------------------------------------

Ingester(m) ==
  IngesterWakes(m) \/ IngestOpens(m) \/ IngestStops(m) \/ IngestAgain(m) \/ IngesterLeaves(m)
Closer == CloserWakes \/ \E m \in Media : CloserStops(m)
PubRun == PubOffer \/ PubOfferFails \/ Register \/ PubReturn
PubEnvironment ==
  \/ PubConnected \/ PubFailed \/ DtlsFailed \/ PubAnswered
  \/ \E m \in Media : IngestFails(m) \/ ReaderEnds(m)

(* The ingesters, each made ready, then the connection. *)
PubClose ==
  /\ sender' = [m \in Media |-> IF sender[m] = "bound" THEN "stopped" ELSE sender[m]]
  /\ ready' = [m \in Media |-> m \in media]
  /\ IF pubPc \in {"none", "closed"} THEN UNCHANGED <<pubPc, pubTold>> ELSE PubTell("closed")
=============================================================================
