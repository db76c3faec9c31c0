---------------------------- MODULE RtcTest_proof ----------------------------
(***************************************************************************)
(* The safety of a regression test, whatever the server sends: nothing is  *)
(* closed while it is used, and what ended the test is what it reports.    *)
(***************************************************************************)
EXTENDS RtcTest, TLAPS

\* A goroutine of the publisher exists only behind Register, and Run returns
\* behind all of them; a callback is told nothing before.
Launched ==
  /\ "video" \in media
  /\ publisher \in {"none", "skipped", "offer", "request", "answered"} => closer = "none"
  /\ closer = "none" =>
       /\ publisher # "wait" /\ pubTold = {} /\ ~finalErr
       /\ \A m \in Media : ingester[m] = "none" /\ reader[m] = "none"
  /\ publisher \in {"returned", "done"} => PubEnded
  /\ \A m \in Media : ingester[m] \in {"open", "again", "work", "failed"} => m \in media
  /\ publisher \in {"none", "skipped", "offer"} => pubPc = "none"
  /\ publisher \notin {"returned", "done"} => pubResult = "none"

\* What ends with a canceled context, and what the deferred calls wait for.
Canceled ==
  /\ closer \notin {"none", "wait"} => Done
  /\ setup = "done" => Done
  /\ test # "wait" =>
       setup = "done" /\ publisher \in {"skipped", "done"} /\ player \in {"skipped", "done"}

\* A sender is stopped only when its ingester is ready, which it is not before
\* its file is open; nothing is closed before the deferred calls of the test.
Unready ==
  /\ \A m \in Media :
       /\ sender[m] = "stopped" => ready[m]
       /\ ingester[m] \in {"wait", "open"} => ~ready[m]
       /\ ingester[m] = "none" /\ test \notin {"report", "ended"} => ~ready[m]
  /\ pubPc = "closed" => test \in {"report", "ended"}

\* The connection of the player is closed by the test alone, behind Run.
PlayerClosed ==
  /\ player \in {"none", "skipped"} => playPc = "none"
  /\ playPc = "closed" => test \in {"publisher", "report", "ended"}

\* What went wrong is known where the test is given its errors.
Known ==
  /\ setup \in {"made", "make"} => (mainReady <=> setup = "made")
  /\ setup = "failed" => ~mainReady
  /\ \A m \in Media : ingester[m] = "failed" => finalErr
  /\ ctx = "failed" => \/ SetupFailed \/ pubResult = "error"
                       \/ publisher = "wait" /\ finalErr
  /\ FailureFails

TestInv == TypeOK /\ Launched /\ Canceled /\ Unready /\ PlayerClosed /\ Known

-----------------------------------------------------------------------------
(* The steps of Next.                                                       *)

\* What the publisher does, in Run, in its goroutines and in its connection.
PubStep ==
  \/ PubOffer \/ PubOfferFails \/ PubRequestFails \/ PubAnswered \/ Register \/ PubReturn
  \/ PubConnected \/ PubFailed \/ DtlsFailed \/ PubCallback
  \/ CloserWakes \/ \E m \in Media : CloserStops(m)
  \/ \E m \in Media : IngesterWakes(m) \/ IngestOpens(m) \/ IngestStops(m) \/ IngestAgain(m)
  \/ \E m \in Media : IngestFails(m) \/ IngesterLeaves(m) \/ ReaderEnds(m)

\* A step is one of the publisher, of the player, or of the test.
LEMMA Steps ==
  ASSUME [Next]_vars
  PROVE  \/ PubStep /\ Beside
         \/ Play /\ UNCHANGED testVars
         \/ Test \/ Timeout
         \/ UNCHANGED vars
BY DEF Next, Pub, PubRun, Closer, PubEnvironment, Ingester, PubStep

\* A context that is done stays done for what it is done for.
LEMMA ContextKept ==
  ASSUME PubTypeOK, NEW why \in Cause, Cancel(why)
  PROVE  /\ ctx' \in {"live"} \cup Cause
         /\ ctx' # "live"
         /\ Done => ctx' = ctx
         /\ ctx' = "failed" => ctx = "failed" \/ why = "failed"
BY DEF Cancel, Done, PubTypeOK, Cause

\* Every step keeps a context that is done.
LEMMA DoneKept ==
  ASSUME PubTypeOK, [Next]_vars
  PROVE  /\ ctx' \in {"live"} \cup Cause
         /\ Done => ctx' = ctx
<1> USE DEF Cause
<1>1. CASE UNCHANGED ctx
  BY <1>1 DEF PubTypeOK
<1>2. ASSUME NEW why \in Cause, Cancel(why) PROVE ctx' \in {"live"} \cup Cause /\ (Done => ctx' = ctx)
  BY <1>2, ContextKept
<1>3. CASE PubStep
  BY <1>1, <1>2, <1>3 DEF PubStep, PubOffer, PubOfferFails, PubRequestFails, PubAnswered, Register,
    PubReturn, PubConnected, PubFailed, DtlsFailed, PubCallback, CloserWakes, CloserStops,
    IngesterWakes, IngestOpens, IngestStops, IngestAgain, IngestFails, IngesterLeaves, ReaderEnds
<1>4. CASE Play
  BY <1>1, <1>2, <1>4 DEF Play, PlayConnected, PlayFailed, PlayCallback, PlayFails, PlayAnswered,
    PlayRun, PlayRegister, PlayReturn, Complete, Track, TrackBegins, TrackEnds
<1>5. CASE Test \/ Timeout
  BY <1>1, <1>2, <1>5 DEF Test, Timeout, Make, SetupLeaves, PublisherBegins, PlayerBegins,
    PublisherEnds, PlayerEnds, Waited, ClosePlayer, ClosePublisher, Report
<1>6. CASE UNCHANGED vars
  BY <1>1, <1>6 DEF vars
<1> QED
  BY <1>3, <1>4, <1>5, <1>6, Steps

\* What a callback is told, and that nothing is told where none is registered.
LEMMA ToldTypes ==
  ASSUME NEW state \in {"connected", "failed", "closed"}, PubTypeOK, PubTell(state)
  PROVE  /\ pubPc' = state /\ pubTold' \subseteq {"connected", "down"}
         /\ closer = "none" => pubTold' = pubTold
BY DEF PubTell, PubTypeOK, Registered

\* One function of the media changes in one place.
LEMMA OneMedium ==
  ASSUME NEW S, NEW f \in [Media -> S], NEW m \in Media, NEW v \in S,
         NEW g, g = [f EXCEPT ![m] = v]
  PROVE  /\ g \in [Media -> S]
         /\ g[m] = v
         /\ \A n \in Media : n # m => g[n] = f[n]
OBVIOUS

\* A set as a function to truth values.
LEMMA Flags ==
  ASSUME NEW M, NEW f, f = [m \in Media |-> m \in M]
  PROVE  /\ f \in [Media -> BOOLEAN]
         /\ \A m \in Media : f[m] <=> m \in M
<1>1. f \in [Media -> BOOLEAN]
  OBVIOUS
<1>2. \A m \in Media : f[m] <=> m \in M
  OBVIOUS
<1> QED
  BY <1>1, <1>2

-----------------------------------------------------------------------------
(* The types.                                                               *)

LEMMA PubTypesKept ==
  ASSUME TypeOK, Launched, Canceled, [Next]_vars
  PROVE  PubTypeOK'
<1>t. PubTypeOK
  BY DEF TypeOK
<1>0. ctx' \in {"live"} \cup Cause
  BY <1>t, DoneKept
<1>1. CASE UNCHANGED pubVars
  BY <1>t, <1>0, <1>1 DEF PubTypeOK, pubVars, pubConnection, ingesting, pubGoroutines, Cause
<1>2. CASE PubOffer \/ PubRequestFails \/ PubAnswered \/ Register \/ PubReturn
  BY <1>t, <1>0, <1>2 DEF PubOffer, PubRequestFails, PubAnswered, Register, PubReturn, PubTypeOK,
    pubConnection, ingesting, pubGoroutines, PcState
<1>3. CASE PubOfferFails
  <2>1. pubPc' \in PcState
    BY <1>t, <1>3 DEF PubOfferFails, PubTypeOK, PcState
  <2>2. UNCHANGED sender \/ \E bound \in {{}, {"video"}, media} :
          sender' = [m \in Media |-> IF m \in bound THEN "bound" ELSE "none"]
    BY <1>3 DEF PubOfferFails
  <2>3. /\ sender' \in [Media -> {"none", "bound", "stopped"}]
        /\ \A m \in Media \ media : sender'[m] = "none"
    BY <1>t, <2>2 DEF PubTypeOK, Launched
  <2> QED
    BY <1>t, <1>0, <1>3, <2>1, <2>3 DEF PubOfferFails, PubTypeOK, pubGoroutines
<1>4. CASE PubConnected \/ PubFailed \/ DtlsFailed
  <2>1. pubTold' \subseteq {"connected", "down"} /\ pubPc' \in PcState
    BY <1>4, <1>t, ToldTypes DEF PubConnected, PubFailed, DtlsFailed, PcState
  <2>2. finalErr' \in BOOLEAN
    BY <1>t, <1>4 DEF PubConnected, PubFailed, DtlsFailed, Fails, ingesting, PubTypeOK
  <2> QED
    BY <1>t, <1>0, <1>4, <2>1, <2>2 DEF PubConnected, PubFailed, DtlsFailed, PubTypeOK, ingesting, pubGoroutines
<1>5. CASE PubCallback
  <2>1. finalErr' \in BOOLEAN /\ pcDone' \in BOOLEAN
    BY <1>t, <1>5 DEF PubCallback, Fails, PubTypeOK
  <2> QED
    BY <1>t, <1>0, <1>5, <2>1 DEF PubCallback, PubTypeOK, pubGoroutines
<1>6. CASE CloserWakes
  BY <1>t, <1>0, <1>6 DEF CloserWakes, PubTypeOK, pubConnection
<1>7. ASSUME NEW m \in Media, CloserStops(m) PROVE PubTypeOK'
  <2>1. /\ sender' \in [Media -> {"none", "bound", "stopped"}]
        /\ m \notin media => sender'[m] = "none"
        /\ \A n \in Media : n # m => sender'[n] = sender[n]
    <3> DEFINE v == IF m \in media THEN "stopped" ELSE "none"
    <3>1. sender' = [sender EXCEPT ![m] = v] /\ v \in {"none", "bound", "stopped"}
      BY <1>7 DEF CloserStops, Stopped
    <3> QED
      BY <3>1, OneMedium, <1>t DEF PubTypeOK
  <2>2. closer' \in {"video", "done"}
    BY <1>7 DEF CloserStops, After
  <2> QED
    BY <1>t, <1>0, <1>7, <2>1, <2>2 DEF CloserStops, PubTypeOK, pubConnection
<1>8. ASSUME NEW m \in Media, IngesterWakes(m) \/ IngestAgain(m) \/ ReaderEnds(m) PROVE PubTypeOK'
  <2>1. ingester' \in [Media -> {"none", "wait", "open", "again", "work", "failed", "leave", "done"}]
    BY <1>t, <1>8 DEF IngesterWakes, IngestAgain, ReaderEnds, ToIngest, PubTypeOK
  <2>2. /\ reader' \in [Media -> {"none", "work", "done"}]
        /\ \A n \in Media \ media : reader'[n] = "none"
    BY <1>t, <1>8 DEF IngesterWakes, IngestAgain, ReaderEnds, PubTypeOK
  <2> QED
    <3>1. UNCHANGED <<media, publisher, pubResult, pubPc, pubTold, pcDone, finalErr, sender, ready, closer>>
      BY <1>8 DEF IngesterWakes, IngestAgain, ReaderEnds, pubConnection
    <3> QED
      BY <1>t, <1>0, <2>1, <2>2, <3>1 DEF PubTypeOK
<1>9. ASSUME NEW m \in Media, IngestOpens(m) \/ IngestStops(m) \/ IngestFails(m) \/ IngesterLeaves(m)
      PROVE  PubTypeOK'
  <2>1. finalErr' \in BOOLEAN
    BY <1>t, <1>9 DEF IngestOpens, IngestStops, IngestFails, IngesterLeaves, KeepTimeout, PubTypeOK
  <2>2. ingester' \in [Media -> {"none", "wait", "open", "again", "work", "failed", "leave", "done"}]
    BY <1>t, <1>9 DEF IngestOpens, IngestStops, IngestFails, IngesterLeaves, ToIngest, PubTypeOK
  <2>3. ingester[m] # "none"
    BY <1>t, <1>9 DEF IngestOpens, IngestStops, IngestFails, IngesterLeaves, ToIngest
  <2>4. /\ ready' \in [Media -> BOOLEAN]
        /\ \A n \in Media \ media : ~ready'[n]
    <3>1. CASE UNCHANGED ready
      BY <3>1, <1>t DEF PubTypeOK
    <3>2. CASE IngesterLeaves(m)
      <4>1. ready' = [ready EXCEPT ![m] = (m \in media)] /\ (m \in media) \in BOOLEAN
        BY <3>2 DEF IngesterLeaves
      <4> QED
        BY <4>1, OneMedium, <1>t DEF PubTypeOK
    <3>3. CASE IngestOpens(m)
      BY <3>3, <1>t DEF IngestOpens, ToIngest, PubTypeOK, Launched
    <3> QED
      BY <1>9, <3>1, <3>2, <3>3 DEF IngestStops, IngestFails
  <2> QED
    BY <1>t, <1>0, <1>9, <2>1, <2>2, <2>4 DEF IngestOpens, IngestStops, IngestFails, IngesterLeaves,
      PubTypeOK, pubConnection
<1>10. CASE ClosePublisher
  <2>1. CASE UNCHANGED <<sender, ready, pubPc, pubTold>>
    BY <1>t, <1>0, <1>10, <2>1 DEF ClosePublisher, pubGoroutines, PubTypeOK
  <2>2. CASE PubClose
    <3>1. pubTold' \subseteq {"connected", "down"} /\ pubPc' \in PcState
      BY <1>t, <2>2, ToldTypes DEF PubClose, PubTypeOK, PcState
    <3>2. /\ sender' \in [Media -> {"none", "bound", "stopped"}]
          /\ \A m \in Media \ media : sender'[m] = "none"
      BY <1>t, <2>2 DEF PubClose, PubTypeOK
    <3>3. /\ ready' \in [Media -> BOOLEAN]
          /\ \A m \in Media \ media : ~ready'[m]
      <4>1. ready' = [m \in Media |-> m \in media]
        BY <2>2 DEF PubClose
      <4> QED
        BY <4>1, Flags
    <3> QED
      BY <1>t, <1>0, <1>10, <3>1, <3>2, <3>3 DEF ClosePublisher, pubGoroutines, PubTypeOK
  <2> QED
    BY <1>10, <2>1, <2>2 DEF ClosePublisher
<1>11. CASE PublisherBegins \/ PublisherEnds
  BY <1>t, <1>0, <1>11 DEF PublisherBegins, PublisherEnds, PubTypeOK, pubConnection, ingesting, pubGoroutines
<1>12. Test \/ Timeout => UNCHANGED pubVars \/ ClosePublisher \/ PublisherBegins \/ PublisherEnds
  BY DEF Test, Timeout, Make, SetupLeaves, PlayerBegins, PlayerEnds, Waited, ClosePlayer, Report
<1>13. Play => UNCHANGED pubVars
  BY DEF Play, PlayConnected, PlayFailed, PlayCallback, PlayFails, PlayAnswered, PlayRun, PlayRegister,
    PlayReturn, Complete, Track, TrackBegins, TrackEnds
<1>14. UNCHANGED vars => UNCHANGED pubVars
  BY DEF vars
<1> QED
  BY <1>1, <1>2, <1>3, <1>4, <1>5, <1>6, <1>7, <1>8, <1>9, <1>10, <1>11, <1>12, <1>13, <1>14, Steps
    DEF PubStep

LEMMA PlayTypesKept ==
  ASSUME TypeOK, [Next]_vars
  PROVE  PlayTypeOK'
<1>t. PlayTypeOK
  BY DEF TypeOK
<1>1. CASE UNCHANGED playVars
  BY <1>t, <1>1 DEF PlayTypeOK, playVars, playConnection
<1>2. CASE PlayConnected \/ PlayFails \/ PlayAnswered \/ PlayRegister \/ PlayReturn
  BY <1>t, <1>2 DEF PlayConnected, PlayFails, PlayAnswered, PlayRegister, PlayReturn, PlayTypeOK,
    playConnection, PcState
<1>3. ASSUME NEW state \in {"failed", "closed"}, PlayTell(state) PROVE playPc' \in PcState /\ playTold' \in BOOLEAN
  BY <1>3 DEF PlayTell, PcState
<1>4. CASE PlayFailed
  BY <1>t, <1>3, <1>4 DEF PlayFailed, PlayTypeOK
<1>5. CASE ClosePlayer
  BY <1>t, <1>3, <1>5 DEF ClosePlayer, PlayClose, PlayTypeOK, playConnection
<1>6. ASSUME NEW value \in BOOLEAN, PlayErr(value) PROVE playErr' \in BOOLEAN
  BY <1>t, <1>6 DEF PlayErr, PlayTypeOK
<1>7. CASE PlayCallback
  BY <1>t, <1>6, <1>7 DEF PlayCallback, PlayTypeOK
<1>8. ASSUME NEW m \in Tracks, Track(m) PROVE PlayTypeOK'
  <2>1. playErr' \in BOOLEAN
    BY <1>t, <1>6, <1>8 DEF Track, TrackBegins, TrackEnds, PlayTypeOK
  <2> QED
    BY <1>t, <1>8, <2>1 DEF Track, TrackBegins, TrackEnds, PlayTypeOK, playConnection
<1>9. CASE PlayerBegins \/ PlayerEnds
  BY <1>t, <1>9 DEF PlayerBegins, PlayerEnds, PlayTypeOK, playConnection, PcState
<1>10. Play => \/ PlayConnected \/ PlayFails \/ PlayAnswered \/ PlayRegister \/ PlayReturn
               \/ PlayFailed \/ PlayCallback \/ (\E m \in Tracks : Track(m)) \/ UNCHANGED playVars
  BY DEF Play, PlayRun, Complete
<1>11. Test \/ Timeout => UNCHANGED playVars \/ ClosePlayer \/ PlayerBegins \/ PlayerEnds
  BY DEF Test, Timeout, Make, SetupLeaves, PublisherBegins, PublisherEnds, Waited, ClosePublisher, Report
<1>12. Beside \/ UNCHANGED vars => UNCHANGED playVars
  BY DEF Beside, vars
<1> QED
  BY <1>1, <1>2, <1>4, <1>5, <1>7, <1>8, <1>9, <1>10, <1>11, <1>12, Steps

LEMMA TestTypesKept ==
  ASSUME TypeOK, Launched, Canceled, [Next]_vars
  PROVE  TypeOK'
<1>1. PubTypeOK' /\ PlayTypeOK'
  BY PubTypesKept, PlayTypesKept
<1>2. CASE UNCHANGED testVars
  BY <1>1, <1>2 DEF TypeOK, testVars
<1>3. CASE Make
  BY <1>1, <1>3 DEF Make, TypeOK
<1>4. CASE SetupLeaves \/ Waited \/ ClosePlayer \/ ClosePublisher \/ Report
  BY <1>1, <1>4 DEF SetupLeaves, Waited, ClosePlayer, ClosePublisher, Report, TypeOK
<1>5. CASE PublisherBegins \/ PlayerBegins \/ PublisherEnds \/ PlayerEnds \/ Timeout
  BY <1>2, <1>5 DEF PublisherBegins, PlayerBegins, PublisherEnds, PlayerEnds, Timeout
<1> QED
  BY <1>2, <1>3, <1>4, <1>5, Steps DEF Test, Beside, vars

-----------------------------------------------------------------------------
(* The rest of the invariant, one part after the other.                     *)

LEMMA Begins == Init => TestInv
<1> SUFFICES ASSUME Init PROVE TestInv
  OBVIOUS
<1>1. media \subseteq Media /\ "video" \in media
  BY DEF Init, PubInit, Media
<1>2. TypeOK
  <2>1. PubTypeOK
    BY <1>1 DEF Init, PubInit, PubTypeOK, PcState
  <2>2. PlayTypeOK
    BY DEF Init, PlayInit, PlayTypeOK, PcState
  <2> QED
    BY <2>1, <2>2 DEF Init, TypeOK
<1>3. Launched /\ Canceled
  BY <1>1 DEF Init, PubInit, Launched, Canceled
<1>4. Unready /\ PlayerClosed
  BY DEF Init, PubInit, PlayInit, Unready, PlayerClosed
<1>5. Known
  BY DEF Init, PubInit, Known, FailureFails
<1> QED
  BY <1>2, <1>3, <1>4, <1>5 DEF TestInv

\* The goroutines of the publisher.
LEMMA LaunchedKept ==
  ASSUME TypeOK, Launched, [Next]_vars
  PROVE  Launched'
<1> USE DEF Launched, PubEnded, Ended
<1>t. PubTypeOK
  BY DEF TypeOK
<1>1. CASE UNCHANGED pubVars
  BY <1>1 DEF pubVars, pubConnection, ingesting, pubGoroutines
<1>2. CASE PubOffer \/ PubOfferFails \/ PubRequestFails \/ PubAnswered
  BY <1>2 DEF PubOffer, PubOfferFails, PubRequestFails, PubAnswered, pubConnection, ingesting, pubGoroutines
<1>3. CASE Register
  BY <1>3 DEF Register, pubConnection
<1>4. CASE PubReturn
  BY <1>4 DEF PubReturn, pubConnection, ingesting, pubGoroutines
<1>5. CASE PubConnected \/ PubFailed \/ DtlsFailed
  BY <1>t, <1>5, ToldTypes DEF PubConnected, PubFailed, DtlsFailed, Fails, Registered, ingesting, pubGoroutines
<1>6. CASE PubCallback
  BY <1>6 DEF PubCallback, pubGoroutines
<1>7. CASE CloserWakes \/ \E m \in Media : CloserStops(m)
  BY <1>7 DEF CloserWakes, CloserStops, After, Media, pubConnection
<1>8. ASSUME NEW m \in Media, \/ IngesterWakes(m) \/ IngestOpens(m) \/ IngestStops(m) \/ IngestAgain(m)
                              \/ IngestFails(m) \/ IngesterLeaves(m) \/ ReaderEnds(m)
      PROVE  Launched'
  <2>1. UNCHANGED <<media, publisher, pubResult, pubPc, pubTold, closer>>
    BY <1>8 DEF IngesterWakes, IngestOpens, IngestStops, IngestAgain, IngestFails, IngesterLeaves,
      ReaderEnds, pubConnection
  <2>2. closer # "none" /\ publisher \notin {"returned", "done"}
    BY <1>8 DEF IngesterWakes, IngestOpens, IngestStops, IngestAgain, IngestFails, IngesterLeaves,
      ReaderEnds, ToIngest
  <2>3. \A n \in Media : ingester'[n] \in {"open", "again", "work", "failed"} => n \in media
    BY <1>t, <1>8 DEF IngesterWakes, IngestOpens, IngestStops, IngestAgain, IngestFails, IngesterLeaves,
      ReaderEnds, ToIngest, PubTypeOK
  <2> QED
    BY <2>1, <2>2, <2>3
<1>9. CASE PublisherBegins \/ PublisherEnds
  BY <1>9 DEF PublisherBegins, PublisherEnds, pubConnection, ingesting, pubGoroutines
<1>10. CASE ClosePublisher
  <2>1. UNCHANGED <<media, publisher, pubResult, finalErr, ingester, reader, closer>>
    BY <1>10 DEF ClosePublisher, pubGoroutines
  <2>2. /\ pubPc = "none" => pubPc' = "none"
        /\ closer = "none" => pubTold' = pubTold
    BY <1>t, <1>10, ToldTypes DEF ClosePublisher, PubClose
  <2> QED
    BY <2>1, <2>2
<1>11. Test \/ Timeout => UNCHANGED pubVars \/ ClosePublisher \/ PublisherBegins \/ PublisherEnds
  BY DEF Test, Timeout, Make, SetupLeaves, PlayerBegins, PlayerEnds, Waited, ClosePlayer, Report
<1>12. Play \/ UNCHANGED vars => UNCHANGED pubVars
  BY DEF Play, PlayConnected, PlayFailed, PlayCallback, PlayFails, PlayAnswered, PlayRun, PlayRegister,
    PlayReturn, Complete, Track, TrackBegins, TrackEnds, vars
<1> QED
  BY <1>1, <1>2, <1>3, <1>4, <1>5, <1>6, <1>7, <1>8, <1>9, <1>10, <1>11, <1>12, Steps DEF PubStep

\* What waits for the context waits until it is done, for good.
LEMMA CanceledKept ==
  ASSUME TypeOK, Canceled, [Next]_vars
  PROVE  Canceled'
<1> USE DEF Canceled
<1>0. PubTypeOK /\ (Done => Done')
  BY DoneKept DEF TypeOK, Done
<1>1. CASE UNCHANGED <<closer, publisher, player, setup, test>>
  BY <1>0, <1>1
<1>2. CASE PubStep /\ Beside
  <2>1. UNCHANGED <<player, setup, test>>
    BY <1>2 DEF Beside, playVars, testVars
  <2>2. publisher \in {"skipped", "done"} => publisher' = publisher
    BY <1>2 DEF PubStep, PubOffer, PubOfferFails, PubRequestFails, PubAnswered, Register, PubReturn,
      PubConnected, PubFailed, DtlsFailed, PubCallback, CloserWakes, CloserStops,
      IngesterWakes, IngestOpens, IngestStops, IngestAgain, IngestFails, IngesterLeaves, ReaderEnds
  <2>3. closer' \notin {"none", "wait"} => closer' = closer \/ Done
    <3>1. CASE CloserWakes \/ Register
      BY <3>1 DEF CloserWakes, Register
    <3>2. ASSUME NEW m \in Media, CloserStops(m) PROVE closer \notin {"none", "wait"}
      BY <3>2 DEF CloserStops, Media
    <3>3. CASE UNCHANGED closer
      BY <3>3
    <3> QED
      BY <1>2, <3>1, <3>2, <3>3 DEF PubStep, PubOffer, PubOfferFails, PubRequestFails, PubAnswered,
        PubReturn, PubConnected, PubFailed, DtlsFailed, PubCallback, IngesterWakes, IngestOpens,
        IngestStops, IngestAgain, IngestFails, IngesterLeaves, ReaderEnds, ingesting, pubGoroutines
  <2> QED
    BY <1>0, <2>1, <2>2, <2>3
<1>3. CASE Play /\ UNCHANGED testVars
  <2>1. UNCHANGED <<closer, publisher, setup, test>>
    BY <1>3 DEF Play, PlayConnected, PlayFailed, PlayCallback, PlayFails, PlayAnswered, PlayRun, PlayRegister,
      PlayReturn, Complete, Track, TrackBegins, TrackEnds, pubVars, ingesting, pubGoroutines, testVars
  <2>2. player \in {"skipped", "done"} => player' = player
    BY <1>3 DEF Play, PlayConnected, PlayFailed, PlayCallback, PlayFails, PlayAnswered, PlayRun, PlayRegister,
      PlayReturn, Complete, Track, TrackBegins, TrackEnds, playVars
  <2> QED
    BY <1>0, <2>1, <2>2
<1>4. CASE Make \/ Waited \/ ClosePlayer \/ ClosePublisher \/ Report \/ Timeout
  BY <1>0, <1>4 DEF Make, Waited, ClosePlayer, ClosePublisher, Report, Timeout, pubVars, playVars,
    testVars, ingesting, pubGoroutines
<1>5. CASE SetupLeaves
  <2>1. Done'
    BY <1>0, <1>5, ContextKept DEF SetupLeaves, Cause, Done
  <2> QED
    BY <1>5, <2>1 DEF SetupLeaves, pubVars, playVars, ingesting, pubGoroutines
<1>6. CASE PublisherBegins \/ PublisherEnds \/ PlayerBegins \/ PlayerEnds
  BY <1>0, <1>6 DEF PublisherBegins, PublisherEnds, PlayerBegins, PlayerEnds, pubVars, playVars,
    testVars, ingesting, pubGoroutines
<1>7. CASE UNCHANGED vars
  BY <1>1, <1>7 DEF vars, pubVars, playVars, testVars, ingesting, pubGoroutines
<1> QED
  BY <1>2, <1>3, <1>4, <1>5, <1>6, <1>7, Steps DEF Test

\* The senders and the connection of the publisher.
LEMMA UnreadyKept ==
  ASSUME TypeOK, Launched, Canceled, Unready, [Next]_vars
  PROVE  Unready'
<1> USE DEF Unready
<1>t. PubTypeOK
  BY DEF TypeOK
<1>1. CASE UNCHANGED <<sender, ready, ingester, pubPc, test>>
  BY <1>1
<1>2. CASE PubStep /\ Beside
  <2>0. UNCHANGED test
    BY <1>2 DEF Beside, testVars
  <2>1. CASE PubOffer \/ PubOfferFails \/ PubAnswered
    BY <1>t, <2>0, <2>1 DEF PubOffer, PubOfferFails, PubAnswered, PubTypeOK, ingesting, pubGoroutines
  <2>2. CASE Register
    BY <1>t, <2>0, <2>2 DEF Register, Canceled, Launched, pubConnection
  <2>3. CASE PubRequestFails \/ PubReturn \/ PubCallback \/ CloserWakes
    BY <1>1, <2>0, <2>3 DEF PubRequestFails, PubReturn, PubCallback, CloserWakes, pubConnection,
      ingesting, pubGoroutines
  <2>4. CASE PubConnected \/ PubFailed \/ DtlsFailed
    BY <1>t, <2>0, <2>4, ToldTypes DEF PubConnected, PubFailed, DtlsFailed, ingesting, pubGoroutines
  <2>5. ASSUME NEW m \in Media, CloserStops(m) PROVE Unready'
    <3>1. /\ \A n \in Media : n # m => sender'[n] = sender[n]
          /\ sender'[m] = "stopped" => ready[m]
      <4> DEFINE v == IF m \in media THEN "stopped" ELSE "none"
      <4>1. sender' = [sender EXCEPT ![m] = v] /\ v \in {"none", "bound", "stopped"}
        BY <2>5 DEF CloserStops, Stopped
      <4>2. sender'[m] = v /\ \A n \in Media : n # m => sender'[n] = sender[n]
        BY <1>t, <4>1, OneMedium DEF PubTypeOK
      <4>3. m \in media => ready[m]
        BY <2>5 DEF CloserStops
      <4> QED
        BY <4>2, <4>3
    <3>2. UNCHANGED <<ready, ingester, pubPc>>
      BY <2>5 DEF CloserStops, pubConnection
    <3> QED
      BY <2>0, <3>1, <3>2
  <2>6. ASSUME NEW m \in Media, IngesterWakes(m) \/ IngestStops(m) \/ IngestAgain(m) \/ IngestFails(m)
                                \/ ReaderEnds(m)
        PROVE  Unready'
    <3>1. UNCHANGED <<sender, ready, pubPc>>
      BY <2>6 DEF IngesterWakes, IngestStops, IngestAgain, IngestFails, ReaderEnds, pubConnection
    <3>2. /\ \A n \in Media : n # m => ingester'[n] = ingester[n]
          /\ ingester'[m] \in {"wait", "open"} => ingester[m] \in {"wait", "open"}
          /\ ingester'[m] = "none" => ingester[m] = "none"
      BY <1>t, <2>6 DEF IngesterWakes, IngestStops, IngestAgain, IngestFails, ReaderEnds, ToIngest, PubTypeOK
    <3> QED
      BY <2>0, <3>1, <3>2
  <2>7. ASSUME NEW m \in Media, IngestOpens(m) \/ IngesterLeaves(m) PROVE Unready'
    <3>1. UNCHANGED <<sender, pubPc>>
      BY <2>7 DEF IngestOpens, IngesterLeaves, pubConnection
    <3>2. /\ \A n \in Media : n # m => ingester'[n] = ingester[n]
          /\ ingester'[m] \in {"work", "leave", "done"}
      BY <1>t, <2>7 DEF IngestOpens, IngesterLeaves, ToIngest, PubTypeOK
    <3>3. \E on \in BOOLEAN : ready' = [ready EXCEPT ![m] = on] /\ (m \in media => on)
      <4>1. CASE IngestOpens(m)
        BY <4>1 DEF IngestOpens
      <4>2. CASE IngesterLeaves(m)
        <5>1. ready' = [ready EXCEPT ![m] = (m \in media)] /\ (m \in media) \in BOOLEAN
          BY <4>2 DEF IngesterLeaves
        <5> QED
          BY <5>1
      <4> QED
        BY <2>7, <4>1, <4>2
    <3>4. /\ \A n \in Media : n # m => ready'[n] = ready[n]
          /\ m \in media => ready'[m]
      BY <1>t, <3>3, OneMedium DEF PubTypeOK
    <3>5. sender[m] = "stopped" => m \in media
      BY <1>t DEF PubTypeOK
    <3> QED
      BY <2>0, <3>1, <3>2, <3>4, <3>5
  <2> QED
    BY <1>2, <2>1, <2>2, <2>3, <2>4, <2>5, <2>6, <2>7 DEF PubStep
<1>3. CASE ClosePublisher
  <2>1. test' = "report" /\ UNCHANGED ingester
    BY <1>3 DEF ClosePublisher, pubGoroutines
  <2>2. \A m \in Media : ingester[m] \notin {"wait", "open"}
    BY <1>3 DEF ClosePublisher, Canceled, Launched, PubEnded, Ended
  <2>3. \A m \in Media : sender'[m] = "stopped" => ready'[m]
    <3>1. CASE UNCHANGED <<sender, ready>>
      BY <3>1
    <3>2. CASE PubClose
      <4>1. \A m \in Media : sender'[m] = "stopped" => sender[m] # "none"
        BY <3>2 DEF PubClose
      <4>2. \A m \in Media : sender[m] # "none" => m \in media
        BY <1>t DEF PubTypeOK
      <4>3. \A m \in Media : ready'[m] <=> m \in media
        BY <3>2, Flags DEF PubClose
      <4> QED
        BY <4>1, <4>2, <4>3
    <3> QED
      BY <1>3, <3>1, <3>2 DEF ClosePublisher
  <2> QED
    BY <2>1, <2>2, <2>3
<1>4. CASE Waited \/ ClosePlayer \/ Report
  <2>1. UNCHANGED <<sender, ready, ingester, pubPc>>
    BY <1>4 DEF Waited, ClosePlayer, Report, pubVars, pubConnection, ingesting, pubGoroutines
  <2>2. test' \in {"report", "ended"} <=> test \in {"report", "ended"}
    BY <1>4 DEF Waited, ClosePlayer, Report
  <2> QED
    BY <2>1, <2>2
<1>5. CASE Make \/ SetupLeaves \/ PublisherBegins \/ PublisherEnds \/ PlayerBegins \/ PlayerEnds \/ Timeout
  BY <1>1, <1>5 DEF Make, SetupLeaves, PublisherBegins, PublisherEnds, PlayerBegins, PlayerEnds, Timeout,
    pubVars, pubConnection, ingesting, pubGoroutines, testVars
<1>6. Play /\ UNCHANGED testVars => UNCHANGED pubVars /\ UNCHANGED test
  BY DEF Play, PlayConnected, PlayFailed, PlayCallback, PlayFails, PlayAnswered, PlayRun, PlayRegister,
    PlayReturn, Complete, Track, TrackBegins, TrackEnds, testVars
<1>7. CASE UNCHANGED pubVars /\ UNCHANGED test
  BY <1>1, <1>7 DEF pubVars, pubConnection, ingesting, pubGoroutines
<1>8. UNCHANGED vars => UNCHANGED pubVars /\ UNCHANGED test
  BY DEF vars, testVars
<1> QED
  BY <1>2, <1>3, <1>4, <1>5, <1>6, <1>7, <1>8, Steps DEF Test

\* The connection of the player.
LEMMA PlayerClosedKept ==
  ASSUME Canceled, PlayerClosed, [Next]_vars
  PROVE  PlayerClosed'
<1> USE DEF PlayerClosed
<1>1. CASE UNCHANGED <<player, playPc, test>>
  BY <1>1
<1>2. ASSUME UNCHANGED test, Play PROVE PlayerClosed'
  <2>1. CASE PlayFails \/ PlayAnswered \/ PlayConnected
    BY <1>2, <2>1 DEF PlayFails, PlayAnswered, PlayConnected
  <2>2. CASE PlayFailed
    BY <1>2, <2>2 DEF PlayFailed, PlayTell
  <2>3. CASE PlayRegister \/ PlayReturn
    BY <1>2, <2>3 DEF PlayRegister, PlayReturn, playConnection
  <2>4. CASE PlayCallback \/ Complete \/ \E m \in Tracks : Track(m)
    BY <1>2, <2>4 DEF PlayCallback, Complete, Track, TrackBegins, TrackEnds, playVars, playConnection
  <2> QED
    BY <1>2, <2>1, <2>2, <2>3, <2>4 DEF Play, PlayRun
<1>6. CASE PlayerBegins \/ PlayerEnds
  BY <1>6 DEF PlayerBegins, PlayerEnds, playConnection, testVars
<1>7. CASE ClosePlayer
  <2>1. test' = "publisher" /\ UNCHANGED player /\ (playPc = "none" => UNCHANGED playPc)
    BY <1>7 DEF ClosePlayer, PlayClose, playConnection
  <2> QED
    BY <2>1
<1>8. CASE Waited \/ ClosePublisher \/ Report
  BY <1>8 DEF Waited, ClosePublisher, Report, playVars, playConnection
<1>9. CASE \/ Make \/ SetupLeaves \/ PublisherBegins \/ PublisherEnds \/ Timeout \/ Beside \/ UNCHANGED vars
  BY <1>1, <1>9 DEF Make, SetupLeaves, PublisherBegins, PublisherEnds, Timeout, Beside, vars, playVars,
    playConnection, testVars
<1>10. Play /\ UNCHANGED testVars => PlayerClosed'
  BY <1>2 DEF testVars
<1> QED
  BY <1>6, <1>7, <1>8, <1>9, <1>10, Steps DEF Test

\* What the test is given when it reports.
LEMMA KnownKept ==
  ASSUME TypeOK, Launched, Canceled, Known, [Next]_vars
  PROVE  Known'
<1> USE DEF Known
<1>t. PubTypeOK
  BY DEF TypeOK
\* What is known does not change once the test waits no longer.
<1>1. ASSUME UNCHANGED <<ctx, pubResult, setup, mainReady, test, verdict>>,
             publisher = "wait" => UNCHANGED publisher /\ (finalErr => finalErr'),
             \A m \in Media : ingester'[m] = "failed" => finalErr'
      PROVE  Known'
  BY <1>1 DEF FailureFails, SetupFailed
<1>2. ASSUME UNCHANGED <<pubResult, setup, mainReady, test, verdict, publisher>>,
             finalErr => finalErr',
             ctx' = "failed" => ctx = "failed" \/ (publisher = "wait" /\ finalErr'),
             \A m \in Media : ingester'[m] = "failed" => finalErr'
      PROVE  Known'
  <2>1. test = "ended" => UNCHANGED ctx
    BY <1>t, DoneKept DEF Canceled
  <2> QED
    BY <1>2, <2>1 DEF FailureFails, SetupFailed
<1>3. CASE PubStep /\ Beside
  <2>0. UNCHANGED <<setup, mainReady, test, verdict>>
    BY <1>3 DEF Beside, testVars
  <2>1. CASE PubOffer \/ PubRequestFails \/ PubAnswered \/ PubOfferFails
    BY <2>0, <2>1 DEF PubOffer, PubRequestFails, PubAnswered, PubOfferFails, ingesting, pubGoroutines,
      FailureFails, SetupFailed, Launched
  <2>2. CASE Register
    BY <2>0, <2>2 DEF Register, FailureFails, SetupFailed
  <2>3. CASE PubReturn
    BY <2>0, <2>3 DEF PubReturn, ingesting, pubGoroutines, FailureFails, SetupFailed, Launched, Canceled
  <2>4. CASE PubConnected \/ PubFailed \/ CloserWakes \/ \E m \in Media : CloserStops(m)
    BY <1>1, <2>0, <2>4 DEF PubConnected, PubFailed, CloserWakes, CloserStops, ingesting, pubGoroutines
  <2>5. CASE DtlsFailed \/ PubCallback
    <3>1. UNCHANGED <<pubResult, publisher, ingester>>
      BY <2>5 DEF DtlsFailed, PubCallback, pubGoroutines
    <3>2. \/ UNCHANGED <<finalErr, ctx>>
          \/ Fails /\ Cancel("failed") /\ closer # "none"
      BY <2>5 DEF DtlsFailed, PubCallback, Registered, Launched
    <3>3. CASE UNCHANGED <<finalErr, ctx>>
      BY <1>2, <2>0, <3>1, <3>3
    <3>4. CASE Fails /\ Cancel("failed") /\ closer # "none"
      <4>1. publisher = "wait" \/ (publisher \in {"returned", "done"} /\ Done)
        BY <1>t, <3>4 DEF Launched, PubEnded, Ended, Canceled, PubTypeOK
      <4>2. CASE publisher = "wait"
        BY <1>2, <2>0, <3>1, <3>4, <4>2 DEF Fails
      <4>3. CASE Done
        BY <1>2, <2>0, <3>1, <3>4, <4>3 DEF Fails, Cancel
      <4> QED
        BY <4>1, <4>2, <4>3
    <3> QED
      BY <3>2, <3>3, <3>4
  <2>6. ASSUME NEW m \in Media, IngesterWakes(m) \/ IngestOpens(m) \/ IngestStops(m) \/ IngestAgain(m)
                                \/ IngestFails(m) \/ ReaderEnds(m)
        PROVE  Known'
    <3>1. UNCHANGED <<ctx, publisher, pubResult>> /\ (finalErr => finalErr')
      BY <2>6 DEF IngesterWakes, IngestOpens, IngestStops, IngestAgain, IngestFails, ReaderEnds, KeepTimeout
    <3>2. \A n \in Media : ingester'[n] = "failed" => ingester[n] = "failed" \/ finalErr'
      BY <1>t, <2>6 DEF IngesterWakes, IngestOpens, IngestStops, IngestAgain, IngestFails, ReaderEnds,
        ToIngest, PubTypeOK
    <3> QED
      BY <1>1, <2>0, <3>1, <3>2
  <2>7. ASSUME NEW m \in Media, IngesterLeaves(m) PROVE Known'
    <3>1. /\ UNCHANGED <<publisher, pubResult, finalErr>>
          /\ \A n \in Media : ingester'[n] = "failed" => ingester[n] = "failed"
      BY <1>t, <2>7 DEF IngesterLeaves, ToIngest, PubTypeOK
    <3>2. ingester[m] \in {"failed", "leave"}
          /\ \/ ingester[m] = "failed" /\ Cancel("failed")
             \/ Cancel("over")
      BY <2>7 DEF IngesterLeaves, ToIngest
    <3>3. publisher = "wait"
      BY <1>t, <3>2 DEF Launched, PubEnded, Ended, PubTypeOK
    <3> QED
      BY <1>2, <2>0, <3>1, <3>2, <3>3 DEF Cancel
  <2> QED
    BY <1>3, <2>1, <2>2, <2>3, <2>4, <2>5, <2>6, <2>7 DEF PubStep
<1>4. CASE Play /\ UNCHANGED testVars
  <2>1. UNCHANGED pubVars /\ (UNCHANGED ctx \/ Cancel("over"))
    BY <1>4 DEF Play, PlayConnected, PlayFailed, PlayCallback, PlayFails, PlayAnswered, PlayRun, PlayRegister,
      PlayReturn, Complete, Track, TrackBegins, TrackEnds
  <2> QED
    BY <1>2, <1>4, <2>1 DEF pubVars, ingesting, pubGoroutines, testVars, Cancel
<1>5. CASE Timeout
  BY <1>2, <1>5 DEF Timeout, Cancel, pubVars, ingesting, pubGoroutines, testVars
<1>6. CASE PlayerBegins \/ PlayerEnds
  BY <1>2, <1>6 DEF PlayerBegins, PlayerEnds, Cancel, pubVars, ingesting, pubGoroutines, testVars
<1>7. CASE Make
  BY <1>7 DEF Make, pubVars, ingesting, pubGoroutines, FailureFails, SetupFailed, Canceled
<1>8. CASE SetupLeaves
  BY <1>t, <1>8 DEF SetupLeaves, Cancel, pubVars, ingesting, pubGoroutines, FailureFails, SetupFailed, Canceled
<1>9. CASE PublisherBegins
  BY <1>1, <1>9 DEF PublisherBegins, ingesting, pubGoroutines, testVars
<1>10. CASE PublisherEnds
  BY <1>10 DEF PublisherEnds, Cancel, ingesting, pubGoroutines, testVars, FailureFails, SetupFailed, Canceled
<1>11. CASE Waited \/ ClosePlayer \/ ClosePublisher
  BY <1>11 DEF Waited, ClosePlayer, ClosePublisher, pubVars, ingesting, pubGoroutines, FailureFails, SetupFailed
<1>12. CASE Report
  BY <1>12 DEF Report, Failed, pubVars, ingesting, pubGoroutines, FailureFails, SetupFailed, Canceled
<1>13. CASE UNCHANGED vars
  BY <1>1, <1>13 DEF vars, pubVars, ingesting, pubGoroutines, testVars
<1> QED
  BY <1>3, <1>4, <1>5, <1>6, <1>7, <1>8, <1>9, <1>10, <1>11, <1>12, <1>13, Steps DEF Test

\* The invariant holds of a test from its beginning.
LEMMA TestInvariant == Spec => []TestInv
<1>1. TestInv /\ [Next]_vars => TestInv'
  BY TestTypesKept, LaunchedKept, CanceledKept, UnreadyKept, PlayerClosedKept, KnownKept DEF TestInv
<1> QED
  BY <1>1, Begins, PTL DEF Spec

-----------------------------------------------------------------------------
\* The type invariant of a regression test.
THEOREM TestTypeCorrect == Spec => []TypeOK
<1>1. TestInv => TypeOK
  BY DEF TestInv
<1> QED
  BY <1>1, TestInvariant, PTL

\* No sender is stopped while its ingester opens its file for the first time,
\* and no connection is closed while Run or a goroutine of Run uses it.
THEOREM ClosedUnused == Spec => []NotClosedInUse
<1>1. TestInv => NotClosedInUse
  <2> SUFFICES ASSUME TestInv PROVE NotClosedInUse
    OBVIOUS
  <2>1. \A m \in Media : ingester[m] = "open" => sender[m] # "stopped"
    BY DEF TestInv, Unready
  <2>2. pubPc = "closed" => publisher = "done" /\ PubEnded
    BY DEF TestInv, Unready, Canceled, Launched
  <2>3. playPc = "closed" => player = "done"
    BY DEF TestInv, PlayerClosed, Canceled
  <2> QED
    BY <2>1, <2>2, <2>3 DEF NotClosedInUse
<1> QED
  BY <1>1, TestInvariant, PTL

\* What goes wrong in the publisher, in making the two, or a timeout fails the
\* test, if it is what ended it.
THEOREM FailuresFail == Spec => []FailureFails
<1>1. TestInv => FailureFails
  BY DEF TestInv, Known
<1> QED
  BY <1>1, TestInvariant, PTL
=============================================================================
