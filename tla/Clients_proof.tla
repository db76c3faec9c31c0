----------------------------- MODULE Clients_proof -----------------------------
(***************************************************************************)
(* Theorems about the clients of MCClients.cfg: the WebRTC publishers, for *)
(* any media, and the RTMP and FLV clients of a test, for any tests.       *)
(*                                                                         *)
(* What the publishers leave and when they send is inductive together with *)
(* the order of startPublish (no context, no callback and no goroutine     *)
(* before Register, no worker before Start, no callback of a connection    *)
(* that has not been tried) and with what a Janus session has open.  The   *)
(* verdict of an RTMP test is inductive together with the turns that the   *)
(* two files, Consume and the goroutines beside them take.  What a player  *)
(* leaves is inductive with what exists at each place of startPlay, and    *)
(* the fate of a failed track with what err may hold between its           *)
(* assignment and its test.                                                *)
(*                                                                         *)
(* A player is an instance of its module: its variables are those of the   *)
(* same name here, and the ones it has alone.                              *)
(***************************************************************************)
EXTENDS RtcPublish, RtmpTest, TLAPS

CONSTANT Track

VARIABLES handler, outcome, err, returned, file, pli

Player == INSTANCE RtcPlay

-----------------------------------------------------------------------------
(* The WebRTC publishers.                                                   *)

Told == {"connected", "failed", "closed"}

\* What the steps of the peer connection assign to it.
LEMMA TellTyped ==
  ASSUME callbacks \subseteq Told, NEW state \in Told, Tell(state)
  PROVE pc' = state /\ callbacks' \subseteq Told
BY DEF Tell

\* Closing twice is closing once.
LEMMA CloseTyped ==
  ASSUME callbacks \subseteq Told, pc \in PcState, doClose
  PROVE pc' = "closed" /\ callbacks' \subseteq Told /\ senders' = "stopped"
<1>1. CASE pc = "closed" BY <1>1 DEF doClose
<1>2. CASE pc # "closed" BY <1>2, TellTyped DEF doClose, Told
<1> QED BY <1>1, <1>2

\* The type invariant of the publisher (srs/publisher.go).
THEOREM TypeCorrect == Spec => []TypeOK
<1> USE DEF TypeOK, contexts, session, connection, workers, Worker, PcState
<1>1. Init => TypeOK
  BY DEF Init, Main
<1>2. ASSUME TypeOK, [Next]_vars PROVE TypeOK'
  <2>0. callbacks \subseteq Told /\ pc \in PcState
    BY <1>2 DEF Told
  <2>m. main' \in Main
    <3>1. main \in Main BY <1>2
    <3> HIDE DEF TypeOK
    <3>2. CASE UNCHANGED main BY <3>1, <3>2
    <3>3. CASE Offer \/ OfferFails \/ Answered \/ RequestFails \/ Register
      BY <3>3 DEF Offer, OfferFails, Answered, RequestFails, Register, Main, Signaling
    <3>4. CASE CallSucceeds \/ CallFails \/ BadAnswer \/ UpCanceled \/ IsUp
      BY <3>4 DEF CallSucceeds, CallFails, BadAnswer, UpCanceled, IsUp, Main, Signaling
    <3>5. CASE CapCloses \/ Start \/ Waited \/ Return
      BY <3>5 DEF CapCloses, Start, Waited, Return, Main, Signaling
    <3> QED
      BY <1>2, <3>2, <3>3, <3>4, <3>5 DEF Next, Interrupt, Connected, Failed, Callback, Undo,
        CloseSession, SessionClosed, WebrtcUp, PollError, PollStop, CloseAll, StatsEnd,
        Goroutine, ReaderWakes, ReaderEnds, IngesterWakes, IngesterEnds, vars
  <2>1. CASE Interrupt BY <1>2, <2>m, <2>1 DEF Interrupt
  <2>2. CASE Connected \/ Failed
    <3>1. callbacks' \subseteq Told /\ pc' \in PcState
      BY <2>0, <2>2, TellTyped DEF Connected, Failed, Told
    <3>2. UNCHANGED <<program, session, contexts, cap, senders, closer, workers>>
      BY <2>2 DEF Connected, Failed
    <3> QED BY <1>2, <2>m, <3>1, <3>2 DEF Told
  <2>3. CASE Callback
    <3>1. PICK state \in callbacks : Callback!(state)
      BY <2>3 DEF Callback
    <3> QED BY <1>2, <2>m, <3>1
  <2>4. CASE Offer BY <1>2, <2>m, <2>4 DEF Offer
  <2>5. CASE Answered BY <1>2, <2>m, <2>5 DEF Answered
  <2>6. CASE Register BY <1>2, <2>m, <2>6 DEF Register
  <2>7. CASE CapCloses BY <1>2, <2>m, <2>7 DEF CapCloses
  <2>12. CASE Start BY <1>2, <2>m, <2>12 DEF Start
  <2>8. CASE OfferFails \/ RequestFails \/ Return \/ CloseAll
    <3>1. closer' \in Worker
      BY <1>2, <2>8 DEF OfferFails, RequestFails, Return, CloseAll
    <3>2. UNCHANGED <<program, session, contexts, cap, workers>>
      BY <2>8 DEF OfferFails, RequestFails, Return, CloseAll
    <3>3. doClose \/ UNCHANGED connection
      BY <2>8 DEF OfferFails, RequestFails, Return, CloseAll
    <3>4. callbacks' \subseteq Told /\ pc' \in PcState /\ senders' \in {"idle", "stopped"}
      BY <1>2, <2>m, <2>0, <3>3, CloseTyped
    <3> QED BY <1>2, <2>m, <3>1, <3>2, <3>4 DEF Told
  <2>9. CASE StatsEnd BY <1>2, <2>m, <2>9 DEF StatsEnd
  <2>10. ASSUME NEW m \in Media, Goroutine(m) PROVE TypeOK'
    <3>1. Woken \in Worker
      BY DEF Woken
    <3>2. CASE ReaderWakes(m)
      <4> HIDE DEF Worker
      <4> QED BY <1>2, <2>m, <3>1, <3>2 DEF ReaderWakes
    <3>3. CASE IngesterWakes(m)
      <4> HIDE DEF Worker
      <4> QED BY <1>2, <2>m, <3>1, <3>3 DEF IngesterWakes
    <3>4. CASE ReaderEnds(m) BY <1>2, <2>m, <3>4 DEF ReaderEnds
    <3>5. CASE IngesterEnds(m) BY <1>2, <2>m, <3>5 DEF IngesterEnds
    <3> QED BY <2>10, <3>2, <3>3, <3>4, <3>5 DEF Goroutine
  <2>11. CASE UNCHANGED vars BY <1>2, <2>m, <2>11 DEF vars
  <2>13. CASE CallSucceeds
    <3>2. deferred' \subseteq {"Close", "DetachPlugin", "UnPublish"}
      <4> HIDE DEF TypeOK
      <4>1. deferred \subseteq {"Close", "DetachPlugin", "UnPublish"} BY <1>2 DEF TypeOK
      <4>2. CASE main = "create" BY <4>1, <4>2, <2>13 DEF CallSucceeds
      <4>3. CASE main = "attach" BY <4>1, <4>3, <2>13 DEF CallSucceeds
      <4>4. CASE main = "join" BY <4>1, <4>4, <2>13 DEF CallSucceeds
      <4>5. CASE main = "publish" BY <4>1, <4>5, <2>13 DEF CallSucceeds
      <4> QED BY <2>13, <4>2, <4>3, <4>4, <4>5 DEF CallSucceeds, Signaling
    <3>3. poller' \in {poller, "poll"} /\ pc' \in {pc, "connecting"}
      BY <2>13 DEF CallSucceeds, Signaling
    <3>4. UNCHANGED <<program, contexts, cap, up, callbacks, senders, closer, workers>>
      BY <2>13 DEF CallSucceeds
    <3>5. poller' \in {"none", "poll", "stopping", "done"} /\ pc' \in PcState
      BY <1>2, <3>3
    <3> QED BY <1>2, <2>m, <3>2, <3>4, <3>5
  <2>14. CASE CallFails \/ BadAnswer \/ UpCanceled \/ IsUp \/ Waited
    <3>1. CASE CallFails BY <1>2, <2>m, <3>1 DEF CallFails
    <3>2. CASE BadAnswer BY <1>2, <2>m, <3>2 DEF BadAnswer
    <3>3. CASE UpCanceled BY <1>2, <2>m, <3>3 DEF UpCanceled
    <3>4. CASE IsUp BY <1>2, <2>m, <3>4 DEF IsUp
    <3>5. CASE Waited BY <1>2, <2>m, <3>5 DEF Waited
    <3> QED BY <2>14, <3>1, <3>2, <3>3, <3>4, <3>5
  <2>15. CASE Undo \/ CloseSession \/ SessionClosed
    <3>1. CASE Undo BY <1>2, <2>m, <3>1 DEF Undo
    <3>2. CASE CloseSession BY <1>2, <2>m, <3>2 DEF CloseSession
    <3>3. CASE SessionClosed BY <1>2, <2>m, <3>3 DEF SessionClosed
    <3> QED BY <2>15, <3>1, <3>2, <3>3
  <2>16. CASE WebrtcUp \/ PollError \/ PollStop
    <3>1. CASE WebrtcUp BY <1>2, <2>m, <3>1 DEF WebrtcUp
    <3>2. CASE PollError BY <1>2, <2>m, <3>2 DEF PollError
    <3>3. CASE PollStop BY <1>2, <2>m, <3>3 DEF PollStop
    <3> QED BY <2>16, <3>1, <3>2, <3>3
  <2> QED BY <1>2, <2>m, <2>1, <2>2, <2>3, <2>4, <2>5, <2>6, <2>7, <2>8, <2>9, <2>10,
      <2>11, <2>12, <2>13, <2>14, <2>15, <2>16 DEF Next
<1> QED BY <1>1, <1>2, PTL DEF Spec

-----------------------------------------------------------------------------

Untried == {"none", "new", "connecting"}

\* Before Register there is nobody to be told anything.
Early ==
  main \in {"offer", "request", "answered"} \cup Signaling =>
    /\ ctx = "nil" /\ callbacks = {} /\ pcDone = "live" /\ closer = "none"
    /\ main = "offer" => pc = "none" /\ senders = "idle"

\* The workers begin with Start, and never with -cap. They have ended when
\* startPublish undoes what it did.
WorkersStarted ==
  /\ main \in {"offer", "request", "answered", "cap", "up", "start"} \cup Signaling =>
       stats = "none" /\ \A m \in Media : reader[m] = "none" /\ ingester[m] = "none"
  /\ main \in {"undo", "returned"} =>
       /\ Ended(closer) /\ Ended(stats)
       /\ \A m \in Media : Ended(reader[m]) /\ Ended(ingester[m])
  /\ main = "up" => closer = "none"
  /\ main = "start" => ~cap /\ (program = "janus" => up = "done")
  /\ cap \/ (program = "janus" /\ up = "live") =>
       \A m \in Media : reader[m] = "none" /\ ingester[m] = "none"

\* The poller of a session runs until its Close, which is deferred till then;
\* -cap and one program's steps are not for the other.
SessionOpen ==
  /\ poller \in {"poll", "stopping"} => "Close" \in deferred
  /\ poller = "none" => deferred = {}
  /\ main \in {"offer", "create"} \/ program = "srs" => poller = "none"
  /\ main \in {"attach", "join", "publish"} => poller # "none"
  /\ main \in {"offer", "request", "cap", "returned"} => deferred = {}
  /\ main \in Signaling \cup {"up"} => program = "janus"
  /\ main \in {"request", "cap"} => program = "srs"
  /\ program = "janus" => ~cap

\* A state is told after the connection was tried.
ToldTried == pcDone = "done" \/ callbacks # {} => pc \notin Untried

\* What does not exist yet before Register.
THEOREM EarlyCorrect == Spec => []Early
<1> USE DEF Early, Signaling, contexts, session, connection, workers
<1>1. Init => Early
  BY DEF Init
<1>2. ASSUME Early, TypeOK, TypeOK', [Next]_vars PROVE Early'
  <2> USE <1>2
  <2>1. CASE Interrupt
    BY <2>1 DEF Interrupt
  <2>2. CASE Connected \/ Failed
    BY <2>2 DEF Connected, Failed, doClose, Tell
  <2>3. CASE Callback
    BY <2>3 DEF Callback
  <2>4. CASE Offer \/ OfferFails
    BY <2>4 DEF Offer, OfferFails, doClose, Tell
  <2>5. CASE Answered \/ RequestFails
    BY <2>5 DEF Answered, RequestFails, doClose, Tell
  <2>6. CASE CallSucceeds
    BY <2>6 DEF CallSucceeds
  <2>7. CASE CallFails \/ BadAnswer
    BY <2>7 DEF CallFails, BadAnswer
  <2>8. CASE Register
    BY <2>8 DEF Register
  <2>9. CASE UpCanceled \/ IsUp
    BY <2>9 DEF UpCanceled, IsUp
  <2>10. CASE CapCloses \/ Start
    BY <2>10 DEF CapCloses, Start
  <2>11. CASE Waited
    BY <2>11 DEF Waited
  <2>12. CASE Undo \/ CloseSession \/ SessionClosed
    BY <2>12 DEF Undo, CloseSession, SessionClosed
  <2>13. CASE Return
    BY <2>13 DEF Return, doClose, Tell
  <2>14. CASE WebrtcUp \/ PollError \/ PollStop
    BY <2>14 DEF WebrtcUp, PollError, PollStop
  <2>15. CASE CloseAll \/ StatsEnd
    BY <2>15 DEF CloseAll, StatsEnd, doClose, Tell
  <2>16. ASSUME NEW m \in Media, Goroutine(m) PROVE Early'
    BY <2>16 DEF Goroutine, ReaderWakes, ReaderEnds, IngesterWakes, IngesterEnds, Woken
  <2>17. CASE UNCHANGED vars BY <2>17 DEF vars
  <2> QED BY <2>1, <2>2, <2>3, <2>4, <2>5, <2>6, <2>7, <2>8, <2>9, <2>10, <2>11,
      <2>12, <2>13, <2>14, <2>15, <2>16, <2>17 DEF Next
<1> QED BY <1>1, <1>2, TypeCorrect, PTL DEF Spec

\* What a session has open is still to be undone (defer api.Close).
THEOREM SessionCorrect == Spec => []SessionOpen
<1> USE DEF SessionOpen, Signaling, contexts, session, connection, workers
<1>1. Init => SessionOpen
  BY DEF Init
<1>2. ASSUME SessionOpen, TypeOK, TypeOK', [Next]_vars PROVE SessionOpen'
  <2> USE <1>2
  <2>t. program \in {"srs", "janus"} /\ poller \in {"none", "poll", "stopping", "done"}
    BY DEF TypeOK
  <2> USE <2>t
  <2>1. CASE Interrupt
    BY <2>1 DEF Interrupt
  <2>2. CASE Connected \/ Failed
    BY <2>2 DEF Connected, Failed
  <2>3. CASE Callback
    BY <2>3 DEF Callback
  <2>4. CASE Offer \/ OfferFails
    BY <2>4 DEF Offer, OfferFails
  <2>5. CASE Answered \/ RequestFails
    BY <2>5 DEF Answered, RequestFails
  <2>6. CASE CallSucceeds
    BY <2>6 DEF CallSucceeds
  <2>7. CASE CallFails \/ BadAnswer
    BY <2>7 DEF CallFails, BadAnswer
  <2>8. CASE Register
    BY <2>8 DEF Register
  <2>9. CASE UpCanceled \/ IsUp
    BY <2>9 DEF UpCanceled, IsUp
  <2>10. CASE CapCloses \/ Start
    BY <2>10 DEF CapCloses, Start
  <2>11. CASE Waited
    BY <2>11 DEF Waited
  <2>12. CASE Undo \/ CloseSession \/ SessionClosed
    BY <2>12 DEF Undo, CloseSession, SessionClosed
  <2>13. CASE Return
    BY <2>13 DEF Return
  <2>14. CASE WebrtcUp \/ PollError \/ PollStop
    BY <2>14 DEF WebrtcUp, PollError, PollStop
  <2>15. CASE CloseAll \/ StatsEnd
    BY <2>15 DEF CloseAll, StatsEnd
  <2>16. ASSUME NEW m \in Media, Goroutine(m) PROVE SessionOpen'
    BY <2>16 DEF Goroutine, ReaderWakes, ReaderEnds, IngesterWakes, IngesterEnds, Woken
  <2>17. CASE UNCHANGED vars BY <2>17 DEF vars
  <2> QED BY <2>1, <2>2, <2>3, <2>4, <2>5, <2>6, <2>7, <2>8, <2>9, <2>10, <2>11,
      <2>12, <2>13, <2>14, <2>15, <2>16, <2>17 DEF Next
<1> QED BY <1>1, <1>2, TypeCorrect, PTL DEF Spec

\* When the goroutines run (the launches and wg.Wait of startPublish).
THEOREM WorkersCorrect == Spec => []WorkersStarted
<1> USE DEF WorkersStarted, SessionOpen, Early, Ended, Signaling, contexts, session, connection,
workers
<1>1. Init => WorkersStarted
  BY DEF Init
<1>2. ASSUME WorkersStarted, TypeOK, TypeOK', SessionOpen, Early, [Next]_vars PROVE WorkersStarted'
  <2> USE <1>2
  <2>t. program \in {"srs", "janus"} /\ up \in {"live", "done"}
    BY DEF TypeOK
  <2> USE <2>t
  <2>1. CASE Interrupt
    BY <2>1 DEF Interrupt
  <2>2. CASE Connected \/ Failed
    BY <2>2 DEF Connected, Failed
  <2>3. CASE Callback
    BY <2>3 DEF Callback
  <2>4. CASE Offer \/ OfferFails
    BY <2>4 DEF Offer, OfferFails
  <2>5. CASE Answered \/ RequestFails
    BY <2>5 DEF Answered, RequestFails
  <2>6. CASE CallSucceeds
    BY <2>6 DEF CallSucceeds
  <2>7. CASE CallFails \/ BadAnswer
    BY <2>7 DEF CallFails, BadAnswer
  <2>8. CASE Register
    BY <2>8 DEF Register
  <2>9. CASE UpCanceled \/ IsUp
    BY <2>9 DEF UpCanceled, IsUp
  <2>10. CASE CapCloses \/ Start
    BY <2>10 DEF CapCloses, Start
  <2>11. CASE Waited
    BY <2>11 DEF Waited
  <2>12. CASE Undo \/ CloseSession \/ SessionClosed
    BY <2>12 DEF Undo, CloseSession, SessionClosed
  <2>13. CASE Return
    BY <2>13 DEF Return
  <2>14. CASE WebrtcUp \/ PollError \/ PollStop
    BY <2>14 DEF WebrtcUp, PollError, PollStop
  <2>15. CASE CloseAll \/ StatsEnd
    BY <2>15 DEF CloseAll, StatsEnd
  <2>16. ASSUME NEW m \in Media, Goroutine(m) PROVE WorkersStarted'
    BY <2>16 DEF Goroutine, ReaderWakes, ReaderEnds, IngesterWakes, IngesterEnds, Woken
  <2>17. CASE UNCHANGED vars BY <2>17 DEF vars
  <2> QED BY <2>1, <2>2, <2>3, <2>4, <2>5, <2>6, <2>7, <2>8, <2>9, <2>10, <2>11,
      <2>12, <2>13, <2>14, <2>15, <2>16, <2>17 DEF Next
<1> HIDE DEF WorkersStarted, SessionOpen, Early
<1> QED BY <1>1, <1>2, TypeCorrect, SessionCorrect, EarlyCorrect, PTL DEF Spec

\* No callback before the connection was tried.
THEOREM ToldCorrect == Spec => []ToldTried
<1> USE DEF ToldTried, Untried, Early, Signaling, contexts, session, connection, workers
<1>1. Init => ToldTried
  BY DEF Init
<1>2. ASSUME ToldTried, TypeOK, TypeOK', Early, [Next]_vars PROVE ToldTried'
  <2> USE <1>2
  <2>1. CASE Interrupt
    BY <2>1 DEF Interrupt
  <2>2. CASE Connected \/ Failed
    BY <2>2 DEF Connected, Failed, doClose, Tell
  <2>3. CASE Callback
    BY <2>3 DEF Callback
  <2>4. CASE Offer \/ OfferFails
    BY <2>4 DEF Offer, OfferFails, doClose, Tell
  <2>5. CASE Answered \/ RequestFails
    BY <2>5 DEF Answered, RequestFails, doClose, Tell
  <2>6. CASE CallSucceeds
    BY <2>6 DEF CallSucceeds
  <2>7. CASE CallFails \/ BadAnswer
    BY <2>7 DEF CallFails, BadAnswer
  <2>8. CASE Register
    BY <2>8 DEF Register
  <2>9. CASE UpCanceled \/ IsUp
    BY <2>9 DEF UpCanceled, IsUp
  <2>10. CASE CapCloses \/ Start
    BY <2>10 DEF CapCloses, Start
  <2>11. CASE Waited
    BY <2>11 DEF Waited
  <2>12. CASE Undo \/ CloseSession \/ SessionClosed
    BY <2>12 DEF Undo, CloseSession, SessionClosed
  <2>13. CASE Return
    BY <2>13 DEF Return, doClose, Tell
  <2>14. CASE WebrtcUp \/ PollError \/ PollStop
    BY <2>14 DEF WebrtcUp, PollError, PollStop
  <2>15. CASE CloseAll \/ StatsEnd
    BY <2>15 DEF CloseAll, StatsEnd, doClose, Tell
  <2>16. ASSUME NEW m \in Media, Goroutine(m) PROVE ToldTried'
    BY <2>16 DEF Goroutine, ReaderWakes, ReaderEnds, IngesterWakes, IngesterEnds, Woken
  <2>17. CASE UNCHANGED vars BY <2>17 DEF vars
  <2> QED BY <2>1, <2>2, <2>3, <2>4, <2>5, <2>6, <2>7, <2>8, <2>9, <2>10, <2>11,
      <2>12, <2>13, <2>14, <2>15, <2>16, <2>17 DEF Next
<1> QED BY <1>1, <1>2, TypeCorrect, EarlyCorrect, PTL DEF Spec

\* On every way out startPublish leaves no goroutine, no open connection and
\* nothing to undo in its session.
THEOREM LeavesNothing == Spec => []ReturnLeavesNothing
<1> USE DEF ReturnLeavesNothing, WorkersStarted, SessionOpen, Early, Ended, Signaling, contexts,
session, connection, workers
<1>1. Init => ReturnLeavesNothing
  BY DEF Init
<1>2. ASSUME ReturnLeavesNothing, TypeOK, TypeOK', WorkersStarted, SessionOpen, Early, [Next]_vars PROVE ReturnLeavesNothing'
  <2> USE <1>2
  <2>t. program \in {"srs", "janus"} /\ poller \in {"none", "poll", "stopping", "done"}
    BY DEF TypeOK
  <2> USE <2>t
  <2>0. doClose => pc' = "closed" /\ senders' = "stopped"
    BY DEF doClose, Tell
  <2>1. CASE Interrupt
    BY <2>1 DEF Interrupt
  <2>2. CASE Connected \/ Failed
    BY <2>0, <2>2 DEF Connected, Failed
  <2>3. CASE Callback
    BY <2>3 DEF Callback
  <2>4. CASE Offer \/ OfferFails
    BY <2>0, <2>4 DEF Offer, OfferFails
  <2>5. CASE Answered \/ RequestFails
    BY <2>0, <2>5 DEF Answered, RequestFails
  <2>6. CASE CallSucceeds
    BY <2>6 DEF CallSucceeds
  <2>7. CASE CallFails \/ BadAnswer
    BY <2>7 DEF CallFails, BadAnswer
  <2>8. CASE Register
    BY <2>8 DEF Register
  <2>9. CASE UpCanceled \/ IsUp
    BY <2>9 DEF UpCanceled, IsUp
  <2>10. CASE CapCloses \/ Start
    BY <2>10 DEF CapCloses, Start
  <2>11. CASE Waited
    BY <2>11 DEF Waited
  <2>12. CASE Undo \/ CloseSession \/ SessionClosed
    BY <2>12 DEF Undo, CloseSession, SessionClosed
  <2>13. CASE Return
    BY <2>0, <2>13 DEF Return
  <2>14. CASE WebrtcUp \/ PollError \/ PollStop
    BY <2>14 DEF WebrtcUp, PollError, PollStop
  <2>15. CASE CloseAll \/ StatsEnd
    BY <2>0, <2>15 DEF CloseAll, StatsEnd
  <2>16. ASSUME NEW m \in Media, Goroutine(m) PROVE ReturnLeavesNothing'
    BY <2>16 DEF Goroutine, ReaderWakes, ReaderEnds, IngesterWakes, IngesterEnds, Woken
  <2>17. CASE UNCHANGED vars BY <2>17 DEF vars
  <2> QED BY <2>1, <2>2, <2>3, <2>4, <2>5, <2>6, <2>7, <2>8, <2>9, <2>10, <2>11,
      <2>12, <2>13, <2>14, <2>15, <2>16, <2>17 DEF Next
<1> HIDE DEF ReturnLeavesNothing, WorkersStarted, SessionOpen, Early
<1> QED BY <1>1, <1>2, TypeCorrect, WorkersCorrect, SessionCorrect, EarlyCorrect, PTL DEF Spec

\* No media is read or sent before the connection was up, and none with -cap.
THEOREM MediaLate == Spec => []MediaAfterConnected
<1> USE DEF MediaAfterConnected, ToldTried, Untried, WorkersStarted, SessionOpen, Early, Ended,
Signaling, contexts, session, connection, workers
<1>1. Init => MediaAfterConnected
  BY DEF Init
<1>2. ASSUME MediaAfterConnected, TypeOK, TypeOK', WorkersStarted, SessionOpen, ToldTried, Early, [Next]_vars PROVE MediaAfterConnected'
  <2> USE <1>2
  <2>t. program \in {"srs", "janus"} /\ up \in {"live", "done"}
    BY DEF TypeOK
  <2> USE <2>t
  <2>1. CASE Interrupt
    BY <2>1 DEF Interrupt
  <2>2. CASE Connected \/ Failed
    BY <2>2 DEF Connected, Failed, doClose, Tell
  <2>3. CASE Callback
    BY <2>3 DEF Callback
  <2>4. CASE Offer \/ OfferFails
    BY <2>4 DEF Offer, OfferFails, doClose, Tell
  <2>5. CASE Answered \/ RequestFails
    BY <2>5 DEF Answered, RequestFails, doClose, Tell
  <2>6. CASE CallSucceeds
    BY <2>6 DEF CallSucceeds
  <2>7. CASE CallFails \/ BadAnswer
    BY <2>7 DEF CallFails, BadAnswer
  <2>8. CASE Register
    BY <2>8 DEF Register
  <2>9. CASE UpCanceled \/ IsUp
    BY <2>9 DEF UpCanceled, IsUp
  <2>10. CASE CapCloses \/ Start
    BY <2>10 DEF CapCloses, Start
  <2>11. CASE Waited
    BY <2>11 DEF Waited
  <2>12. CASE Undo \/ CloseSession \/ SessionClosed
    BY <2>12 DEF Undo, CloseSession, SessionClosed
  <2>13. CASE Return
    BY <2>13 DEF Return, doClose, Tell
  <2>14. CASE WebrtcUp \/ PollError \/ PollStop
    BY <2>14 DEF WebrtcUp, PollError, PollStop
  <2>15. CASE CloseAll \/ StatsEnd
    BY <2>15 DEF CloseAll, StatsEnd, doClose, Tell
  <2>16. ASSUME NEW m \in Media, Goroutine(m) PROVE MediaAfterConnected'
    <3>1. reader \in [Media -> Worker] /\ ingester \in [Media -> Worker]
      BY DEF TypeOK
    <3>2. CASE ReaderWakes(m) BY <3>1, <3>2 DEF ReaderWakes, Woken
    <3>3. CASE IngesterWakes(m) BY <3>1, <3>3 DEF IngesterWakes, Woken
    <3>4. CASE ReaderEnds(m) BY <3>1, <3>4 DEF ReaderEnds
    <3>5. CASE IngesterEnds(m) BY <3>1, <3>5 DEF IngesterEnds
    <3> QED BY <2>16, <3>2, <3>3, <3>4, <3>5 DEF Goroutine
  <2>17. CASE UNCHANGED vars BY <2>17 DEF vars
  <2> QED BY <2>1, <2>2, <2>3, <2>4, <2>5, <2>6, <2>7, <2>8, <2>9, <2>10, <2>11,
      <2>12, <2>13, <2>14, <2>15, <2>16, <2>17 DEF Next
<1> HIDE DEF MediaAfterConnected, ToldTried, WorkersStarted, SessionOpen, Early
<1> QED BY <1>1, <1>2, TypeCorrect, WorkersCorrect, SessionCorrect, ToldCorrect, EarlyCorrect,
    PTL DEF Spec

-----------------------------------------------------------------------------
(* The RTMP and FLV clients.                                                *)

\* How far the test is: its clients are there once both connections are made, and
\* a test is over either way.
TestOrder ==
  /\ test \in {"publish", "play"} =>
       publisher = "none" /\ player = "none" /\ errs = {} /\ ~played
  /\ test = "publish" => transport = "none"
  /\ test = "play" => transport = "open"
  /\ test = "wait" => publisher # "none" /\ player # "none" /\ transport # "none"
  /\ test = "over" => \/ publisher = "done" /\ player = "done"
                      \/ publisher = "none" /\ player = "none" /\ errs # {} /\ ~played

\* Whose turn it is of the two files, and that of the goroutine beside each.
IngestOrder ==
  /\ publisher \in {"none", "start"} => ingestCloser[1] = "none" /\ ingestCloser[2] = "none"
  /\ publisher \in {"first", "firstDone"} =>
       ingestCloser[2] = "none" /\ closeTransportWhenIngestDone = (kind # "twice")
  /\ publisher = "next" => ingestCloser[2] = "none"
  /\ publisher \in {"next", "second", "secondDone"} => kind = "twice" /\ ingestCloser[1] = "done"
  /\ publisher = "done" =>
       /\ ingestCloser[IF kind = "twice" THEN 2 ELSE 1] = "done"
       /\ ingestCloser[1] # "wait"
  /\ \A i \in 1 .. 2 : ingestCloser[i] = "done" => IngestCtx(i) # "live"

\* Consume with the goroutine beside it, which closes an open connection only once
\* the test is done or Consume has left.
ConsumeOrder ==
  /\ player \in {"none", "start"} => playCloser = "none"
  /\ player = "start" /\ kind # "flv" => playing = "open"
  /\ player \in {"none", "start", "request"} => ~played
  /\ player = "consume" /\ testCtx = "live" => playing = "open"

\* Of two files the first leaves the connection open, whoever ends its context.
ConnectionKept ==
  transport = "closed" /\ test # "over" =>
    testCtx # "live" /\ (kind = "twice" => publisher \in {"second", "secondDone", "done"})

\* Who ended the context of the test: its player that had all, an error, or the
\* timer; and no error is due to closing the connections.
Blame ==
  /\ played => testCtx = "canceled"
  /\ testCtx = "canceled" => played \/ errs # {}
  /\ errs # {} => broken \/ testCtx = "expired"

\* The inductive invariant.
RtmpInv ==
  RtmpTypeOK /\ TestOrder /\ IngestOrder /\ ConsumeOrder /\ ConnectionKept /\ Blame

\* Nothing has happened yet.
LEMMA RtmpBegins == RtmpInit => RtmpInv
<1> SUFFICES ASSUME RtmpInit PROVE RtmpInv
  OBVIOUS
<1>1. RtmpTypeOK
  BY DEF RtmpInit, RtmpTypeOK, CtxState, Closer
<1>2. TestOrder /\ ConsumeOrder /\ ConnectionKept /\ Blame
  BY DEF RtmpInit, TestOrder, ConsumeOrder, ConnectionKept, Blame
<1>3. IngestOrder
  BY DEF RtmpInit, IngestOrder
<1> QED
  BY <1>1, <1>2, <1>3 DEF RtmpInv

\* What a step of one of the two goroutines does to their states.
LEMMA OneCloser ==
  ASSUME NEW f \in [1 .. 2 -> Closer], NEW i \in 1 .. 2, NEW v \in Closer
  PROVE /\ [f EXCEPT ![i] = v] \in [1 .. 2 -> Closer]
        /\ [f EXCEPT ![i] = v][i] = v
        /\ \A j \in 1 .. 2 : j # i => [f EXCEPT ![i] = v][j] = f[j]
OBVIOUS

\* A context that is done stays as it is.
LEMMA EndOnce ==
  ASSUME testCtx \in CtxState, ctxAvatar \in CtxState, NEW how \in {"canceled", "expired"}, End(how)
  PROVE /\ testCtx' \in {"canceled", "expired"} /\ ctxAvatar' \in {"canceled", "expired"}
        /\ testCtx' = IF testCtx = "live" THEN how ELSE testCtx
        /\ ctxAvatar # "live" => ctxAvatar' = ctxAvatar
BY DEF End, CtxState

\* Recording a result ends the context of the test with an error only.
LEMMA ResultEnds ==
  ASSUME testCtx \in CtxState, ctxAvatar \in CtxState, NEW r, Result(r, r \in errs)
  PROVE /\ errs' = errs
        /\ testCtx' \in CtxState /\ ctxAvatar' \in CtxState
        /\ testCtx # "live" => testCtx' = testCtx
        /\ ctxAvatar # "live" => ctxAvatar' = ctxAvatar
        /\ testCtx = "live" /\ testCtx' # "live" => testCtx' = "canceled" /\ errs # {}
<1>1. CASE r \in errs
  <2>1. errs' = errs /\ End("canceled")
    BY <1>1 DEF Result
  <2> QED
    BY <1>1, <2>1, EndOnce DEF CtxState
<1>2. CASE r \notin errs
  BY <1>2 DEF Result, rtmpCtxs
<1> QED
  BY <1>1, <1>2

\* Every step of the test, its clients and the goroutines beside them.
LEMMA RtmpStep == RtmpInv /\ [RtmpNext]_rtmpVars => RtmpInv'
<1> SUFFICES ASSUME RtmpInv, [RtmpNext]_rtmpVars PROVE RtmpInv'
  OBVIOUS
<1> USE DEF RtmpTypeOK, CtxState, Closer, publishing, consuming, rtmpCtxs
<1>t. RtmpTypeOK /\ TestOrder /\ IngestOrder /\ ConsumeOrder /\ ConnectionKept /\ Blame
  BY DEF RtmpInv
<1>1. CASE Timeout
  BY <1>t, <1>1, EndOnce DEF Timeout, RtmpInv, TestOrder, IngestOrder, IngestCtx, ConsumeOrder,
     ConnectionKept, Blame
<1>2. CASE Published
  BY <1>t, <1>2 DEF Published, RtmpInv, TestOrder, IngestOrder, IngestCtx, ConsumeOrder,
     ConnectionKept, Blame
<1>3. CASE Plays
  BY <1>t, <1>3 DEF Plays, RtmpInv, TestOrder, IngestOrder, IngestCtx, ConsumeOrder,
     ConnectionKept, Blame
<1>4. CASE ConnectFails
  BY <1>t, <1>4 DEF ConnectFails, CloseClients, RtmpInv, TestOrder, IngestOrder, IngestCtx,
      ConsumeOrder,
     ConnectionKept, Blame
<1>5. CASE TestReturns
  BY <1>t, <1>5 DEF TestReturns, CloseClients, RtmpInv, TestOrder, IngestOrder, IngestCtx,
      ConsumeOrder,
     ConnectionKept, Blame
<1>6. CASE IngestFirst
  BY <1>t, <1>6, OneCloser DEF IngestFirst, RtmpInv, TestOrder, IngestOrder, IngestCtx,
      ConsumeOrder,
     ConnectionKept, Blame
<1>7. CASE IngestSecond
  BY <1>t, <1>7, OneCloser DEF IngestSecond, RtmpInv, TestOrder, IngestOrder, IngestCtx,
      ConsumeOrder,
     ConnectionKept, Blame
<1>8. CASE CancelAvatar
  BY <1>t, <1>8 DEF CancelAvatar, RtmpInv, TestOrder, IngestOrder, IngestCtx, ConsumeOrder,
     ConnectionKept, Blame
<1>9. ASSUME NEW i \in 1 .. 2, IngestEof(i) PROVE RtmpInv'
  BY <1>t, <1>9 DEF IngestEof, Ingesting, IngestEnds, RtmpInv, TestOrder, IngestOrder,
      IngestCtx, ConsumeOrder,
     ConnectionKept, Blame
<1>10. ASSUME NEW i \in 1 .. 2, IngestFails(i) PROVE RtmpInv'
  <2>a. /\ publisher = IF i = 1 THEN "first" ELSE "second"
        /\ publisher' = IF i = 1 THEN "firstDone" ELSE "secondDone"
        /\ IF IngestCtx(i) = "canceled" THEN errs' = errs
           ELSE errs' # {} /\ errs' \subseteq errs \cup {"r0", "r2"}
        /\ UNCHANGED <<kind, test, rtmpCtxs, transport, closeTransportWhenIngestDone,
                       ingestCloser, consuming, played>>
    BY <1>10 DEF IngestFails, Ingesting, IngestEnds
  <2>b. broken' \in BOOLEAN /\ (broken \/ transport = "open" => broken')
    BY <1>10 DEF IngestFails
  <2>c. errs' \subseteq {"err", "r0", "r1", "r2"}
    BY <1>t, <2>a
  <2>1. RtmpTypeOK'
    BY <1>t, <2>a, <2>b, <2>c
  <2>2. TestOrder'
    BY <1>t, <1>10, <2>a, <2>b DEF TestOrder
  <2>3. IngestOrder'
    BY <1>t, <1>10, <2>a, <2>b DEF IngestOrder, IngestCtx
  <2>4. ConsumeOrder'
    BY <1>t, <1>10, <2>a, <2>b DEF ConsumeOrder
  <2>5. ConnectionKept'
    BY <1>t, <1>10, <2>a, <2>b DEF ConnectionKept
  <2>6. Blame'
    BY <1>t, <1>10, <2>a, <2>b DEF Blame, ConnectionKept, TestOrder, IngestCtx
  <2> QED
    BY <2>1, <2>2, <2>3, <2>4, <2>5, <2>6 DEF RtmpInv
<1>11. ASSUME NEW i \in 1 .. 2, IngestCloses(i) PROVE RtmpInv'
  BY <1>t, <1>11 DEF IngestCloses, RtmpInv, TestOrder, IngestOrder, IngestCtx, ConsumeOrder,
     ConnectionKept, Blame
<1>12. ASSUME NEW i \in 1 .. 2, IngestReturns(i) PROVE RtmpInv'
  <2>a. publisher' \in {"next", "done"} /\ Result(<<"r0", "r2">>[i], <<"r0", "r2">>[i] \in errs)
    BY <1>12 DEF IngestReturns
  <2>b. errs' = errs /\ testCtx' \in CtxState /\ ctxAvatar' \in CtxState
    BY <1>t, <2>a, ResultEnds
  <2>1. RtmpTypeOK'
    BY <1>t, <1>12, <2>a, <2>b DEF IngestReturns
  <2>2. TestOrder'
    BY <1>t, <1>12, ResultEnds DEF IngestReturns, TestOrder
  <2>3. IngestOrder'
    BY <1>t, <1>12, ResultEnds DEF IngestReturns, IngestOrder, IngestCtx
  <2>4. ConsumeOrder'
    BY <1>t, <1>12, ResultEnds DEF IngestReturns, ConsumeOrder
  <2>5. ConnectionKept'
    BY <1>t, <1>12, ResultEnds DEF IngestReturns, ConnectionKept
  <2>6. Blame'
    BY <1>t, <1>12, ResultEnds DEF IngestReturns, Blame
  <2> QED
    BY <2>1, <2>2, <2>3, <2>4, <2>5, <2>6 DEF RtmpInv
<1>13. CASE ConsumeBegins
  BY <1>t, <1>13 DEF ConsumeBegins, RtmpInv, TestOrder, IngestOrder, IngestCtx, ConsumeOrder,
     ConnectionKept, Blame
<1>14. CASE FlvAnswered
  BY <1>t, <1>14 DEF FlvAnswered, RtmpInv, TestOrder, IngestOrder, IngestCtx, ConsumeOrder,
     ConnectionKept, Blame
<1>15. CASE FlvRequestFails
  <2>a. broken' \in BOOLEAN /\ (broken => broken') /\ ( testCtx = "live" => broken')
    BY <1>15 DEF FlvRequestFails
  <2>b. errs' \subseteq {"err", "r0", "r1", "r2"}
    BY <1>t, <1>15 DEF FlvRequestFails
  <2>1. RtmpTypeOK'
    BY <1>t, <1>15, <2>a, <2>b DEF FlvRequestFails
  <2>2. TestOrder'
    BY <1>t, <1>15, <2>a, <2>b DEF FlvRequestFails, TestOrder
  <2>3. IngestOrder'
    BY <1>t, <1>15, <2>a, <2>b DEF FlvRequestFails, IngestOrder, IngestCtx
  <2>4. ConsumeOrder'
    BY <1>t, <1>15, <2>a, <2>b DEF FlvRequestFails, ConsumeOrder
  <2>5. ConnectionKept'
    BY <1>t, <1>15, <2>a, <2>b DEF FlvRequestFails, ConnectionKept
  <2>6. Blame'
    BY <1>t, <1>15, <2>a, <2>b DEF FlvRequestFails, Blame, ConsumeOrder
  <2> QED
    BY <2>1, <2>2, <2>3, <2>4, <2>5, <2>6 DEF RtmpInv
<1>16. CASE Complete
  <2>a. played' \in BOOLEAN /\ (played => played') /\ (testCtx = "live" => played')
    BY <1>16 DEF Complete
  <2>1. RtmpTypeOK'
    BY <1>t, <1>16, <2>a, EndOnce DEF Complete
  <2>2. TestOrder'
    BY <1>t, <1>16, <2>a, EndOnce DEF Complete, TestOrder
  <2>3. IngestOrder'
    BY <1>t, <1>16, <2>a, EndOnce DEF Complete, IngestOrder, IngestCtx
  <2>4. ConsumeOrder'
    BY <1>t, <1>16, <2>a, EndOnce DEF Complete, ConsumeOrder
  <2>5. ConnectionKept'
    BY <1>t, <1>16, <2>a, EndOnce DEF Complete, ConnectionKept
  <2>6. Blame'
    BY <1>t, <1>16, <2>a, EndOnce DEF Complete, Blame
  <2> QED
    BY <2>1, <2>2, <2>3, <2>4, <2>5, <2>6 DEF RtmpInv
<1>17. CASE ConsumeFails
  <2>a. broken' \in BOOLEAN /\ (broken => broken') /\ (playing = "open" /\ testCtx = "live" => broken')
    BY <1>17 DEF ConsumeFails
  <2>b. errs' \subseteq {"err", "r0", "r1", "r2"}
    BY <1>t, <1>17 DEF ConsumeFails
  <2>1. RtmpTypeOK'
    BY <1>t, <1>17, <2>a, <2>b DEF ConsumeFails
  <2>2. TestOrder'
    BY <1>t, <1>17, <2>a, <2>b DEF ConsumeFails, TestOrder
  <2>3. IngestOrder'
    BY <1>t, <1>17, <2>a, <2>b DEF ConsumeFails, IngestOrder, IngestCtx
  <2>4. ConsumeOrder'
    BY <1>t, <1>17, <2>a, <2>b DEF ConsumeFails, ConsumeOrder
  <2>5. ConnectionKept'
    BY <1>t, <1>17, <2>a, <2>b DEF ConsumeFails, ConnectionKept
  <2>6. Blame'
    BY <1>t, <1>17, <2>a, <2>b DEF ConsumeFails, Blame, ConsumeOrder
  <2> QED
    BY <2>1, <2>2, <2>3, <2>4, <2>5, <2>6 DEF RtmpInv
<1>18. CASE PlayCloses
  BY <1>t, <1>18 DEF PlayCloses, RtmpInv, TestOrder, IngestOrder, IngestCtx, ConsumeOrder,
     ConnectionKept, Blame
<1>19. CASE ConsumeReturns
  <2>1. RtmpTypeOK'
    BY <1>t, <1>19, ResultEnds DEF ConsumeReturns
  <2>2. TestOrder'
    BY <1>t, <1>19, ResultEnds DEF ConsumeReturns, TestOrder
  <2>3. IngestOrder'
    BY <1>t, <1>19, ResultEnds DEF ConsumeReturns, IngestOrder, IngestCtx
  <2>4. ConsumeOrder'
    BY <1>t, <1>19, ResultEnds DEF ConsumeReturns, ConsumeOrder
  <2>5. ConnectionKept'
    BY <1>t, <1>19, ResultEnds DEF ConsumeReturns, ConnectionKept
  <2>6. Blame'
    BY <1>t, <1>19, ResultEnds DEF ConsumeReturns, Blame
  <2> QED
    BY <2>1, <2>2, <2>3, <2>4, <2>5, <2>6 DEF RtmpInv
<1>20. CASE UNCHANGED rtmpVars
  BY <1>t, <1>20 DEF rtmpVars, RtmpInv, TestOrder, IngestOrder, IngestCtx, ConsumeOrder,
     ConnectionKept, Blame
<1> QED
  BY <1>1, <1>2, <1>3, <1>4, <1>5, <1>6, <1>7, <1>8, <1>9, <1>10, <1>11, <1>12, <1>13, <1>14,
      <1>15, <1>16, <1>17, <1>18, <1>19, <1>20 DEF RtmpNext

\* The type invariant of an RTMP or FLV test.
THEOREM RtmpTypeCorrect == RtmpSpec => []RtmpTypeOK
BY RtmpBegins, RtmpStep, PTL DEF RtmpSpec, RtmpInv

\* The connection of the publisher stays open from file to file, until the test is
\* complete, has failed or has timed out: the goroutine beside the first Ingest is
\* waited for before closeTransportWhenIngestDone is set again.
THEOREM ConnectionStaysOpen == RtmpSpec => []TransportKept
<1>1. RtmpInv => TransportKept
  BY DEF RtmpInv, ConnectionKept, TransportKept
<1>2. QED
  BY <1>1, RtmpBegins, RtmpStep, PTL DEF RtmpSpec

\* A test passes only if its player had its packets, and closing the connections
\* under the clients does not make one fail.
THEOREM VerdictIsPlay == RtmpSpec => []PassesIfPlayed
<1>1. ASSUME RtmpInv PROVE PassesIfPlayed
  <2> SUFFICES ASSUME test = "over"
               PROVE /\ testCtx # "expired" /\ errs = {} => played
                     /\ played /\ ~broken => testCtx # "expired" /\ errs = {}
    BY DEF PassesIfPlayed, Passes
  <2>1. errs = {} => testCtx # "live"
    BY <1>1 DEF RtmpInv, RtmpTypeOK, TestOrder, IngestOrder, IngestCtx
  <2> QED
    BY <1>1, <2>1 DEF RtmpInv, RtmpTypeOK, CtxState, Blame
<1>2. QED
  BY <1>1, RtmpBegins, RtmpStep, PTL DEF RtmpSpec

-----------------------------------------------------------------------------
(* The WebRTC players.                                                      *)

PlayerType == Player!TypeOK

\* What there is at each place of startPlay: no context before Register, a live
\* one only while it waits, and a connection until it returns.
PlayerPlaces ==
  /\ parent = "done" => ctx # "live"
  /\ main \in {"offer", "request", "discover", "subscribe", "answered"} => ctx = "nil"
  /\ main = "wait" => ctx # "nil"
  /\ main \in {"closing", "returned"} => ctx # "live"
  /\ main = "offer" => pc = "none"
  /\ main = "returned" => pc \in {"none", "closed"}
  /\ main = "crashed" => pc = "closed"

\* The goroutines beside it: a poller only of a session that Close waits for,
\* statistics only while wg.Wait does.
PlayerKeeps ==
  /\ poller # "none" => program = "janus" /\ main \notin {"offer", "request"}
  /\ main \in {"discover", "subscribe", "closing"} => program = "janus"
  /\ main = "returned" => poller # "poll"
  /\ ctx = "nil" => stats = "none" \/ main = "crashed"
  /\ stats = "run" => main = "wait"
  /\ stats = "done" => ctx = "done" \/ main = "crashed"
  /\ program = "janus" => stats = "none"

\* A track is handled only behind Register, and has a result when OnTrack assigns
\* it to err.
TrackPlace(t) ==
  /\ handler[t] \notin {"none", "lost", "done"} => ctx # "nil"
  /\ handler[t] = "tested" => outcome[t] # "none"

\* A track of janus has no file, so nothing crashes; it returns nil or the error
\* of its context only when that is done, so err is nil between its assignment
\* and its test only then; and it ends behind the test.
TrackVerdict(t) ==
  /\ file[t] = "none"
  /\ handler[t] \notin {"opened", "inner"}
  /\ outcome[t] \in {"nil", "canceled"} => ctx = "done"
  /\ handler[t] = "outer" => err # "nil" \/ ctx = "done"
  /\ handler[t] = "done" => ctx = "done"

PlayerInv ==
  /\ PlayerType /\ PlayerPlaces /\ PlayerKeeps
  /\ \A t \in Track : TrackPlace(t)
  /\ program = "janus" => \A t \in Track : TrackVerdict(t)

\* A handler goes on by itself.
LEMMA GoesAlone ==
  ASSUME NEW t \in Track, NEW phase \in Player!Phase, handler \in [Track -> Player!Phase],
         Player!HandlerGoes(t, phase)
  PROVE /\ handler' \in [Track -> Player!Phase] /\ handler'[t] = phase
        /\ \A u \in Track : u # t => handler'[u] = handler[u]
BY DEF Player!HandlerGoes

\* A step of one track changes nothing that the verdicts of the others rest on,
\* if it leaves their outcome and err, or ends the player.
LEMMA VerdictsStay ==
  ASSUME NEW t \in Track, \A u \in Track : TrackVerdict(u),
         UNCHANGED file, ctx = "done" => ctx' = "done",
         \A u \in Track : u # t => handler'[u] = handler[u] /\ outcome'[u] = outcome[u],
         err' = "nil" => err = "nil" \/ ctx' = "done",
         TrackVerdict(t)'
  PROVE \A u \in Track : TrackVerdict(u)'
<1> SUFFICES ASSUME NEW u \in Track, u # t PROVE TrackVerdict(u)'
  OBVIOUS
<1> QED BY DEF TrackVerdict

\* startPlay begins without anything (srs/player.go, janus/player.go).
LEMMA PlayerBegins == Player!Init => PlayerInv
BY DEF Player!Init, PlayerInv, PlayerType, Player!TypeOK, Player!Phase, Player!Error,
   Player!FileState, PlayerPlaces, PlayerKeeps, TrackPlace, TrackVerdict

\* A step that leaves the tracks alone, in startPlay or beside it.
Beside ==
  \/ Player!Interrupt \/ Player!Offer \/ Player!Fails \/ Player!Answered \/ Player!Created
  \/ Player!Discovered \/ Player!Subscribed \/ Player!CallFails \/ Player!Register
  \/ Player!Leaves \/ Player!PollStop \/ Player!PollError \/ Player!SessionClosed
  \/ Player!StatsEnd \/ Player!Connected \/ Player!IceFailed \/ Player!PliEnds

\* startPlay, its session, its connection and its statistics: each step keeps what
\* there is at its place, and no context that is done is ever live again.
LEMMA BesideTracks ==
  ASSUME PlayerInv, Beside
  PROVE PlayerInv'
<1>u. UNCHANGED <<program, handler, outcome, err, file>> /\ (ctx = "done" => ctx' = "done")
      /\ (ctx # "nil" => ctx' # "nil")
  BY DEF PlayerInv, PlayerType, Player!TypeOK, PlayerPlaces, Beside, Player!handling,
     Player!session, Player!Interrupt, Player!Offer, Player!Fails, Player!Answered,
     Player!Created, Player!Discovered, Player!Subscribed, Player!CallFails, Player!Register,
     Player!Leaves, Player!PollStop, Player!PollError, Player!SessionClosed, Player!StatsEnd,
     Player!Connected, Player!IceFailed, Player!PliEnds
<1>s. /\ parent' \in {"live", "done"} /\ ctx' \in {"nil", "live", "done"}
      /\ poller' \in {"none", "poll", "done"} /\ returned' \in Player!Error \cup {"none"}
      /\ main' \in {"offer", "request", "discover", "subscribe", "answered", "wait",
                   "closing", "returned", "crashed"}
      /\ pc' \in {"none", "new", "connecting", "connected", "failed", "closed"}
      /\ pli' \in {"none", "run", "done"} /\ stats' \in {"none", "run", "done"}
  BY DEF PlayerInv, PlayerType, Player!TypeOK, Player!Error, Beside, Player!handling,
     Player!session, Player!Interrupt, Player!Offer, Player!Fails, Player!Answered,
     Player!Created, Player!Discovered, Player!Subscribed, Player!CallFails, Player!Register,
     Player!Leaves, Player!PollStop, Player!PollError, Player!SessionClosed, Player!StatsEnd,
     Player!Connected, Player!IceFailed, Player!PliEnds
<1>t. PlayerType'
  BY <1>s, <1>u DEF PlayerInv, PlayerType, Player!TypeOK
<1>p. PlayerPlaces'
  BY DEF PlayerInv, PlayerPlaces, PlayerKeeps, PlayerType, Player!TypeOK, Beside, Player!handling,
     Player!session, Player!Interrupt, Player!Offer, Player!Fails, Player!Answered,
     Player!Created, Player!Discovered, Player!Subscribed, Player!CallFails, Player!Register,
     Player!Leaves, Player!PollStop, Player!PollError, Player!SessionClosed, Player!StatsEnd,
     Player!Connected, Player!IceFailed, Player!PliEnds
<1>k. PlayerKeeps'
  BY DEF PlayerInv, PlayerPlaces, PlayerKeeps, PlayerType, Player!TypeOK, Beside, Player!handling,
     Player!session, Player!Interrupt, Player!Offer, Player!Fails, Player!Answered,
     Player!Created, Player!Discovered, Player!Subscribed, Player!CallFails, Player!Register,
     Player!Leaves, Player!PollStop, Player!PollError, Player!SessionClosed, Player!StatsEnd,
     Player!Connected, Player!IceFailed, Player!PliEnds
<1>v. program' = "janus" => \A t \in Track : TrackVerdict(t)'
  BY <1>u DEF PlayerInv, TrackVerdict
<1>w. \A t \in Track : TrackPlace(t)'
  BY <1>u DEF PlayerInv, TrackPlace
<1> QED
  BY <1>t, <1>p, <1>k, <1>v, <1>w DEF PlayerInv

\* The process never crashes with janus, which dumps nothing.
LEMMA CrashedPlayer ==
  ASSUME PlayerInv, Player!Crash, program = "srs"
  PROVE PlayerInv'
<1>1. handler' \in [Track -> Player!Phase]
  BY DEF Player!Crash, Player!Phase
<1>2. PlayerType'
  BY <1>1 DEF PlayerInv, PlayerType, Player!TypeOK, Player!Crash, Player!session
<1>3. PlayerPlaces' /\ PlayerKeeps'
  BY DEF PlayerInv, PlayerPlaces, PlayerKeeps, Player!Crash, Player!session
<1>4. \A t \in Track : TrackPlace(t)'
  BY DEF Player!Crash, TrackPlace
<1> QED
  BY <1>2, <1>3, <1>4 DEF PlayerInv, Player!Crash, Player!session

\* What no step of a track changes: startPlay is where it was, and its context
\* never comes to life.
Elsewhere ==
  /\ UNCHANGED <<program, poller, parent, main, pc, returned, stats>>
  /\ ctx' = ctx \/ (ctx # "nil" /\ ctx' = "done")

\* Then only the track has to be looked at.
LEMMA ElsewhereKept ==
  ASSUME PlayerInv, Elsewhere, handler' \in [Track -> Player!Phase],
         outcome' \in [Track -> Player!Error \cup {"none"}], err' \in Player!Error,
         file' \in [Track -> Player!FileState], pli' \in {"none", "run", "done"},
         \A t \in Track : TrackPlace(t)',
         program = "janus" => \A t \in Track : TrackVerdict(t)'
  PROVE PlayerInv'
<1>1. PlayerType'
  BY DEF PlayerInv, PlayerType, Player!TypeOK, Elsewhere
<1>2. PlayerPlaces' /\ PlayerKeeps'
  BY DEF PlayerInv, PlayerPlaces, PlayerKeeps, Elsewhere
<1> QED
  BY <1>1, <1>2 DEF PlayerInv, Elsewhere

\* The deferred calls of srs: a player of janus has no statistics to wait for.
LEMMA PlayerReturns == ASSUME PlayerInv, Player!Return PROVE PlayerInv'
<1>1. program = "srs"
  BY DEF PlayerInv, PlayerType, Player!TypeOK, PlayerKeeps, Player!Return
<1>2. file' \in [Track -> Player!FileState]
  BY DEF PlayerInv, PlayerType, Player!TypeOK, Player!Return, Player!FileState
<1>3. PlayerType'
  BY <1>2 DEF PlayerInv, PlayerType, Player!TypeOK, Player!Return, Player!session
<1>4. PlayerPlaces' /\ PlayerKeeps'
  BY <1>1 DEF PlayerInv, PlayerType, Player!TypeOK, PlayerPlaces, PlayerKeeps, Player!Return,
     Player!session
<1>5. \A t \in Track : TrackPlace(t)'
  BY DEF PlayerInv, Player!Return, TrackPlace
<1> QED
  BY <1>1, <1>3, <1>4, <1>5 DEF PlayerInv, Player!Return, Player!session

\* A track is handled, and its handler assigns to err and tests it.
LEMMA TrackStep ==
  ASSUME PlayerInv, NEW t \in Track,
         \/ Player!OnTrack(t) \/ Player!Handle(t) \/ Player!OpenTest(t) \/ Player!WriteEnds(t)
         \/ Player!WriteReturns(t) \/ Player!InnerTest(t) \/ Player!OuterAssign(t)
         \/ Player!OuterTest(t)
  PROVE PlayerInv'
<1>t. PlayerType /\ handler \in [Track -> Player!Phase] /\ err \in Player!Error
      /\ outcome \in [Track -> Player!Error \cup {"none"}]
      /\ file \in [Track -> Player!FileState] /\ pli \in {"none", "run", "done"}
      /\ program \in {"srs", "janus"} /\ ctx \in {"nil", "live", "done"}
  BY DEF PlayerInv, PlayerType, Player!TypeOK
<1>w. \A u \in Track : TrackPlace(u)
  BY DEF PlayerInv
<1>v. program = "janus" => \A u \in Track : TrackVerdict(u)
  BY DEF PlayerInv
<1> DEFINE Typed ==
      /\ handler' \in [Track -> Player!Phase] /\ err' \in Player!Error
      /\ outcome' \in [Track -> Player!Error \cup {"none"}]
      /\ file' \in [Track -> Player!FileState] /\ pli' \in {"none", "run", "done"}
      /\ \A u \in Track : u # t => handler'[u] = handler[u] /\ outcome'[u] = outcome[u]
      /\ TrackPlace(t)'
    Own ==
      /\ UNCHANGED file /\ (ctx = "done" => ctx' = "done")
      /\ err' = "nil" => err = "nil" \/ ctx' = "done"
      /\ TrackVerdict(t)'
<1>k. ASSUME Elsewhere, Typed, program = "janus" => Own PROVE PlayerInv'
  <2>1. program = "janus" => \A u \in Track : TrackVerdict(u)'
    BY <1>k, <1>v, VerdictsStay
  <2>2. ASSUME NEW u \in Track PROVE TrackPlace(u)'
    BY <1>k, <1>w DEF TrackPlace, Elsewhere
  <2> QED BY <1>k, <2>1, <2>2, ElsewhereKept
<1>1. CASE Player!OnTrack(t)
  <2>1. PICK phase \in {"lost", "born"} : Player!HandlerGoes(t, phase)
    BY <1>1 DEF Player!OnTrack, Player!HandlerGoes
  <2>2. phase \in Player!Phase
    BY DEF Player!Phase
  <2>3. Typed
    BY <1>1, <1>t, <1>w, <2>1, <2>2, GoesAlone DEF Player!OnTrack, TrackPlace
  <2>4. program = "janus" => Own
    BY <1>1, <1>t, <1>v, <2>1, <2>2, GoesAlone DEF Player!OnTrack, TrackVerdict
  <2> QED BY <1>k, <1>1, <2>3, <2>4 DEF Player!OnTrack, Elsewhere, Player!session
<1>2. CASE Player!HandleUndumped(t)
  <2>1. Player!HandlerGoes(t, "read") /\ "read" \in Player!Phase
    BY <1>2 DEF Player!HandleUndumped, Player!Phase
  <2>2. Typed
    BY <1>2, <1>t, <1>w, <2>1, GoesAlone DEF Player!HandleUndumped, Player!StartPli, TrackPlace
  <2>3. program = "janus" => Own
    BY <1>2, <1>t, <1>v, <2>1, GoesAlone DEF Player!HandleUndumped, TrackVerdict
  <2> QED BY <1>k, <1>2, <2>2, <2>3 DEF Player!HandleUndumped, Elsewhere, Player!session
<1>3. CASE Player!HandleDumped(t)
  <2>1. Player!HandlerGoes(t, "opened") /\ "opened" \in Player!Phase
    BY <1>3 DEF Player!HandleDumped, Player!Phase
  <2>2. Typed
    BY <1>3, <1>t, <1>w, <2>1, GoesAlone
       DEF Player!HandleDumped, Player!StartPli, Player!FileState, Player!Error, TrackPlace
  <2> QED BY <1>k, <1>3, <2>2 DEF Player!HandleDumped, Elsewhere, Player!session
<1>4. CASE Player!HandleRefused(t)
  <2>1. Player!HandlerGoes(t, "tested") /\ "tested" \in Player!Phase
    BY <1>4 DEF Player!HandleRefused, Player!Phase
  <2>2. Typed
    BY <1>4, <1>t, <1>w, <2>1, GoesAlone DEF Player!HandleRefused, Player!StartPli,
        Player!Error, TrackPlace
  <2> QED BY <1>k, <1>4, <2>2 DEF Player!HandleRefused, Elsewhere, Player!session
<1>5. CASE Player!OpenTest(t)
  <2>1. PICK phase \in {"read", "tested"} : Player!HandlerGoes(t, phase)
    BY <1>5 DEF Player!OpenTest
  <2>2. phase \in Player!Phase
    BY DEF Player!Phase
  <2>o. \/ UNCHANGED outcome /\ handler'[t] = "read"
        \/ outcome' = [outcome EXCEPT ![t] = err]
    BY <1>5, <1>t, <2>1, <2>2, GoesAlone DEF Player!OpenTest, Player!HandlerGoes
  <2>p. /\ outcome' \in [Track -> Player!Error \cup {"none"}]
        /\ \A u \in Track : u # t => outcome'[u] = outcome[u]
        /\ handler'[t] = "tested" => outcome'[t] # "none"
    BY <1>t, <2>o DEF Player!Error
  <2>3. Typed
    BY <1>5, <1>t, <1>w, <2>1, <2>2, <2>p, GoesAlone DEF Player!OpenTest, TrackPlace
  <2>4. program # "janus"
    BY <1>5, <1>v DEF Player!OpenTest, TrackVerdict
  <2> QED BY <1>k, <1>5, <2>3, <2>4 DEF Player!OpenTest, Elsewhere, Player!session
<1>6. CASE Player!WriteEnds(t)
  <2>1. Player!HandlerGoes(t, "inner") /\ "inner" \in Player!Phase
    BY <1>6 DEF Player!WriteEnds, Player!Phase
  <2>2. Typed
    BY <1>6, <1>t, <1>w, <2>1, GoesAlone DEF Player!WriteEnds, Player!WriteResult, Player!Error,
        TrackPlace
  <2> QED BY <1>k, <1>6, <2>2 DEF Player!WriteEnds, Elsewhere, Player!session
<1>7. CASE Player!WriteReturns(t)
  <2>1. Player!HandlerGoes(t, "tested") /\ "tested" \in Player!Phase
    BY <1>7 DEF Player!WriteReturns, Player!Phase
  <2>2. PICK e \in Player!Error : /\ outcome' = [outcome EXCEPT ![t] = e]
                                  /\ e \in {"nil", "canceled"} => ctx = "done"
    BY <1>7 DEF Player!WriteReturns, Player!WriteResult, Player!Error
  <2>3. /\ outcome' \in [Track -> Player!Error \cup {"none"}] /\ outcome'[t] = e
        /\ \A u \in Track : u # t => outcome'[u] = outcome[u]
    BY <1>t, <1>w, <2>2
  <2>4. e # "none"
    BY <2>2 DEF Player!Error
  <2>5. Typed
    BY <1>7, <1>t, <1>w, <2>1, <2>3, <2>4, GoesAlone DEF Player!WriteReturns, TrackPlace
  <2>6. program = "janus" => Own
    BY <1>7, <1>t, <1>v, <2>1, <2>2, <2>3, <2>4, GoesAlone DEF Player!WriteReturns, TrackVerdict
  <2> QED BY <1>k, <1>7, <2>5, <2>6 DEF Player!WriteReturns, Elsewhere, Player!session
<1>8. CASE Player!InnerTest(t)
  <2>1. Player!HandlerGoes(t, "tested") /\ "tested" \in Player!Phase
    BY <1>8 DEF Player!InnerTest, Player!Phase
  <2>o. /\ outcome' \in [Track -> Player!Error \cup {"none"}] /\ outcome'[t] # "none"
        /\ \A u \in Track : u # t => outcome'[u] = outcome[u]
    BY <1>8, <1>t DEF Player!InnerTest, Player!Error
  <2>2. Typed
    BY <1>8, <1>t, <1>w, <2>1, <2>o, GoesAlone DEF Player!InnerTest, TrackPlace
  <2>3. program # "janus"
    BY <1>8, <1>v DEF Player!InnerTest, TrackVerdict
  <2> QED BY <1>k, <1>8, <2>2, <2>3 DEF Player!InnerTest, Elsewhere, Player!session
<1>9. CASE Player!OuterAssign(t)
  <2>1. Player!HandlerGoes(t, "outer") /\ "outer" \in Player!Phase
    BY <1>9 DEF Player!OuterAssign, Player!Phase
  <2>2. err' = outcome[t] /\ UNCHANGED <<outcome, file, ctx>> /\ handler[t] = "tested"
    BY <1>9 DEF Player!OuterAssign
  <2>3. outcome[t] \in Player!Error
    BY <1>t, <1>w, <2>2 DEF TrackPlace
  <2>4. Typed
    BY <1>9, <1>t, <1>w, <2>1, <2>3, GoesAlone DEF Player!OuterAssign, TrackPlace
  <2>5. program = "janus" => Own
    BY <1>9, <1>t, <1>v, <2>1, <2>2, GoesAlone DEF TrackVerdict
  <2> QED BY <1>k, <1>9, <2>4, <2>5 DEF Player!OuterAssign, Elsewhere, Player!session
<1>10. CASE Player!OuterTest(t)
  <2>1. Player!HandlerGoes(t, "done") /\ "done" \in Player!Phase
    BY <1>10 DEF Player!OuterTest, Player!Phase
  <2>2. Typed
    BY <1>10, <1>t, <1>w, <2>1, GoesAlone DEF Player!OuterTest, TrackPlace
  <2>3. program = "janus" => Own
    BY <1>10, <1>t, <1>v, <2>1, GoesAlone DEF Player!OuterTest, TrackVerdict
  <2>4. ctx # "nil"
    BY <1>10, <1>w DEF Player!OuterTest, TrackPlace
  <2> QED BY <1>k, <1>10, <2>2, <2>3, <2>4 DEF Player!OuterTest, Elsewhere, Player!session
<1> QED
  BY <1>1, <1>2, <1>3, <1>4, <1>5, <1>6, <1>7, <1>8, <1>9, <1>10 DEF Player!Handle

\* Every step of a player keeps the invariant.
LEMMA PlayerStep == PlayerInv /\ [Player!Next]_(Player!vars) => PlayerInv'
<1> SUFFICES ASSUME PlayerInv, [Player!Next]_(Player!vars) PROVE PlayerInv'
  OBVIOUS
<1>1. CASE Beside
  BY <1>1, BesideTracks
<1>2. CASE Player!Return
  BY <1>2, PlayerReturns
<1>3. ASSUME Player!Crash, Player!CloseCrashes \/ \E t \in Track : Player!WriteCrashes(t)
      PROVE PlayerInv'
  <2>1. program = "srs"
    BY <1>3 DEF PlayerInv, PlayerType, Player!TypeOK, TrackVerdict, Player!CloseCrashes,
       Player!Broken, Player!WriteCrashes
  <2> QED BY <1>3, <2>1, CrashedPlayer
<1>4. ASSUME NEW t \in Track, Player!OnTrack(t) \/ Player!Handler(t) PROVE PlayerInv'
  BY <1>3, <1>4, TrackStep DEF Player!Handler, Player!WriteCrashes
<1>5. CASE UNCHANGED Player!vars
  <2>1. PlayerType'
    BY <1>5 DEF PlayerInv, PlayerType, Player!TypeOK, Player!vars, Player!session, Player!handling
  <2>2. PlayerPlaces' /\ PlayerKeeps'
    BY <1>5 DEF PlayerInv, PlayerPlaces, PlayerKeeps, Player!vars, Player!session, Player!handling
  <2>3. /\ \A t \in Track : TrackPlace(t)'
        /\ program' = "janus" => \A t \in Track : TrackVerdict(t)'
    BY <1>5 DEF PlayerInv, TrackPlace, TrackVerdict, Player!vars, Player!session, Player!handling
  <2> QED BY <2>1, <2>2, <2>3 DEF PlayerInv
<1> QED
  BY <1>1, <1>2, <1>3, <1>4, <1>5 DEF Player!Next, Beside, Player!CloseCrashes

\* The type invariant of a player, for any tracks (srs/player.go, janus/player.go).
THEOREM PlayerTypeCorrect == Player!Spec => []Player!TypeOK
<1>1. PlayerInv => Player!TypeOK
  BY DEF PlayerInv, PlayerType
<1>2. QED
  BY <1>1, PlayerBegins, PlayerStep, PTL DEF Player!Spec

\* When startPlay returns, on whatever way, its connection, session and statistics
\* are closed and its context is not live.
THEOREM PlayerLeavesNothing == Player!Spec => []Player!ReturnLeavesNothing
<1>1. PlayerInv => Player!ReturnLeavesNothing
  BY DEF PlayerInv, PlayerPlaces, PlayerKeeps, Player!ReturnLeavesNothing
<1>2. QED
  BY <1>1, PlayerBegins, PlayerStep, PTL DEF Player!Spec

\* A track of janus that has failed ends the player, whatever the other assigns to
\* the err they share: behind the test of err the context is done.
THEOREM TrackFailureKept == Player!Spec => []Player!FailureKept
<1>1. PlayerInv => Player!FailureKept
  BY DEF PlayerInv, TrackVerdict, Player!FailureKept
<1>2. QED
  BY <1>1, PlayerBegins, PlayerStep, PTL DEF Player!Spec
=============================================================================
