------------------------------- MODULE RtcTest -------------------------------
(* A regression test (TestRtcBasic_PublishPlay in srs/rtc_test.go and those of
   its kind): one goroutine makes a player and a publisher, one runs the
   publisher, one the player once the publisher is connected; each cancels the
   context when it is done.  The test waits for the three, closes what was made
   and reports the errors.                                                   *)
EXTENDS TestPlayer

VARIABLES
  setup,    \* the goroutine that makes them
  mainReady,\* whether it made both
  test,     \* the test itself, in its deferred calls
  verdict   \* what it reports

testVars == <<setup, mainReady, test, verdict>>
vars == <<ctx, pubVars, playVars, testVars>>

TypeOK ==
  /\ PubTypeOK /\ PlayTypeOK
  /\ setup \in {"make", "made", "failed", "done"} /\ mainReady \in BOOLEAN
  /\ test \in {"wait", "player", "publisher", "report", "ended"}
  /\ verdict \in {"none", "pass", "fail"}

Init ==
  /\ PubInit /\ PlayInit
  /\ setup = "make" /\ mainReady = FALSE /\ test = "wait" /\ verdict = "none"

-----------------------------------------------------------------------------
(* The goroutines of the test. *)

Timeout ==
  /\ ~Done /\ Cancel("timeout")
  /\ UNCHANGED <<pubVars, playVars, testVars>>

(* doInit: both are set up, or it stops at an error. *)
Make ==
  /\ setup = "make"
  /\ setup' \in {"made", "failed"} /\ mainReady' = (setup' = "made")
  /\ UNCHANGED <<ctx, pubVars, playVars, test, verdict>>

SetupLeaves ==
  /\ \/ setup = "failed" /\ Cancel("failed")
     \/ setup = "made" /\ Done /\ UNCHANGED ctx
  /\ setup' = "done"
  /\ UNCHANGED <<pubVars, playVars, mainReady, test, verdict>>

SetupFailed == setup \in {"failed", "done"} /\ ~mainReady

PublisherBegins ==
  /\ publisher = "none"
  /\ \/ mainReady /\ publisher' = "offer"
     \/ Done /\ publisher' = "skipped"
  /\ UNCHANGED <<ctx, media, pubResult, pubConnection, ingesting, playVars, testVars>>

(* publishReady is the iceReadyCancel of the publisher. *)
PlayerBegins ==
  /\ player = "none"
  /\ \/ pcDone /\ player' = "request" /\ playPc' = "new"
     \/ Done /\ player' = "skipped" /\ UNCHANGED playPc
  /\ UNCHANGED <<ctx, pubVars, playResult, playTold, playErr, handler, testVars>>

(* The deferred cancel of the two. *)
PublisherEnds ==
  /\ publisher = "returned" /\ publisher' = "done"
  /\ Cancel(IF pubResult = "error" THEN "failed" ELSE "over")
  /\ UNCHANGED <<media, pubResult, pubConnection, ingesting, playVars, testVars>>

PlayerEnds ==
  /\ player = "returned" /\ player' = "done"
  /\ Cancel("over")
  /\ UNCHANGED <<pubVars, playResult, playConnection, playErr, handler, testVars>>

-----------------------------------------------------------------------------
(* The deferred calls of the test. *)

Waited ==
  /\ test = "wait" /\ setup = "done"
  /\ publisher \in {"skipped", "done"} /\ player \in {"skipped", "done"}
  /\ test' = "player"
  /\ UNCHANGED <<ctx, pubVars, playVars, setup, mainReady, verdict>>

ClosePlayer ==
  /\ test = "player" /\ test' = "publisher" /\ PlayClose
  /\ UNCHANGED <<ctx, pubVars, player, playResult, playErr, handler, setup, mainReady, verdict>>

ClosePublisher ==
  /\ test = "publisher" /\ test' = "report"
  /\ IF mainReady THEN PubClose ELSE UNCHANGED <<sender, ready, pubPc, pubTold>>
  /\ UNCHANGED <<ctx, media, publisher, pubResult, pcDone, finalErr, pubGoroutines,
                 playVars, setup, mainReady, verdict>>

(* Mutant: the error of doInit is not among those it is given. *)
FailedButSetup ==
  \/ ctx = "timeout"
  \/ pubResult = "error" \/ playResult = "error"

(* filterTestError: a canceled context is no error, one out of time is. *)
Failed ==
  \/ ctx = "timeout" \/ SetupFailed
  \/ pubResult = "error" \/ playResult = "error"

Report ==
  /\ test = "report" /\ test' = "ended"
  /\ verdict' = IF Failed THEN "fail" ELSE "pass"
  /\ UNCHANGED <<ctx, pubVars, playVars, setup, mainReady>>

-----------------------------------------------------------------------------

Test ==
  \/ Make \/ SetupLeaves \/ PublisherBegins \/ PlayerBegins \/ PublisherEnds \/ PlayerEnds
  \/ Waited \/ ClosePlayer \/ ClosePublisher \/ Report

Pub == PubRun \/ PubCallback \/ Closer \/ PubEnvironment \/ PubRequestFails
Beside == UNCHANGED <<playVars, testVars>>

Play ==
  \/ PlayConnected \/ PlayFailed \/ PlayCallback \/ PlayFails \/ PlayAnswered \/ PlayRun
  \/ Complete \/ \E m \in Tracks : Track(m)

Next ==
  \/ Timeout \/ Test
  \/ (Pub /\ Beside) \/ \E m \in Media : Ingester(m) /\ Beside
  \/ (Play /\ UNCHANGED testVars)

Spec == Init /\ [][Next]_vars

(* Once ctx is done goroutines run and net/http returns.  The order is left open:
   fairness of all of them together is enough, as each has only finitely many
   steps left.  Nothing is assumed of the goroutines that read RTCP: Read may
   block so "that the Stop() can not stop it", a comment in Run says.        *)
Finish ==
  \/ Test
  \/ (PubRun \/ PubRequestFails \/ Closer) /\ Beside
  \/ \E m \in Media : Ingester(m) /\ Beside
  \/ (PlayRun \/ PlayFails) /\ UNCHANGED testVars

Fairness == WF_vars(Timeout) /\ WF_vars(Done /\ Finish)

FairSpec == Spec /\ Fairness

-----------------------------------------------------------------------------
(* Properties. *)

(* Nothing is closed in use: no sender is stopped while its ingester opens its
   file for the first time ("it might crash if sender is disposed"), and no
   connection is closed while Run or a goroutine of Run uses it.             *)
NotClosedInUse ==
  /\ \A m \in Media : ingester[m] = "open" => sender[m] # "stopped"
  /\ pubPc = "closed" => publisher = "done" /\ PubEnded
  /\ playPc = "closed" => player = "done"

(* What goes wrong in the publisher, or in making the two, or a timeout, fails
   the test if it is what ended it.  The same cannot be said of the player.  *)
FailureFails == test = "ended" /\ ctx \in {"failed", "timeout"} => verdict = "fail"

(* Run waits for nothing but goroutines that read RTCP of a stopped sender. *)
OnlyReads ==
  /\ publisher = "wait" /\ ~PubEnded /\ Ended(closer)
  /\ \A m \in Media : Ended(ingester[m]) /\ (reader[m] = "work" => sender[m] = "stopped")
  /\ setup = "done" /\ player \in {"skipped", "done"}

(* A test ends wherever its clients are when its time is over, unless a Read
   that Stop cannot stop keeps Run (the comment at srs/util.go:1364): nothing
   else can.  So where the end of a sender ends its Read, as the code of pion has
   it, a test ends in any case: OnlyReads does not last.                     *)
TestEnds == <>[](test = "ended" \/ OnlyReads)
=============================================================================
