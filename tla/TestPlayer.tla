----------------------------- MODULE TestPlayer -----------------------------
(* The player of the regression tests (testPlayer in srs/util.go), beside a
   publisher.  Its callbacks run in goroutines of pion that nobody waits for, and
   all assign to the one err of Run.                                         *)
EXTENDS TestPublisher

CONSTANT Tracks  \* the media the server sends, of those it is sent

VARIABLES
  player,      \* the goroutine that calls Run
  playResult,  \* what Run returned
  playPc,      \* the state of the peer connection
  playTold,    \* whether a callback goroutine is told that it failed or closed
  playErr,     \* whether err is set
  handler      \* [Tracks -> ...]: the goroutines of OnTrack

playConnection == <<playPc, playTold>>
playVars == <<player, playResult, playConnection, playErr, handler>>

PlayTypeOK ==
  /\ player \in {"none", "skipped", "request", "answered", "wait", "returned", "done"}
  /\ playResult \in {"none", "nil", "error"}
  /\ playPc \in PcState /\ playTold \in BOOLEAN
  /\ playErr \in BOOLEAN /\ handler \in [Tracks -> {"none", "ready", "read", "done"}]

PlayInit ==
  /\ player = "none" /\ playResult = "none"
  /\ playPc = "none" /\ playTold = FALSE /\ playErr = FALSE
  /\ handler = [m \in Tracks |-> "none"]

PlayHandled == \A m \in Tracks : handler[m] # "none"

PlayTell(state) ==
  /\ playPc' = state
  /\ playTold' = (playTold \/ PlayHandled)

PlayConnected ==
  /\ playPc = "connecting" /\ playPc' = "connected"
  /\ UNCHANGED <<ctx, pubVars, player, playResult, playTold, playErr, handler>>

PlayFailed ==
  /\ playPc \in {"connecting", "connected"} /\ PlayTell("failed")
  /\ UNCHANGED <<ctx, pubVars, player, playResult, playErr, handler>>

(* err, which nobody reads once Run has returned it. *)
PlayErr(value) == playErr' = IF player = "wait" THEN value ELSE playErr

(* The handler of OnConnectionStateChange. *)
PlayCallback ==
  /\ playTold /\ playTold' = FALSE
  /\ PlayErr(TRUE) /\ Cancel("over")
  /\ UNCHANGED <<pubVars, player, playResult, playPc, handler>>

(* The connection, a transceiver, the offer or the request fails. *)
PlayFails ==
  /\ player = "request"
  /\ player' = "returned" /\ playResult' = "error"
  /\ playPc' \in {"none", "new"}
  /\ UNCHANGED <<ctx, pubVars, playTold, playErr, handler>>

PlayAnswered ==
  /\ player = "request"
  /\ player' = "answered" /\ playPc' = "connecting"
  /\ UNCHANGED <<ctx, pubVars, playResult, playTold, playErr, handler>>

PlayRegister ==
  /\ player = "answered" /\ player' = "wait"
  /\ handler' = [m \in Tracks |-> "ready"]
  /\ UNCHANGED <<ctx, pubVars, playResult, playConnection, playErr>>

PlayReturn ==
  /\ player = "wait" /\ Done
  /\ player' = "returned" /\ playResult' = IF playErr THEN "error" ELSE "nil"
  /\ UNCHANGED <<ctx, pubVars, playConnection, playErr, handler>>

(* OnTrack: handleTrack reads packets, which the test counts. *)
TrackBegins(m) ==
  /\ playPc = "connected" /\ m \in media /\ handler[m] = "ready"
  /\ handler' = [handler EXCEPT ![m] = "read"]
  /\ UNCHANGED <<ctx, pubVars, player, playResult, playConnection, playErr>>

(* The result of handleTrack is assigned to err: nil, if ctx is done. *)
TrackEnds(m) ==
  /\ handler[m] = "read" /\ handler' = [handler EXCEPT ![m] = "done"]
  /\ \/ PlayErr(TRUE) /\ Cancel("over")
     \/ Done /\ PlayErr(FALSE) /\ UNCHANGED ctx
  /\ UNCHANGED <<pubVars, player, playResult, playConnection>>

(* The interceptor of the test has counted enough packets. *)
Complete ==
  /\ ~Done /\ \E m \in Tracks : handler[m] = "read"
  /\ Cancel("over")
  /\ UNCHANGED <<pubVars, playVars>>

PlayRun == PlayRegister \/ PlayReturn
Track(m) == TrackBegins(m) \/ TrackEnds(m)

PlayClose ==
  IF playPc \in {"none", "closed"} THEN UNCHANGED playConnection ELSE PlayTell("closed")
=============================================================================
