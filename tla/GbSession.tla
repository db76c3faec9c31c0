------------------------------ MODULE GbSession ------------------------------
(***************************************************************************)
(* A GB28181 device (GBSession in gb28181/ingester.go and Run in           *)
(* gb28181.go) on its SipSession: main connects, registers, waits to be    *)
(* invited and sends media, while a heartbeat goroutine sends a MESSAGE    *)
(* every second until its context is done.                                 *)
(*                                                                         *)
(* Run never leaves the server; the tests of gb_test.go also call Bye or   *)
(* UnRegister, from the callback of the media or of the heartbeat.         *)
(***************************************************************************)
EXTENDS SipSession

CONSTANTS
  register, bye,  \* the calls of main
  Beats,          \* how many MESSAGEs the heartbeat sends (bounds the model)
  LeaveBy         \* who calls Bye: "nobody" (Run), "media" or "heartbeat"

Beat == 1 .. Beats

ASSUME GbAssumption ==
  /\ Beats \in Nat
  /\ Call = {register, bye} \cup Beat
  /\ register # bye /\ register \notin Beat /\ bye \notin Beat
  /\ Method[register] = "REGISTER" /\ Method[bye] \in {"BYE", "REGISTER"}
  /\ \A b \in Beat : Method[b] = "MESSAGE"
  /\ LeaveBy \in {"nobody", "media", "heartbeat"}

VARIABLES
  ctx,        \* the context of Run
  hbCtx,      \* GBSession.heartbeatCtx, its child
  main,       \* the goroutine of Run
  heartbeat,  \* the goroutine Invite starts
  beat,       \* the number of its last MESSAGE
  timer       \* progress of the 5 s timer of SIPClient.Close

device == <<ctx, hbCtx, main, heartbeat, beat, timer>>
gbVars == <<sipVars, device>>

MainPhase == {"connect", "register", "invite", "trying", "sleep", "ack", "media",
              "close", "stack", "dispatcher", "heartbeat", "closed", "panic"}

GbTypeOK ==
  /\ SipTypeOK
  /\ ctx \in Context /\ hbCtx \in {"nil"} \cup Context
  /\ main \in MainPhase
  /\ heartbeat \in {"none", "born", "beat", "callback", "sleep", "done"}
  /\ beat \in 0 .. Beats
  /\ timer \in {"off", "on", "fired"}

GbInit ==
  /\ SipInit
  /\ ctx = "live" /\ hbCtx = "nil" /\ main = "connect" /\ heartbeat = "none"
  /\ beat = 0 /\ timer = "off"

Returned(c) == call[c] \in {"ok", "fail"}

-----------------------------------------------------------------------------
(* Contexts: that of a heartbeat's call is hbCtx, the others are children   *)
(* of ctx with a timeout.                                                   *)

DoneFor(C) == callCtx' = [c \in Call |-> IF c \in C THEN "done" ELSE callCtx[c]]

Interrupt ==
  /\ ctx = "live" /\ main # "panic"
  /\ ctx' = "done" /\ hbCtx' = Canceled(hbCtx)
  /\ CancelSip /\ DoneFor(Call) /\ readerCtx' = "done"
  /\ UNCHANGED <<dispatching, channels, calling, reading, peer, main, heartbeat,
                 beat, timer>>

\* regTimeout of Register, Bye and UnRegister.
CallTimeout(c) ==
  /\ c \in {register, bye} /\ call[c] \notin {"unused", "ok", "fail"}
  /\ callCtx[c] = "live"
  /\ DoneFor({c})
  /\ UNCHANGED <<sipControl, dispatching, channels, calling, reading, readerCtx,
                 peer, device>>

\* inviteTimeout of Invite.
InviteTimeout ==
  /\ main \in {"invite", "trying", "sleep", "ack"} /\ readerCtx = "live"
  /\ readerCtx' = "done"
  /\ UNCHANGED <<sipControl, dispatching, channels, calling, callCtx, reading,
                 peer, device>>

-----------------------------------------------------------------------------
(* Main.                                                                    *)

MainGoes(phase) == main' = phase /\ UNCHANGED <<ctx, hbCtx, heartbeat, beat, timer>>

MainConnect ==
  /\ main = "connect"
  /\ \/ ctx = "live" /\ Connect /\ MainGoes(IF stack' = "idle" THEN "register" ELSE "close")
     \/ ctx = "done" /\ MainGoes("close") /\ UNCHANGED sipVars

MainRegister ==
  /\ main = "register"
  /\ \/ SetMethod(register) /\ UNCHANGED device
     \/ RefuseCall(register) /\ UNCHANGED device
     \/ /\ Returned(register)
        /\ MainGoes(IF call[register] = "ok" /\ ctx = "live" THEN "invite" ELSE "close")
        /\ UNCHANGED sipVars

\* ctx is done before the loop of Invite: the heartbeat starts all the same.
MainInviteSkipped ==
  /\ main = "invite" /\ reader = "idle" /\ ctx = "done"
  /\ heartbeat' = "born" /\ hbCtx' = "done"
  /\ main' = "close"
  /\ UNCHANGED <<ctx, beat, timer, sipVars>>

MainWaitInvite ==
  /\ main = "invite"
  /\ \/ WaitInvite /\ UNCHANGED device
     \/ reader = "got" /\ MainGoes("trying") /\ UNCHANGED sipVars
     \/ reader = "fail" /\ MainGoes("close") /\ UNCHANGED sipVars

MainTrying ==
  /\ main = "trying" /\ Trying
  /\ MainGoes(IF reader' = "got" THEN "sleep" ELSE "close")

MainInviteResponse ==
  /\ main = "sleep" /\ InviteResponse
  /\ MainGoes(IF reader' = "ACK" THEN "ack" ELSE "close")

\* Mutant: the heartbeat starts beside the wait for the ACK.
MainInvitedEarly ==
  /\ main \in {"sleep", "ack"} /\ reader = "ACK"
  /\ heartbeat' = "born" /\ hbCtx' = ctx
  /\ main' = "media"
  /\ UNCHANGED <<ctx, beat, timer, sipVars>>

\* The invite is acknowledged: the heartbeat goroutine starts, in any case,
\* and the media is sent unless ctx is done. An offer without a legal ssrc
\* or port is an error; one that names neither ends the process.
MainInvited ==
  /\ main = "ack" /\ reader = "got"
  /\ \/ /\ heartbeat' = "born" /\ hbCtx' = ctx
        /\ main' = IF ctx = "live" THEN "media" ELSE "close"
     \/ main' \in {"close", "panic"} /\ UNCHANGED <<heartbeat, hbCtx>>
  /\ UNCHANGED <<ctx, beat, timer, sipVars>>

MainNotInvited ==
  /\ main = "ack" /\ reader = "fail"
  /\ MainGoes("close") /\ UNCHANGED sipVars

\* The callback of the media leaves the server.
MainBye ==
  /\ LeaveBy = "media"
  /\ SetMethod(bye) \/ RefuseCall(bye)
  /\ UNCHANGED device

\* Ingest ends: at the end of a file, by an error, or when ctx is done; not
\* in its callback.
MainMediaEnds ==
  /\ LeaveBy = "media" => call[bye] = "unused" \/ Returned(bye)
  /\ MainGoes("close") /\ UNCHANGED sipVars

\* While Ingest runs.
MainMedia == main = "media" /\ (MainBye \/ MainMediaEnds)

\* Mutant: Close forgets the heartbeat.
MainCloseSipOnly ==
  /\ main = "close"
  /\ CancelSip
  /\ main' = "stack" /\ timer' = "on"
  /\ UNCHANGED <<ctx, hbCtx, heartbeat, beat, callCtx, dispatching, channels, calling,
                 reading, readerCtx, peer>>

\* GBSession.Close cancels the heartbeat, then SIPSession.Close its own and
\* the client's context.
MainClose ==
  /\ main = "close"
  /\ hbCtx' = Canceled(hbCtx) /\ DoneFor(IF hbCtx = "nil" THEN {} ELSE Beat)
  /\ CancelSip
  /\ main' = "stack" /\ timer' = "on"
  /\ UNCHANGED <<ctx, heartbeat, beat, dispatching, channels, calling, reading,
                 readerCtx, peer>>

CleanupTimeout ==
  /\ timer = "on"
  /\ timer' = "fired"
  /\ UNCHANGED <<sipVars, ctx, hbCtx, main, heartbeat, beat>>

\* SIPClient.Close waits for the stack, not longer than its timer.
MainStackDone ==
  /\ main = "stack" /\ (stack \in {"none", "done"} \/ timer = "fired")
  /\ MainGoes("dispatcher") /\ UNCHANGED sipVars

\* SIPSession.wg and GBSession.wg count a goroutine once it has run.
MainDispatcherDone ==
  /\ main = "dispatcher" /\ dispatcher \notin {"idle", "hand"}
  /\ MainGoes("heartbeat") /\ UNCHANGED sipVars

MainClosed ==
  /\ main = "heartbeat" /\ heartbeat \in {"none", "born", "done"}
  /\ MainGoes("closed") /\ UNCHANGED sipVars

Main ==
  \/ MainConnect \/ MainRegister \/ MainInviteSkipped \/ MainWaitInvite \/ MainTrying
  \/ MainInviteResponse \/ MainInvited \/ MainNotInvited \/ MainMedia
  \/ MainClose \/ MainStackDone \/ MainDispatcherDone \/ MainClosed

-----------------------------------------------------------------------------
(* The heartbeat: its calls are numbered.                                   *)

HeartbeatGoes(phase) ==
  /\ heartbeat' = phase
  /\ UNCHANGED <<sipVars, ctx, hbCtx, main, beat, timer>>

\* for ctx.Err() == nil, at the start and after each sleep.
HeartbeatTurn ==
  /\ heartbeat \in {"born", "sleep"} /\ hbCtx = "live" /\ beat < Beats
  /\ heartbeat' = "beat" /\ beat' = beat + 1
  /\ UNCHANGED <<sipVars, ctx, hbCtx, main, timer>>

HeartbeatCall ==
  /\ heartbeat = "beat"
  /\ SetMethod(beat) \/ RefuseCall(beat)
  /\ UNCHANGED device

CancelHeartbeat == hbCtx' = "done" /\ DoneFor(Beat)

\* A MESSAGE that failed ends the goroutine and cancels heartbeatCtx.
HeartbeatFails ==
  /\ \/ heartbeat = "beat" /\ call[beat] = "fail"
     \/ heartbeat = "callback" /\ call[bye] = "fail"
  /\ heartbeat' = "done" /\ CancelHeartbeat
  /\ UNCHANGED <<sipControl, dispatching, channels, calling, reading, readerCtx, peer,
                 ctx, main, beat, timer>>

HeartbeatAnswered ==
  /\ heartbeat = "beat" /\ call[beat] = "ok"
  /\ HeartbeatGoes(IF LeaveBy = "heartbeat" THEN "callback" ELSE "sleep")

\* The callback of the heartbeat leaves the server, once.
HeartbeatBye ==
  /\ heartbeat = "callback"
  /\ \/ (SetMethod(bye) \/ RefuseCall(bye)) /\ UNCHANGED device
     \/ call[bye] \in {"unused", "ok"} /\ HeartbeatGoes("sleep")

HeartbeatStops ==
  /\ heartbeat \in {"born", "sleep"} /\ hbCtx = "done"
  /\ HeartbeatGoes("done")

Heartbeat ==
  \/ HeartbeatTurn \/ HeartbeatCall \/ HeartbeatFails \/ HeartbeatAnswered
  \/ HeartbeatBye \/ HeartbeatStops

-----------------------------------------------------------------------------

\* What goes on beside main and the heartbeat, as long as the process does.
Beside == main # "panic" /\ UNCHANGED device

Session ==
  /\ \/ StackLost \/ StackError \/ StackDone \/ Dispatch \/ Server
     \/ TakeInvite \/ TakeAck \/ ReaderCanceled
     \/ \E c \in Call : CallStep(c)
  /\ Beside

GbNext ==
  \/ Interrupt \/ InviteTimeout \/ CleanupTimeout
  \/ \E c \in Call : CallTimeout(c)
  \/ Main \/ Heartbeat \/ Session

GbSpec == GbInit /\ [][GbNext]_gbVars

\* Goroutines run and timers fire. Nothing is assumed of the server.
GbFairness ==
  /\ WF_gbVars(Main /\ main # "media") /\ WF_gbVars(Heartbeat)
  /\ WF_gbVars(main = "media" /\ MainMediaEnds /\ ctx = "done")
  /\ WF_gbVars(CleanupTimeout) /\ WF_gbVars(InviteTimeout)
  /\ WF_gbVars(StackError /\ Beside) /\ WF_gbVars(StackDone /\ Beside)
  /\ WF_gbVars(DispatchStart /\ Beside)
  /\ WF_gbVars(DispatchStop /\ Beside)
  /\ WF_gbVars((TakeInvite \/ TakeAck \/ ReaderCanceled) /\ Beside)
  /\ \A c \in Call : WF_gbVars(CallTimeout(c)) /\ WF_gbVars(CallStep(c) /\ Beside)

GbFairSpec == GbSpec /\ GbFairness

-----------------------------------------------------------------------------
(* Properties.                                                              *)

\* What is sent is what its caller asked for, and every caller waits for the
\* answer to its own request (one call is in
\* progress at a time, so that the calls can share v.rb and v.responses).
RequestIsOwn ==
  /\ \A r \in sent : r.method = Method[r.id]
  /\ \A c \in Call : call[c] \in {"wait", "ok"} => awaits[c] = c

Underway(c) ==
  LET m == [kind |-> "response", id |-> c]
      In(s) == \E i \in DOMAIN s : s[i] = m
  IN  In(incoming) \/ hand = m \/ In(responses)

\* The response to a call in progress is on its way to it while the session
\* lives: no other goroutine has taken it from v.responses and dropped it.
AnswerNotLost ==
  \A c \in Call : call[c] = "wait" /\ dispatcher # "done" /\
    (\E r \in answered : r.id = c) => Underway(c)

\* Media is sent by a device that is registered and whose answer to the very
\* INVITE it took was acknowledged.
MediaIsInvited ==
  main = "media" => call[register] = "ok" /\ invite[dialog] \in {"acked", "ended"}

\* After Close has returned the device calls nobody: a heartbeat goroutine
\* that had not run before (v.wg.Add is its first statement) finds its
\* context done.
QuietAfterClose == [][main = "closed" => UNCHANGED <<call, sent>>]_gbVars

\* Interrupting the run ends it wherever it is (a panic of Invite before that
\* ends it, too), and Close returns, whoever waits for what and whether or not
\* the stack ends.
InterruptEnds ==
  /\ ctx = "done" ~> main \in {"closed", "panic"}
  /\ main = "close" ~> main = "closed"

=============================================================================
