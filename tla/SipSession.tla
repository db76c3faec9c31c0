----------------------------- MODULE SipSession -----------------------------
(***************************************************************************)
(* A SIPSession of the GB28181 device with its SIPClient (gb28181/sip.go): *)
(* the goroutine that dispatches what the SIP stack receives into a        *)
(* channel of requests and one of responses, the goroutines that turn an   *)
(* error of the stack into a cancel and a cancel into its end, and the     *)
(* calls REGISTER, MESSAGE and BYE.                                        *)
(*                                                                         *)
(* All calls read the one channel of responses, and drop what is not their *)
(* own; all fill in the one RequestBuilder, field by field.                *)
(***************************************************************************)
EXTENDS Naturals, Sequences, FiniteSets

CONSTANTS
  Call,     \* the Call-IDs of the calls of the device
  Method,   \* [Call -> MethodName]: doRegister, Message or Bye
  Dialog,   \* the Call-IDs of the INVITEs of the server
  NoDialog

MethodName == {"REGISTER", "MESSAGE", "BYE"}

ASSUME SipAssumption ==
  /\ Method \in [Call -> MethodName]
  /\ Call \cap Dialog = {} /\ NoDialog \notin Dialog

Id == Call \cup Dialog

VARIABLES
  sipCtx,     \* SIPSession.ctx
  clientCtx,  \* SIPClient.ctx, its child
  stack,      \* the gosip TCP protocol and its connection
  dispatcher, \* the goroutine of SIPSession.Connect
  hand,       \* the message it has taken and not yet put
  incoming,   \* SIPClient.incoming
  requests,   \* SIPSession.requests
  responses,  \* SIPSession.responses
  builder,    \* SIPSession.rb: the fields that tell requests apart
  call,       \* [Call -> CallState]
  callCtx,    \* [Call -> Context]: the context each call is given
  awaits,     \* [Call -> Call]: the Call-ID read from the built request
  reader,     \* the goroutine in Wait or InviteResponse
  readerCtx,  \* its context
  dialog,     \* the Call-ID of the INVITE it deals with
  sent,       \* the requests the server has received
  answered,   \* those of them it has answered
  invite      \* [Dialog -> DialogState]: the server's view of its INVITEs

sipControl == <<sipCtx, clientCtx, stack>>
dispatching == <<dispatcher, hand, incoming>>
channels == <<requests, responses>>
calling == <<builder, call, awaits>>
reading == <<reader, dialog>>
peer == <<sent, answered, invite>>
sipVars == <<sipControl, dispatching, channels, calling, callCtx, reading,
             readerCtx, peer>>

Context == {"live", "done"}
CallState == {"unused", "method", "built", "wait", "ok", "fail"}
DialogState == {"unused", "sent", "accepted", "acked", "ended"}
SipRequest == [method : MethodName, id : Call]
Response == [kind : {"response"}, id : Call]
Request == [kind : {"INVITE", "ACK", "BYE"}, id : Dialog]
Message == Response \cup Request
NoMessage == [kind |-> "none", id |-> NoDialog]

SipTypeOK ==
  /\ sipCtx \in {"nil", "live", "done"} /\ clientCtx \in {"nil", "live", "done"}
  /\ stack \in {"none", "idle", "up", "lost", "done"}
  /\ dispatcher \in {"none", "born", "idle", "hand", "done"}
  /\ IF dispatcher = "hand" THEN hand \in Message ELSE hand = NoMessage
  /\ incoming \in Seq(Message)
  /\ requests \in Seq(Request) /\ responses \in Seq(Response)
  /\ builder \in [method : MethodName \cup {"none"}, id : Call \cup {NoDialog}]
  /\ call \in [Call -> CallState]
  /\ callCtx \in [Call -> Context]
  /\ awaits \in [Call -> Call]
  /\ reader \in {"idle", "INVITE", "ACK", "got", "fail"}
  /\ readerCtx \in Context
  /\ dialog \in Dialog \cup {NoDialog}
  /\ sent \subseteq SipRequest /\ answered \subseteq sent
  /\ invite \in [Dialog -> DialogState]

SipInit ==
  /\ sipCtx = "nil" /\ clientCtx = "nil" /\ stack = "none"
  /\ dispatcher = "none" /\ hand = NoMessage
  /\ incoming = <<>> /\ requests = <<>> /\ responses = <<>>
  /\ builder = [method |-> "none", id |-> NoDialog]
  /\ call = [c \in Call |-> "unused"]
  /\ callCtx = [c \in Call |-> "live"]
  /\ awaits = [c \in Call |-> c]
  /\ reader = "idle" /\ readerCtx = "live" /\ dialog = NoDialog
  /\ sent = {} /\ answered = {}
  /\ invite = [d \in Dialog |-> "unused"]

-----------------------------------------------------------------------------
(* Connect, Close and the SIP stack.                                        *)

\* The stack starts; a connection is dialed by the first message only. An
\* address that cannot be parsed leaves the context alone to Close.
Connect ==
  /\ sipCtx = "nil"
  /\ sipCtx' = "live"
  /\ \/ clientCtx' = "live" /\ stack' = "idle" /\ dispatcher' = "born"
     \/ UNCHANGED <<clientCtx, stack, dispatcher>>
  /\ UNCHANGED <<hand, incoming, channels, calling, callCtx, reading, readerCtx, peer>>

Canceled(c) == IF c = "live" THEN "done" ELSE c

\* sipCtx is canceled, by Close or with the context Connect was given.
CancelSip ==
  /\ sipCtx' = Canceled(sipCtx) /\ clientCtx' = Canceled(clientCtx)
  /\ UNCHANGED stack

\* The connection breaks or the server closes it; a message may be lost.
StackLost ==
  /\ stack = "up"
  /\ stack' = "lost"
  /\ UNCHANGED <<sipCtx, clientCtx, dispatching, channels, calling, callCtx,
                 reading, readerCtx, peer>>

\* The goroutine of SIPClient.Connect turns the error into a cancel. It
\* cancels the client's context: SIPSession.ctx, its parent, stays live.
StackError ==
  /\ stack = "lost" /\ clientCtx = "live"
  /\ clientCtx' = "done"
  /\ UNCHANGED <<sipCtx, stack, dispatching, channels, calling, callCtx,
                 reading, readerCtx, peer>>

\* The other goroutine turns the cancel into the end of the stack.
StackDone ==
  /\ clientCtx = "done" /\ stack # "done"
  /\ stack' = "done"
  /\ UNCHANGED <<sipCtx, clientCtx, dispatching, channels, calling, callCtx,
                 reading, readerCtx, peer>>

-----------------------------------------------------------------------------
(* The dispatcher.                                                          *)

DispatchStart ==
  /\ dispatcher = "born"
  /\ dispatcher' = "idle"
  /\ UNCHANGED <<sipControl, hand, incoming, channels, calling, callCtx,
                 reading, readerCtx, peer>>

DispatchTake ==
  /\ dispatcher = "idle" /\ incoming # <<>>
  /\ dispatcher' = "hand" /\ hand' = Head(incoming) /\ incoming' = Tail(incoming)
  /\ UNCHANGED <<sipControl, channels, calling, callCtx, reading, readerCtx, peer>>

\* Mutant: a response is not passed on while the device reads requests.
DispatchPutUnread ==
  /\ dispatcher = "hand"
  /\ IF hand \in Response /\ reader = "idle"
     THEN responses' = Append(responses, hand) /\ UNCHANGED requests
     ELSE requests' = Append(requests, hand) /\ UNCHANGED responses
  /\ dispatcher' = "idle" /\ hand' = NoMessage
  /\ UNCHANGED <<sipControl, incoming, calling, callCtx, reading, readerCtx, peer>>

DispatchPut ==
  /\ dispatcher = "hand"
  /\ IF hand \in Response
     THEN responses' = Append(responses, hand) /\ UNCHANGED requests
     ELSE requests' = Append(requests, hand) /\ UNCHANGED responses
  /\ dispatcher' = "idle" /\ hand' = NoMessage
  /\ UNCHANGED <<sipControl, incoming, calling, callCtx, reading, readerCtx, peer>>

DispatchStop ==
  /\ dispatcher \in {"idle", "hand"} /\ sipCtx = "done"
  /\ dispatcher' = "done" /\ hand' = NoMessage
  /\ UNCHANGED <<sipControl, incoming, channels, calling, callCtx, reading,
                 readerCtx, peer>>

Dispatch == DispatchStart \/ DispatchTake \/ DispatchPut \/ DispatchStop

-----------------------------------------------------------------------------
(* The calls: build the request in v.rb, send it, wait for the response.    *)

SetMethod(c) ==
  /\ call[c] = "unused" /\ callCtx[c] = "live" /\ stack # "none"
  /\ call' = [call EXCEPT ![c] = "method"]
  /\ builder' = [builder EXCEPT !.method = Method[c]]
  /\ UNCHANGED <<sipControl, dispatching, channels, callCtx, awaits, reading,
                 readerCtx, peer>>

\* if ctx.Err() != nil { return }
RefuseCall(c) ==
  /\ call[c] = "unused" /\ callCtx[c] = "done"
  /\ call' = [call EXCEPT ![c] = "fail"]
  /\ UNCHANGED <<sipControl, dispatching, channels, builder, callCtx, awaits,
                 reading, readerCtx, peer>>

\* Mutant: the Call-ID of the first call is used again.
SetCallIDOnce(c) ==
  /\ call[c] = "method"
  /\ call' = [call EXCEPT ![c] = "built"]
  /\ builder' = IF builder.id = NoDialog THEN [builder EXCEPT !.id = c] ELSE builder
  /\ UNCHANGED <<sipControl, dispatching, channels, callCtx, awaits, reading,
                 readerCtx, peer>>

SetCallID(c) ==
  /\ call[c] = "method"
  /\ call' = [call EXCEPT ![c] = "built"]
  /\ builder' = [builder EXCEPT !.id = c]
  /\ UNCHANGED <<sipControl, dispatching, channels, callCtx, awaits, reading,
                 readerCtx, peer>>

\* A message is written to the connection, which the first one opens; one
\* written to a connection that is lost goes nowhere.
Sendable == clientCtx = "live" /\ stack \in {"idle", "up", "lost"}
Reached == stack \in {"idle", "up"}
SendOpens == stack' = IF stack = "idle" THEN "up" ELSE stack

\* Build and Send. The caller waits for the Call-ID of the built request.
SendCall(c) ==
  /\ call[c] = "built" /\ Sendable
  /\ SendOpens
  /\ call' = [call EXCEPT ![c] = "wait"]
  /\ awaits' = [awaits EXCEPT ![c] = builder.id]
  /\ sent' = IF Reached THEN sent \cup {builder} ELSE sent
  /\ UNCHANGED <<sipCtx, clientCtx, dispatching, channels, builder, callCtx,
                 reading, readerCtx, answered, invite>>

SendCallFails(c) ==
  /\ call[c] = "built"
  /\ call' = [call EXCEPT ![c] = "fail"]
  /\ UNCHANGED <<sipControl, dispatching, channels, builder, callCtx, awaits,
                 reading, readerCtx, peer>>

\* case msg := <-v.responses: a response with another Call-ID is dropped.
TakeResponse(c) ==
  /\ call[c] = "wait" /\ responses # <<>>
  /\ responses' = Tail(responses)
  /\ call' = IF Head(responses).id = awaits[c] THEN [call EXCEPT ![c] = "ok"] ELSE call
  /\ UNCHANGED <<sipControl, dispatching, requests, builder, callCtx, awaits,
                 reading, readerCtx, peer>>

\* Mutant: nothing releases the caller but a response.
CallNotCanceled(c) == c \notin Call /\ UNCHANGED sipVars

\* case <-ctx.Done(), case <-v.ctx.Done()
CallCanceled(c) ==
  /\ call[c] = "wait" /\ (callCtx[c] = "done" \/ sipCtx = "done")
  /\ call' = [call EXCEPT ![c] = "fail"]
  /\ UNCHANGED <<sipControl, dispatching, channels, builder, callCtx, awaits,
                 reading, readerCtx, peer>>

CallStep(c) ==
  \/ SetCallID(c) \/ SendCall(c) \/ SendCallFails(c)
  \/ TakeResponse(c) \/ CallCanceled(c)

-----------------------------------------------------------------------------
(* The requests of the server: Wait for an INVITE, Trying, InviteResponse.  *)

WaitInvite ==
  /\ reader = "idle"
  /\ reader' = IF readerCtx = "live" THEN "INVITE" ELSE "fail"
  /\ UNCHANGED <<sipControl, dispatching, channels, calling, callCtx, dialog,
                 readerCtx, peer>>

\* A request that is not an INVITE is dropped.
TakeInvite ==
  /\ reader = "INVITE" /\ requests # <<>>
  /\ requests' = Tail(requests)
  /\ IF Head(requests).kind = "INVITE"
     THEN reader' = "got" /\ dialog' = Head(requests).id
     ELSE UNCHANGED reading
  /\ UNCHANGED <<sipControl, dispatching, responses, calling, callCtx, readerCtx, peer>>

\* Trying (100): nothing waits for it.
Trying ==
  /\ reader = "got" /\ dialog # NoDialog
  /\ \/ readerCtx = "live" /\ Sendable /\ SendOpens /\ UNCHANGED reader
     \/ reader' = "fail" /\ UNCHANGED stack
  /\ UNCHANGED <<sipCtx, clientCtx, dispatching, channels, calling, callCtx,
                 dialog, readerCtx, peer>>

\* 200 OK to the INVITE, then wait for its ACK.
InviteResponse ==
  /\ reader = "got" /\ dialog # NoDialog
  /\ \/ /\ readerCtx = "live" /\ Sendable /\ SendOpens
        /\ reader' = "ACK"
        /\ invite' = IF Reached THEN [invite EXCEPT ![dialog] = "accepted"] ELSE invite
     \/ reader' = "fail" /\ UNCHANGED <<stack, invite>>
  /\ UNCHANGED <<sipCtx, clientCtx, dispatching, channels, calling, callCtx,
                 dialog, readerCtx, sent, answered>>

\* Any other request is an error, an ACK of another dialog is dropped.
TakeAck ==
  /\ reader = "ACK" /\ requests # <<>>
  /\ requests' = Tail(requests)
  /\ reader' = IF Head(requests).kind # "ACK" THEN "fail"
               ELSE IF Head(requests).id = dialog THEN "got" ELSE "ACK"
  /\ UNCHANGED <<sipControl, dispatching, responses, calling, callCtx, dialog,
                 readerCtx, peer>>

ReaderCanceled ==
  /\ reader \in {"INVITE", "ACK"} /\ (readerCtx = "done" \/ sipCtx = "done")
  /\ reader' = "fail"
  /\ UNCHANGED <<sipControl, dispatching, channels, calling, callCtx, dialog,
                 readerCtx, peer>>

-----------------------------------------------------------------------------
(* The GB server.                                                           *)

\* It answers each request it has received once.
ServerAnswer(r) ==
  /\ stack = "up" /\ r \in sent \ answered
  /\ answered' = answered \cup {r}
  /\ incoming' = Append(incoming, [kind |-> "response", id |-> r.id])
  /\ UNCHANGED <<sipControl, dispatcher, hand, channels, calling, callCtx,
                 reading, readerCtx, sent, invite>>

\* It may invite a device it has registered, and again.
ServerInvite(d) ==
  /\ stack = "up" /\ invite[d] = "unused"
  /\ \E r \in answered : r.method = "REGISTER"
  /\ invite' = [invite EXCEPT ![d] = "sent"]
  /\ incoming' = Append(incoming, [kind |-> "INVITE", id |-> d])
  /\ UNCHANGED <<sipControl, dispatcher, hand, channels, calling, callCtx,
                 reading, readerCtx, sent, answered>>

ServerAck(d) ==
  /\ stack = "up" /\ invite[d] = "accepted"
  /\ invite' = [invite EXCEPT ![d] = "acked"]
  /\ incoming' = Append(incoming, [kind |-> "ACK", id |-> d])
  /\ UNCHANGED <<sipControl, dispatcher, hand, channels, calling, callCtx,
                 reading, readerCtx, sent, answered>>

ServerBye(d) ==
  /\ stack = "up" /\ invite[d] \in {"sent", "accepted", "acked"}
  /\ invite' = [invite EXCEPT ![d] = "ended"]
  /\ incoming' = Append(incoming, [kind |-> "BYE", id |-> d])
  /\ UNCHANGED <<sipControl, dispatcher, hand, channels, calling, callCtx,
                 reading, readerCtx, sent, answered>>

Server ==
  \/ \E r \in sent : ServerAnswer(r)
  \/ \E d \in Dialog : ServerInvite(d) \/ ServerAck(d) \/ ServerBye(d)
=============================================================================
