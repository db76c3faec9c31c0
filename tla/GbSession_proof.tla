--------------------------- MODULE GbSession_proof ---------------------------
(***************************************************************************)
(* Proofs about GbSession and the SipSession it runs on, for any number of *)
(* heartbeats and INVITEs, as long as Bye is called by nobody or by the    *)
(* heartbeat itself. They rest on the fact that the goroutines never are   *)
(* in a call at the same time; MCGbSessionBye shows what happens when they *)
(* are.                                                                    *)
(***************************************************************************)
EXTENDS GbSession, SequenceTheorems, TLAPS

-----------------------------------------------------------------------------
(* The queues.                                                              *)

\* m is in the queue s.
In(s, m) == \E i \in DOMAIN s : s[i] = m

\* A queue holds what is put into it, and what it held.
LEMMA InAppend ==
  ASSUME NEW S, NEW s \in Seq(S), NEW e \in S, NEW m
  PROVE  /\ Append(s, e) \in Seq(S)
         /\ In(Append(s, e), m) <=> In(s, m) \/ m = e
<1>1. /\ Append(s, e) \in Seq(S) /\ Len(s) \in Nat
      /\ DOMAIN Append(s, e) = 1 .. Len(s) + 1 /\ DOMAIN s = 1 .. Len(s)
      /\ Append(s, e)[Len(s) + 1] = e
      /\ \A i \in 1 .. Len(s) : Append(s, e)[i] = s[i]
  OBVIOUS
<1>2. \A i \in 1 .. Len(s) + 1 : i \in 1 .. Len(s) \/ i = Len(s) + 1
  BY <1>1
<1>3. \A i \in 1 .. Len(s) : i \in 1 .. Len(s) + 1
  BY <1>1
<1>4. Len(s) + 1 \in 1 .. Len(s) + 1
  BY <1>1
<1> QED BY <1>1, <1>2, <1>3, <1>4 DEF In

\* Taking the head of a queue leaves the others, and nothing new.
LEMMA InTail ==
  ASSUME NEW S, NEW s \in Seq(S), s # <<>>, NEW m
  PROVE  /\ Head(s) \in S /\ Tail(s) \in Seq(S) /\ In(s, Head(s))
         /\ In(s, m) <=> m = Head(s) \/ In(Tail(s), m)
<1>1. /\ Len(s) \in Nat /\ Len(s) > 0 /\ DOMAIN s = 1 .. Len(s)
      /\ Head(s) = s[1] /\ Head(s) \in S /\ Tail(s) \in Seq(S)
      /\ Len(Tail(s)) = Len(s) - 1 /\ DOMAIN Tail(s) = 1 .. Len(s) - 1
      /\ \A i \in 1 .. Len(s) - 1 : Tail(s)[i] = s[i + 1]
  OBVIOUS
<1>2. 1 \in 1 .. Len(s) /\ \A i \in 1 .. Len(s) - 1 : i + 1 \in 1 .. Len(s)
  BY <1>1
<1>3. \A i \in 1 .. Len(s) : i = 1 \/ (i - 1 \in 1 .. Len(s) - 1 /\ (i - 1) + 1 = i)
  BY <1>1
<1>4. ASSUME In(s, m) PROVE m = Head(s) \/ In(Tail(s), m)
  <2>1. PICK i \in 1 .. Len(s) : s[i] = m
    BY <1>4, <1>1 DEF In
  <2>2. CASE i = 1
    BY <2>1, <2>2, <1>1
  <2>3. CASE i - 1 \in 1 .. Len(s) - 1 /\ (i - 1) + 1 = i
    <3>1. Tail(s)[i - 1] = m
      BY <2>1, <2>3, <1>1
    <3> QED BY <3>1, <2>3, <1>1 DEF In
  <2> QED BY <1>3, <2>2, <2>3
<1>5. In(Tail(s), m) => In(s, m)
  BY <1>1, <1>2 DEF In
<1>6. In(s, Head(s))
  BY <1>1, <1>2 DEF In
<1> QED BY <1>1, <1>4, <1>5, <1>6

-----------------------------------------------------------------------------
(* Types.                                                                   *)

\* The builder, with all its fields set or not.
Builder == [method : MethodName \cup {"none"}, id : Call \cup {NoDialog}]

\* What the builder holds after one of its fields is set.
LEMMA BuilderFields ==
  ASSUME NEW b \in Builder, NEW m \in MethodName, NEW c \in Call, NEW e
  PROVE  /\ e = [b EXCEPT !.method = m] => /\ e \in Builder
                                            /\ e.method = m /\ e.id = b.id
         /\ e = [b EXCEPT !.id = c] => /\ e \in Builder
                                       /\ e.id = c /\ e.method = b.method
<1>1. b = [method |-> b.method, id |-> b.id]
      /\ b.method \in MethodName \cup {"none"} /\ b.id \in Call \cup {NoDialog}
  BY DEF Builder
<1>2. [b EXCEPT !.method = m] = [method |-> m, id |-> b.id]
  BY <1>1
<1>3. [b EXCEPT !.id = c] = [method |-> b.method, id |-> c]
  BY <1>1
<1>4. [method |-> m, id |-> b.id] \in Builder /\ [method |-> b.method, id |-> c] \in Builder
  BY <1>1 DEF Builder
<1> QED BY <1>1, <1>2, <1>3, <1>4

\* The messages of the server, told apart by their kinds.
LEMMA Messages ==
  /\ \A r \in SipRequest : [kind |-> "response", id |-> r.id] \in Message
  /\ \A d \in Dialog, k \in {"INVITE", "ACK", "BYE"} : [kind |-> k, id |-> d] \in Message
  /\ \A m \in Message : m.kind \in {"response", "INVITE", "ACK", "BYE"}
  /\ \A m \in Message : m \in Response <=> m.kind = "response"
  /\ \A m \in Message : m \notin Response => m \in Request
  /\ \A m \in Request : m.id \in Dialog /\ m.kind \in {"INVITE", "ACK", "BYE"}
  /\ NoMessage \notin Message
BY DEF SipRequest, Message, Response, Request, NoMessage

\* A dispatcher runs once the session is connected, a heartbeat counts its
\* calls from one.
Types ==
  /\ GbTypeOK
  /\ sipCtx = "nil" => dispatcher = "none"
  /\ heartbeat = "beat" => beat \in Beat
  /\ \A c \in Call : call[c] \in {"method", "built"} => builder.method \in MethodName
  /\ \A c \in Call : call[c] = "built" => builder.id \in Call

\* The initial state is of the types.
LEMMA InitTypes == GbInit => Types
BY GbAssumption, SipAssumption DEF GbInit, SipInit, Types, GbTypeOK, SipTypeOK, Context, CallState,
   DialogState, MainPhase

\* Every step keeps them.
LEMMA StepTypes == Types /\ [GbNext]_gbVars => Types'
<1> SUFFICES ASSUME Types, [GbNext]_gbVars PROVE Types'
  OBVIOUS
<1> USE DEF Types, GbTypeOK, SipTypeOK, sipVars, sipControl, dispatching, channels, calling, reading, peer, device
<1>1. CASE Interrupt
  BY <1>1 DEF Interrupt, CancelSip, Canceled, DoneFor, Context, CallState
<1>2. CASE InviteTimeout
  BY <1>2 DEF InviteTimeout, Context
<1>3. CASE CleanupTimeout
  BY <1>3 DEF CleanupTimeout
<1>4. ASSUME NEW c \in Call, CallTimeout(c) PROVE Types'
  BY <1>4 DEF CallTimeout, DoneFor, Context
<1>5. CASE UNCHANGED gbVars
  BY <1>5 DEF gbVars
<1>set. ASSUME NEW c \in Call, SetMethod(c), UNCHANGED device PROVE Types'
  <2>m. Method[c] \in MethodName /\ builder \in Builder
    BY SipAssumption DEF Builder
  <2>b. builder' = [builder EXCEPT !.method = Method[c]]
    BY <1>set DEF SetMethod
  <2>1. builder' \in Builder /\ builder'.method = Method[c] /\ builder'.id = builder.id
    BY <2>m, <2>b, BuilderFields
  <2>2. call' \in [Call -> CallState]
    BY <1>set DEF SetMethod, CallState
  <2>3. \A x \in Call : call'[x] = "built" => call[x] = "built"
    BY <1>set DEF SetMethod
  <2>4. /\ \A x \in Call : call'[x] \in {"method", "built"} => builder'.method \in MethodName
        /\ \A x \in Call : call'[x] = "built" => builder'.id \in Call
    BY <2>m, <2>1, <2>3
  <2> QED BY <1>set, <2>1, <2>2, <2>4 DEF SetMethod, Builder
<1>ref. ASSUME NEW c \in Call, RefuseCall(c), UNCHANGED device PROVE Types'
  <2>2. call' \in [Call -> CallState]
    BY <1>ref DEF RefuseCall, CallState
  <2> QED BY <1>ref, <2>2 DEF RefuseCall
<1>s. ASSUME UNCHANGED device, Session PROVE Types'
  <2>1. CASE StackLost
    BY <1>s, <2>1 DEF StackLost
  <2>2. CASE StackError \/ StackDone
    BY <1>s, <2>2 DEF StackError, StackDone
  <2>3. CASE DispatchStart \/ DispatchStop
    BY <1>s, <2>3 DEF DispatchStart, DispatchStop
  <2>4. CASE DispatchTake
    <3>1. Head(incoming) \in Message /\ Tail(incoming) \in Seq(Message)
      BY <2>4, InTail DEF DispatchTake
    <3> QED BY <1>s, <2>4, <3>1 DEF DispatchTake
  <2>5. CASE DispatchPut
    <3>1. hand \in Message
      BY <2>5 DEF DispatchPut
    <3>2. CASE hand \in Response
      <4>1. Append(responses, hand) \in Seq(Response)
        BY <3>2
      <4>2. responses' \in Seq(Response) /\ requests' \in Seq(Request)
        BY <2>5, <3>2, <4>1 DEF DispatchPut
      <4> QED BY <1>s, <2>5, <4>2 DEF DispatchPut
    <3>3. CASE hand \notin Response
      <4>0. hand \in Request
        BY <3>1, <3>3 DEF Message
      <4>1. Append(requests, hand) \in Seq(Request)
        BY <4>0
      <4>2. responses' \in Seq(Response) /\ requests' \in Seq(Request)
        BY <2>5, <3>3, <4>1 DEF DispatchPut
      <4> QED BY <1>s, <2>5, <4>2 DEF DispatchPut
    <3> QED BY <3>2, <3>3
  <2>6. ASSUME NEW r \in sent, ServerAnswer(r) PROVE Types'
    <3>1. incoming' \in Seq(Message) /\ answered' \subseteq sent
      BY <2>6, InAppend, Messages DEF ServerAnswer
    <3> QED BY <1>s, <2>6, <3>1 DEF ServerAnswer
  <2>7. ASSUME NEW d \in Dialog, ServerInvite(d) \/ ServerAck(d) \/ ServerBye(d) PROVE Types'
    <3>0. PICK m \in Message : incoming' = Append(incoming, m)
      BY <2>7, Messages DEF ServerInvite, ServerAck, ServerBye
    <3>1. incoming' \in Seq(Message)
      BY <3>0
    <3>2. invite' \in [Dialog -> DialogState]
      BY <2>7 DEF ServerInvite, ServerAck, ServerBye, DialogState
    <3> QED BY <1>s, <2>7, <3>1, <3>2 DEF ServerInvite, ServerAck, ServerBye
  <2>8. CASE TakeInvite
    <3>1. Head(requests) \in Request /\ Tail(requests) \in Seq(Request)
      BY <2>8, InTail DEF TakeInvite
    <3>2. Head(requests).id \in Dialog
      BY <3>1, Messages
    <3> QED BY <1>s, <2>8, <3>1, <3>2 DEF TakeInvite
  <2>9. CASE TakeAck
    <3>1. Head(requests) \in Request /\ Tail(requests) \in Seq(Request)
      BY <2>9, InTail DEF TakeAck
    <3> QED BY <1>s, <2>9, <3>1 DEF TakeAck
  <2>10. CASE ReaderCanceled
    BY <1>s, <2>10 DEF ReaderCanceled
  <2>11. ASSUME NEW c \in Call, SetCallID(c) PROVE Types'
    <3>1. builder' = [builder EXCEPT !.id = c]
      BY <2>11 DEF SetCallID
    <3>2. builder' \in Builder
      BY <3>1, BuilderFields, SipAssumption DEF Builder
    <3>3. call' \in [Call -> CallState]
      BY <2>11 DEF SetCallID, CallState
    <3> QED BY <1>s, <2>11, <3>2, <3>3 DEF SetCallID, Builder
  <2>12. ASSUME NEW c \in Call, SendCall(c) PROVE Types'
    <3>0. builder.method \in MethodName /\ builder.id \in Call
      BY <2>12 DEF SendCall
    <3>1. builder \in SipRequest /\ builder.id \in Call
      BY <3>0 DEF SipRequest
    <3>2. call' \in [Call -> CallState] /\ awaits' \in [Call -> Call]
      BY <2>12, <3>1 DEF SendCall, CallState
    <3>3. sent' \subseteq SipRequest /\ answered \subseteq sent'
      BY <2>12, <3>1 DEF SendCall
    <3> QED BY <1>s, <2>12, <3>2, <3>3 DEF SendCall, SendOpens
  <2>13. ASSUME NEW c \in Call, SendCallFails(c) \/ CallCanceled(c) PROVE Types'
    <3>1. call' \in [Call -> CallState]
      BY <2>13 DEF SendCallFails, CallCanceled, CallState
    <3> QED BY <1>s, <2>13, <3>1 DEF SendCallFails, CallCanceled
  <2>14. ASSUME NEW c \in Call, TakeResponse(c) PROVE Types'
    <3>1. responses' \in Seq(Response)
      BY <2>14, InTail DEF TakeResponse
    <3>2. call' \in [Call -> CallState]
      BY <2>14 DEF TakeResponse, CallState
    <3> QED BY <1>s, <2>14, <3>1, <3>2 DEF TakeResponse
  <2> QED BY <1>s, <2>1, <2>2, <2>3, <2>4, <2>5, <2>6, <2>7, <2>8, <2>9, <2>10, <2>11, <2>12,
             <2>13, <2>14 DEF Session, Beside, Dispatch, Server, CallStep
<1>m. register \in Call /\ bye \in Call /\ Beat \subseteq Call
  BY GbAssumption
<1>6. CASE MainConnect
  <2>1. CASE Connect /\ MainGoes(IF stack' = "idle" THEN "register" ELSE "close")
    <3>1. main' \in MainPhase
      BY <2>1 DEF MainGoes, MainPhase
    <3>2. CASE UNCHANGED <<clientCtx, stack, dispatcher>>
      BY <2>1, <3>1, <3>2 DEF Connect, MainGoes, Context
    <3>3. CASE clientCtx' = "live" /\ stack' = "idle" /\ dispatcher' = "born"
      BY <2>1, <3>1, <3>3 DEF Connect, MainGoes, Context
    <3> QED BY <2>1, <3>2, <3>3 DEF Connect
  <2>2. CASE MainGoes("close") /\ UNCHANGED sipVars
    BY <2>2 DEF MainGoes, MainPhase
  <2> QED BY <1>6, <2>1, <2>2 DEF MainConnect
<1>7. CASE MainRegister
  BY <1>7, <1>set, <1>ref, <1>m DEF MainRegister, MainGoes, MainPhase
<1>8. CASE MainInviteSkipped
  BY <1>8 DEF MainInviteSkipped, Context, MainPhase
<1>9. CASE MainWaitInvite
  BY <1>9 DEF MainWaitInvite, WaitInvite, MainGoes, MainPhase
<1>10. CASE MainTrying
  BY <1>10 DEF MainTrying, Trying, SendOpens, MainGoes, MainPhase
<1>11. CASE MainInviteResponse
  <2>1. invite' \in [Dialog -> DialogState]
    BY <1>11 DEF MainInviteResponse, InviteResponse, DialogState
  <2> QED BY <1>11, <2>1 DEF MainInviteResponse, InviteResponse, SendOpens, MainGoes, MainPhase
<1>12. CASE MainInvited
  BY <1>12 DEF MainInvited, Context, MainPhase
<1>13. CASE MainNotInvited
  BY <1>13 DEF MainNotInvited, MainGoes, MainPhase
<1>14. CASE MainMedia
  <2>1. CASE MainMediaEnds
    BY <2>1 DEF MainMediaEnds, MainGoes, MainPhase
  <2> QED BY <1>14, <2>1, <1>set, <1>ref, <1>m DEF MainMedia, MainBye
<1>15. CASE MainClose
  BY <1>15 DEF MainClose, CancelSip, Canceled, DoneFor, Context, MainPhase
<1>16. CASE MainStackDone \/ MainDispatcherDone \/ MainClosed
  BY <1>16 DEF MainStackDone, MainDispatcherDone, MainClosed, MainGoes, MainPhase
<1>17. CASE HeartbeatTurn
  <2>1. beat + 1 \in 0 .. Beats /\ beat + 1 \in Beat
    BY <1>17, GbAssumption DEF HeartbeatTurn, Beat
  <2> QED BY <1>17, <2>1 DEF HeartbeatTurn
<1>18. CASE HeartbeatCall
  <2>1. beat \in Call
    BY <1>18, <1>m DEF HeartbeatCall
  <2> QED BY <1>18, <2>1, <1>set, <1>ref DEF HeartbeatCall
<1>19. CASE HeartbeatFails
  BY <1>19 DEF HeartbeatFails, CancelHeartbeat, DoneFor, Context
<1>20. CASE HeartbeatAnswered \/ HeartbeatStops
  BY <1>20 DEF HeartbeatAnswered, HeartbeatStops, HeartbeatGoes
<1>21. CASE HeartbeatBye
  BY <1>21, <1>set, <1>ref, <1>m DEF HeartbeatBye, HeartbeatGoes
<1> QED BY <1>1, <1>2, <1>3, <1>4, <1>5, <1>6, <1>7, <1>8, <1>9, <1>10, <1>11, <1>12, <1>13,
           <1>14, <1>15, <1>16, <1>17, <1>18, <1>19, <1>20, <1>21, <1>s
        DEF GbNext, Main, Heartbeat, Session, Beside, MainMedia, MainBye

-----------------------------------------------------------------------------
(* Who calls.                                                               *)

InProgress(c) == call[c] \in {"method", "built", "wait"}

\* The goroutine a call belongs to, at the place where it makes the call.
Calls(c) ==
  \/ c = register /\ main = "register"
  \/ c = bye /\ heartbeat = "callback"
  \/ c = beat /\ heartbeat = "beat"

BeforeMedia == {"connect", "register", "invite", "trying", "sleep", "ack"}

\* The heartbeat starts after main has made its call; a call in progress is
\* that of the goroutine which is in it; Close leaves no heartbeat behind
\* that could still find its context live.
OneCaller ==
  /\ main \in BeforeMedia => heartbeat = "none"
  /\ \A c \in Call : InProgress(c) => Calls(c)
  /\ main \in {"stack", "dispatcher", "heartbeat", "closed"} => hbCtx # "live"
  /\ main = "closed" => heartbeat \in {"none", "born", "done"}

\* What a step does to the calls: nothing, the first step of a goroutine's
\* own call, or a further step of a call.
LEMMA CallSteps ==
  ASSUME Types, LeaveBy # "media", [GbNext]_gbVars
  PROVE  \/ UNCHANGED <<builder, call, awaits, sent>>
         \/ UNCHANGED device /\ \E c \in Call : Calls(c) /\ (SetMethod(c) \/ RefuseCall(c))
         \/ UNCHANGED device /\ \E c \in Call : CallStep(c)
<1> DEFINE Goal == \/ UNCHANGED <<builder, call, awaits, sent>>
                   \/ UNCHANGED device /\ \E c \in Call : Calls(c) /\ (SetMethod(c) \/ RefuseCall(c))
                   \/ UNCHANGED device /\ \E c \in Call : CallStep(c)
<1>m. register \in Call /\ bye \in Call /\ Beat \subseteq Call
  BY GbAssumption
<1>1. CASE Interrupt \/ InviteTimeout \/ CleanupTimeout \/ (\E c \in Call : CallTimeout(c)) \/ UNCHANGED gbVars
  BY <1>1 DEF Interrupt, InviteTimeout, CleanupTimeout, CallTimeout, gbVars, sipVars, calling, peer
<1>2. CASE MainConnect \/ MainInviteSkipped \/ MainWaitInvite \/ MainTrying \/ MainInviteResponse
  BY <1>2 DEF MainConnect, Connect, MainInviteSkipped, MainWaitInvite, WaitInvite, MainTrying, Trying,
     MainInviteResponse, InviteResponse, sipVars, calling, peer
<1>3. CASE MainInvited \/ MainNotInvited \/ MainMedia \/ MainClose \/ MainStackDone \/ MainDispatcherDone \/ MainClosed
  BY <1>3 DEF MainInvited, MainNotInvited, MainMedia, MainBye, MainMediaEnds, MainClose, MainStackDone,
     MainDispatcherDone, MainClosed, sipVars, calling, peer
<1>4. CASE MainRegister
  BY <1>4, <1>m DEF MainRegister, Calls, sipVars, calling, peer
<1>5. CASE HeartbeatTurn \/ HeartbeatFails \/ HeartbeatAnswered \/ HeartbeatStops
  BY <1>5 DEF HeartbeatTurn, HeartbeatFails, HeartbeatAnswered, HeartbeatStops, HeartbeatGoes, sipVars, calling, peer
<1>6. CASE HeartbeatCall
  <2>1. beat \in Call /\ heartbeat = "beat"
    BY <1>6, <1>m DEF HeartbeatCall, Types
  <2> QED BY <1>6, <2>1 DEF HeartbeatCall, Calls
<1>7. CASE HeartbeatBye
  BY <1>7, <1>m DEF HeartbeatBye, HeartbeatGoes, Calls, sipVars, calling, peer
<1>8. CASE Session
  <2>1. CASE StackLost \/ StackError \/ StackDone
    BY <2>1 DEF StackLost, StackError, StackDone, calling, peer
  <2>2. CASE Dispatch
    BY <2>2 DEF Dispatch, DispatchStart, DispatchTake, DispatchPut, DispatchStop, calling, peer
  <2>3. CASE Server
    BY <2>3 DEF Server, ServerAnswer, ServerInvite, ServerAck, ServerBye, calling
  <2>4. CASE TakeInvite \/ TakeAck \/ ReaderCanceled
    BY <2>4 DEF TakeInvite, TakeAck, ReaderCanceled, calling, peer
  <2> QED BY <1>8, <2>1, <2>2, <2>3, <2>4 DEF Session, Beside
<1> QED BY <1>1, <1>2, <1>3, <1>4, <1>5, <1>6, <1>7, <1>8 DEF GbNext, Main, Heartbeat

\* A step of a call leaves the other calls alone, and is one of a call in
\* progress.
LEMMA CallStepOfOne ==
  ASSUME Types, NEW c \in Call, CallStep(c)
  PROVE  /\ InProgress(c)
         /\ \A d \in Call \ {c} : call'[d] = call[d] /\ awaits'[d] = awaits[d]
<1> QED BY DEF Types, GbTypeOK, SipTypeOK, CallStep, SetCallID, SendCall, SendCallFails, TakeResponse,
     CallCanceled, InProgress

\* Two goroutines are never in a call at once.
LEMMA Exclusion ==
  ASSUME OneCaller, NEW c \in Call, NEW d \in Call, Calls(c), Calls(d)
  PROVE  c = d
<1> QED BY DEF OneCaller, Calls, BeforeMedia

\* OneCaller holds throughout.
LEMMA StepOneCaller ==
  ASSUME Types, OneCaller, LeaveBy # "media", [GbNext]_gbVars
  PROVE  OneCaller'
<1>m. register \in Call /\ bye \in Call /\ Beat \subseteq Call
  BY GbAssumption
<1>c. ASSUME UNCHANGED device, NEW c \in Call, CallStep(c) PROVE OneCaller'
  <2>1. InProgress(c) /\ \A d \in Call \ {c} : call'[d] = call[d]
    BY <1>c, CallStepOfOne
  <2>2. \A d \in Call : Calls(d)' <=> Calls(d)
    BY <1>c DEF Calls, device
  <2> QED BY <1>c, <2>1, <2>2 DEF OneCaller, InProgress, device
<1>b. ASSUME UNCHANGED device, NEW c \in Call, Calls(c), SetMethod(c) \/ RefuseCall(c) PROVE OneCaller'
  <2>1. \A d \in Call \ {c} : call'[d] = call[d]
    BY <1>b DEF SetMethod, RefuseCall, Types, GbTypeOK, SipTypeOK
  <2>2. \A d \in Call : Calls(d)' <=> Calls(d)
    BY <1>b DEF Calls, device
  <2> QED BY <1>b, <2>1, <2>2 DEF OneCaller, InProgress, device
<1>a. ASSUME UNCHANGED <<builder, call, awaits, sent>> PROVE OneCaller'
  <2> USE <1>a DEF OneCaller, InProgress, Calls, BeforeMedia
  <2>0. CASE UNCHANGED device
    BY <2>0 DEF device
  <2>1. CASE Interrupt \/ InviteTimeout \/ CleanupTimeout \/ (\E c \in Call : CallTimeout(c)) \/ UNCHANGED gbVars
    BY <2>1 DEF Interrupt, Canceled, InviteTimeout, CleanupTimeout, CallTimeout, gbVars, device
  <2>2. CASE MainConnect \/ MainWaitInvite \/ MainTrying \/ MainInviteResponse \/ MainNotInvited
    BY <2>2 DEF MainConnect, MainWaitInvite, MainTrying, MainInviteResponse, MainNotInvited, MainGoes, device
  <2>3. CASE MainInviteSkipped \/ MainInvited
    BY <2>3, <1>m DEF MainInviteSkipped, MainInvited
  <2>4. CASE MainMedia
    BY <2>4 DEF MainMedia, MainBye, MainMediaEnds, MainGoes
  <2>5. CASE MainClose
    BY <2>5 DEF MainClose, Canceled
  <2>6. CASE MainStackDone \/ MainDispatcherDone \/ MainClosed
    BY <2>6 DEF MainStackDone, MainDispatcherDone, MainClosed, MainGoes
  <2>7. CASE MainRegister
    BY <2>7 DEF MainRegister, MainGoes, Returned, device
  <2>8. CASE HeartbeatTurn
    BY <2>8 DEF HeartbeatTurn
  <2>9. CASE HeartbeatCall \/ HeartbeatBye
    BY <2>9 DEF HeartbeatCall, HeartbeatBye, HeartbeatGoes, device
  <2>10. CASE HeartbeatFails
    BY <2>10 DEF HeartbeatFails, CancelHeartbeat
  <2>11. CASE HeartbeatAnswered \/ HeartbeatStops
    BY <2>11 DEF HeartbeatAnswered, HeartbeatStops, HeartbeatGoes
  <2>12. CASE Session
    BY <2>12, <2>0 DEF Session, Beside
  <2> QED BY <2>1, <2>2, <2>3, <2>4, <2>5, <2>6, <2>7, <2>8, <2>9, <2>10, <2>11, <2>12 DEF GbNext, Main, Heartbeat
<1> QED BY <1>a, <1>b, <1>c, CallSteps

-----------------------------------------------------------------------------
(* What is called.                                                          *)

\* The builder holds the fields of the one call that fills it in; a request
\* that was sent is that of a call that has left the builder.
OwnCalls ==
  /\ \A c \in Call : call[c] \in {"method", "built"} => builder.method = Method[c]
  /\ \A c \in Call : call[c] = "built" => builder.id = c
  /\ \A c \in Call : call[c] \in {"wait", "ok"} => awaits[c] = c
  /\ \A r \in sent : r.method = Method[r.id] /\ call[r.id] \in {"wait", "ok", "fail"}

\* OwnCalls holds as long as one call is in progress at a time.
LEMMA StepOwnCalls ==
  ASSUME Types, OneCaller, OwnCalls, LeaveBy # "media", [GbNext]_gbVars
  PROVE  OwnCalls'
<1>t. /\ builder \in Builder /\ call \in [Call -> CallState] /\ awaits \in [Call -> Call]
      /\ sent \subseteq SipRequest /\ \A r \in sent : r.id \in Call
  BY DEF Types, GbTypeOK, SipTypeOK, Builder, SipRequest
<1>o. \A c, d \in Call : InProgress(c) /\ Calls(d) => c = d
  BY Exclusion DEF OneCaller
<1>p. \A c, d \in Call : InProgress(c) /\ InProgress(d) => c = d
  BY Exclusion DEF OneCaller
<1>0. CASE UNCHANGED <<builder, call, awaits, sent>>
  BY <1>0 DEF OwnCalls
<1>1. ASSUME NEW c \in Call, Calls(c), SetMethod(c) PROVE OwnCalls'
  <2>1. /\ builder' = [builder EXCEPT !.method = Method[c]] /\ Method[c] \in MethodName
        /\ call[c] = "unused" /\ call' = [call EXCEPT ![c] = "method"]
        /\ UNCHANGED <<awaits, sent>>
    BY <1>1, SipAssumption DEF SetMethod, peer
  <2>2. builder'.method = Method[c]
    BY <2>1, <1>t, BuilderFields
  <2>3. call'[c] = "method" /\ \A d \in Call \ {c} : call'[d] = call[d] /\ ~InProgress(d)
    BY <2>1, <1>t, <1>o, <1>1
  <2>4. \A d \in Call \ {c} : call'[d] \notin {"method", "built", "wait"}
    BY <2>3 DEF InProgress
  <2>5. \A r \in sent : r.id # c
    BY <2>1 DEF OwnCalls
  <2> QED BY <2>1, <2>2, <2>3, <2>4, <2>5, <1>t DEF OwnCalls
<1>2. ASSUME NEW c \in Call, RefuseCall(c) PROVE OwnCalls'
  <2>1. /\ call' = [call EXCEPT ![c] = "fail"] /\ UNCHANGED <<awaits, sent, builder>>
    BY <1>2 DEF RefuseCall, peer
  <2> QED BY <2>1, <1>t DEF OwnCalls
<1>3. ASSUME NEW c \in Call, SetCallID(c) PROVE OwnCalls'
  <2>1. /\ builder' = [builder EXCEPT !.id = c] /\ call[c] = "method"
        /\ call' = [call EXCEPT ![c] = "built"] /\ UNCHANGED <<awaits, sent>>
    BY <1>3 DEF SetCallID, peer
  <2>2. builder'.method = builder.method /\ builder'.id = c
    BY <2>1, <1>t, BuilderFields, SipAssumption
  <2>3. call'[c] = "built" /\ \A d \in Call \ {c} : call'[d] = call[d] /\ ~InProgress(d)
    BY <2>1, <1>t, <1>p DEF InProgress
  <2>4. \A d \in Call \ {c} : call'[d] \notin {"method", "built", "wait"}
    BY <2>3 DEF InProgress
  <2>5. \A r \in sent : r.id # c
    BY <2>1 DEF OwnCalls
  <2> QED BY <2>1, <2>2, <2>3, <2>4, <2>5, <1>t DEF OwnCalls
<1>4. ASSUME NEW c \in Call, SendCall(c) PROVE OwnCalls'
  <2>1. /\ call[c] = "built" /\ call' = [call EXCEPT ![c] = "wait"]
        /\ awaits' = [awaits EXCEPT ![c] = builder.id] /\ UNCHANGED builder
        /\ sent' \subseteq sent \cup {builder}
    BY <1>4 DEF SendCall
  <2>2. builder.id = c /\ builder.method = Method[c]
    BY <2>1 DEF OwnCalls
  <2>3. /\ call'[c] = "wait" /\ awaits'[c] = c
        /\ \A d \in Call \ {c} : call'[d] = call[d] /\ awaits'[d] = awaits[d]
    BY <2>1, <2>2, <1>t
  <2> QED BY <2>1, <2>2, <2>3, <1>t DEF OwnCalls
<1>5. ASSUME NEW c \in Call, SendCallFails(c) \/ CallCanceled(c) PROVE OwnCalls'
  <2>1. /\ call' = [call EXCEPT ![c] = "fail"] /\ UNCHANGED <<awaits, sent, builder>>
    BY <1>5 DEF SendCallFails, CallCanceled, peer
  <2> QED BY <2>1, <1>t DEF OwnCalls
<1>6. ASSUME NEW c \in Call, TakeResponse(c) PROVE OwnCalls'
  <2>1. /\ call[c] = "wait" /\ call' \in {call, [call EXCEPT ![c] = "ok"]}
        /\ UNCHANGED <<awaits, sent, builder>>
    BY <1>6 DEF TakeResponse, peer
  <2> QED BY <2>1, <1>t DEF OwnCalls
<1> QED BY <1>0, <1>1, <1>2, <1>3, <1>4, <1>5, <1>6, CallSteps DEF CallStep

-----------------------------------------------------------------------------
(* What is answered.                                                        *)

Answer(c) == [kind |-> "response", id |-> c]
Answered(c) == \E r \in answered : r.id = c
OnItsWay(c) == In(incoming, Answer(c)) \/ hand = Answer(c) \/ In(responses, Answer(c))

\* The property, with the names of this module.
LEMMA AnswerNotLostMeans ==
  AnswerNotLost <=>
    \A c \in Call : call[c] = "wait" /\ dispatcher # "done" /\ Answered(c) => OnItsWay(c)
BY DEF AnswerNotLost, Underway, Answered, OnItsWay, Answer, In

\* No answer is lost as long as one call is in progress at a time.
LEMMA StepAnswers ==
  ASSUME Types, OneCaller, OwnCalls, AnswerNotLost, LeaveBy # "media", [GbNext]_gbVars
  PROVE  AnswerNotLost'
<1> DEFINE Good == \A c \in Call : call[c] = "wait" /\ dispatcher # "done" /\ Answered(c) => OnItsWay(c)
<1>s. SUFFICES Good'
  <2>1. AnswerNotLost' <=> Good'
    BY AnswerNotLostMeans, PTL
  <2> QED BY <2>1
<1>g. Good
  BY AnswerNotLostMeans
<1>t. /\ call \in [Call -> CallState] /\ incoming \in Seq(Message) /\ responses \in Seq(Response)
      /\ sent \subseteq SipRequest /\ answered \subseteq sent
      /\ \A c \in Call : Answer(c) \in Response /\ Answer(c) \in Message /\ Answer(c) # NoMessage
  BY DEF Types, GbTypeOK, SipTypeOK, Response, Message, NoMessage, Answer
<1>p. \A c, d \in Call : InProgress(c) /\ InProgress(d) => c = d
  BY Exclusion DEF OneCaller
<1>0. ASSUME UNCHANGED <<hand, incoming, responses, answered>>, dispatcher = "done" => dispatcher' = "done",
             \A c \in Call : call'[c] = "wait" => call[c] = "wait" \/ ~Answered(c)
      PROVE  Good'
  BY <1>g, <1>0 DEF Answered, OnItsWay
<1>1. CASE DispatchTake
  <2>1. /\ incoming # <<>> /\ hand' = Head(incoming) /\ incoming' = Tail(incoming) /\ dispatcher = "idle"
        /\ UNCHANGED <<responses, call, answered>>
    BY <1>1 DEF DispatchTake, channels, calling, peer
  <2>2. hand = NoMessage
    BY <2>1 DEF Types, GbTypeOK, SipTypeOK
  <2>3. \A c \in Call : In(incoming, Answer(c)) <=> Answer(c) = Head(incoming) \/ In(Tail(incoming), Answer(c))
    BY <2>1, <1>t, InTail
  <2> QED BY <1>g, <1>t, <2>1, <2>2, <2>3 DEF Answered, OnItsWay
<1>2. CASE DispatchPut
  <2>1. /\ hand \in Message /\ dispatcher = "hand" /\ UNCHANGED <<incoming, call, answered>>
        /\ responses' = IF hand \in Response THEN Append(responses, hand) ELSE responses
    BY <1>2 DEF DispatchPut, calling, peer, Types, GbTypeOK, SipTypeOK
  <2>2. \A c \in Call : hand = Answer(c) \/ In(responses, Answer(c)) => In(responses', Answer(c))
    <3>1. CASE hand \in Response
      BY <3>1, <2>1, <1>t, InAppend
    <3>2. CASE hand \notin Response
      BY <3>2, <2>1, <1>t
    <3> QED BY <3>1, <3>2
  <2> QED BY <1>g, <1>t, <2>1, <2>2 DEF Answered, OnItsWay
<1>3. CASE DispatchStop
  BY <1>3 DEF DispatchStop
<1>4. ASSUME NEW r \in sent, ServerAnswer(r) PROVE Good'
  <2>1. /\ answered' = answered \cup {r} /\ incoming' = Append(incoming, Answer(r.id))
        /\ UNCHANGED <<hand, responses, call, dispatcher>> /\ r.id \in Call
    BY <1>4, <1>t DEF ServerAnswer, channels, calling, Answer, SipRequest
  <2>2. \A c \in Call : In(incoming', Answer(c)) <=> In(incoming, Answer(c)) \/ Answer(c) = Answer(r.id)
    BY <2>1, <1>t, InAppend
  <2> QED BY <1>g, <1>t, <2>1, <2>2 DEF Answered, OnItsWay
<1>5. ASSUME NEW d \in Dialog, ServerInvite(d) \/ ServerAck(d) \/ ServerBye(d) PROVE Good'
  <2>1. PICK m \in Message : incoming' = Append(incoming, m)
    BY <1>5, Messages DEF ServerInvite, ServerAck, ServerBye
  <2>2. UNCHANGED <<hand, responses, call, dispatcher, answered>>
    BY <1>5 DEF ServerInvite, ServerAck, ServerBye, channels, calling
  <2>3. \A c \in Call : In(incoming, Answer(c)) => In(incoming', Answer(c))
    BY <2>1, <1>t, InAppend
  <2> QED BY <1>g, <1>t, <2>2, <2>3 DEF Answered, OnItsWay
<1>6. ASSUME NEW c \in Call, TakeResponse(c) PROVE Good'
  <2>1. /\ responses # <<>> /\ responses' = Tail(responses) /\ call[c] = "wait"
        /\ call' = (IF Head(responses).id = awaits[c] THEN [call EXCEPT ![c] = "ok"] ELSE call)
        /\ UNCHANGED <<hand, incoming, dispatcher, answered>>
    BY <1>6 DEF TakeResponse, dispatching, peer
  <2>2. awaits[c] = c
    BY <2>1 DEF OwnCalls
  <2>3. \A d \in Call : call'[d] = "wait" => call[d] = "wait" /\ d = c /\ Head(responses).id # c
    BY <2>1, <2>2, <1>p, <1>t DEF InProgress
  <2>4. In(responses, Answer(c)) <=> Answer(c) = Head(responses) \/ In(Tail(responses), Answer(c))
    BY <2>1, <1>t, InTail
  <2>5. Answer(c).id = c
    BY DEF Answer
  <2> QED BY <1>g, <1>t, <2>1, <2>3, <2>4, <2>5 DEF Answered, OnItsWay
<1>7. ASSUME NEW c \in Call, SetMethod(c) \/ RefuseCall(c) \/ SetCallID(c) \/ SendCallFails(c) \/ CallCanceled(c)
      PROVE  Good'
  <2>1. UNCHANGED <<hand, incoming, responses, answered, dispatcher>>
    BY <1>7 DEF SetMethod, RefuseCall, SetCallID, SendCallFails, CallCanceled, dispatching, channels, peer
  <2>2. \A d \in Call : call'[d] = "wait" => call[d] = "wait"
    BY <1>7, <1>t DEF SetMethod, RefuseCall, SetCallID, SendCallFails, CallCanceled
  <2> QED BY <1>0, <2>1, <2>2
<1>8. ASSUME NEW c \in Call, SendCall(c) PROVE Good'
  <2>1. UNCHANGED <<hand, incoming, responses, answered, dispatcher>> /\ call[c] = "built"
    BY <1>8 DEF SendCall, dispatching, channels
  <2>2. ~Answered(c)
    BY <2>1, <1>t DEF OwnCalls, Answered
  <2>3. \A d \in Call : call'[d] = "wait" => call[d] = "wait" \/ d = c
    BY <1>8, <1>t DEF SendCall
  <2> QED BY <1>0, <2>1, <2>2, <2>3
<1>9. ASSUME UNCHANGED <<hand, incoming, responses, answered, call>>, dispatcher = "done" => dispatcher' = "done"
      PROVE  Good'
  BY <1>0, <1>9
<1>10. CASE StackLost \/ StackError \/ StackDone \/ DispatchStart \/ TakeInvite \/ TakeAck \/ ReaderCanceled
  BY <1>9, <1>10 DEF StackLost, StackError, StackDone, DispatchStart, TakeInvite, TakeAck, ReaderCanceled,
     dispatching, channels, calling, peer
<1>11. CASE Session
  BY <1>11, <1>1, <1>2, <1>3, <1>4, <1>5, <1>6, <1>7, <1>8, <1>10 DEF Session, Beside, Dispatch, Server, CallStep
<1>12. CASE Interrupt \/ InviteTimeout \/ CleanupTimeout \/ (\E c \in Call : CallTimeout(c)) \/ UNCHANGED gbVars
  BY <1>12, <1>9 DEF Interrupt, InviteTimeout, CleanupTimeout, CallTimeout, gbVars, sipVars, dispatching,
     channels, calling, peer
<1>13. CASE MainConnect
  BY <1>13, <1>9 DEF MainConnect, Connect, Types, sipVars, dispatching, channels, calling, peer
<1>14. CASE MainRegister
  BY <1>14, <1>7, <1>9, GbAssumption DEF MainRegister, sipVars, dispatching, channels, calling, peer
<1>15. CASE MainInviteSkipped \/ MainWaitInvite \/ MainTrying \/ MainInviteResponse
  BY <1>15, <1>9 DEF MainInviteSkipped, MainWaitInvite, WaitInvite, MainTrying, Trying, MainInviteResponse,
     InviteResponse, sipVars, dispatching, channels, calling, peer
<1>16. CASE MainInvited \/ MainNotInvited \/ MainMedia \/ MainClose
  BY <1>16, <1>9 DEF MainInvited, MainNotInvited, MainMedia, MainBye, MainMediaEnds, MainClose,
     sipVars, dispatching, channels, calling, peer
<1>17. CASE MainStackDone \/ MainDispatcherDone \/ MainClosed
  BY <1>17, <1>9 DEF MainStackDone, MainDispatcherDone, MainClosed, sipVars, dispatching, channels, calling, peer
<1>18. CASE HeartbeatTurn \/ HeartbeatFails \/ HeartbeatAnswered \/ HeartbeatStops
  BY <1>18, <1>9 DEF HeartbeatTurn, HeartbeatFails, HeartbeatAnswered, HeartbeatStops, HeartbeatGoes,
     sipVars, dispatching, channels, calling, peer
<1>19. CASE HeartbeatCall \/ HeartbeatBye
  <2>1. bye \in Call /\ (heartbeat = "beat" => beat \in Call)
    BY GbAssumption DEF Types
  <2> QED BY <1>19, <2>1, <1>7, <1>9 DEF HeartbeatCall, HeartbeatBye, HeartbeatGoes, sipVars, dispatching,
     channels, calling, peer
<1> QED BY <1>11, <1>12, <1>13, <1>14, <1>15, <1>16, <1>17, <1>18, <1>19 DEF GbNext, Main, Heartbeat

-----------------------------------------------------------------------------
(* What is invited.                                                         *)

Ack(d) == [kind |-> "ACK", id |-> d]
AckUnderway(d) == In(incoming, Ack(d)) \/ hand = Ack(d) \/ In(requests, Ack(d))

BeforeAnswer == {"connect", "register", "invite", "trying", "sleep"}

\* Main reads requests in the two phases which say so. Before it has answered
\* an INVITE none is accepted and there is no ACK; an ACK on its way is that
\* of a dialog which the server holds to be acknowledged.
Invited ==
  /\ reader = "INVITE" => main = "invite"
  /\ reader = "ACK" => main = "ack" /\ dialog \in Dialog
  /\ main \in {"invite", "trying", "sleep", "ack", "media"} => call[register] = "ok"
  /\ main \in BeforeAnswer => \A d \in Dialog : invite[d] \notin {"accepted", "acked"} /\ ~AckUnderway(d)
  /\ \A d \in Dialog : AckUnderway(d) => invite[d] \in {"acked", "ended"}
  /\ (main = "ack" /\ reader = "got") \/ main = "media" =>
       dialog \in Dialog /\ invite[dialog] \in {"acked", "ended"}

\* Invited holds throughout.
LEMMA StepInvited ==
  ASSUME Types, OneCaller, Invited, LeaveBy # "media", [GbNext]_gbVars
  PROVE  Invited'
<1>t. /\ call \in [Call -> CallState] /\ incoming \in Seq(Message) /\ requests \in Seq(Request)
      /\ invite \in [Dialog -> DialogState] /\ register \in Call /\ bye \in Call /\ Beat \subseteq Call
      /\ NoDialog \notin Dialog /\ dialog \in Dialog \cup {NoDialog}
      /\ \A d \in Dialog : Ack(d) \in Request /\ Ack(d) \in Message /\ Ack(d) # NoMessage /\ Ack(d) \notin Response
  BY GbAssumption, SipAssumption DEF Types, GbTypeOK, SipTypeOK, Request, Response, Message, NoMessage, Ack
<1> USE DEF BeforeAnswer
<1>r. ASSUME \E c \in Call : (Calls(c) /\ SetMethod(c)) \/ (Calls(c) /\ RefuseCall(c)) \/ CallStep(c), UNCHANGED device
      PROVE  Invited'
  <2>1. PICK c \in Call : (Calls(c) /\ SetMethod(c)) \/ (Calls(c) /\ RefuseCall(c)) \/ CallStep(c)
    BY <1>r
  <2>2. UNCHANGED <<main, hand, incoming, requests, reader, dialog, invite>>
    BY <2>1, <1>r DEF SetMethod, RefuseCall, CallStep, SetCallID, SendCall, SendCallFails, TakeResponse,
       CallCanceled, device, dispatching, channels, reading, peer
  <2>3. call[register] = "ok" => call'[register] = "ok"
    BY <2>1, <1>t DEF SetMethod, RefuseCall, CallStep, SetCallID, SendCall, SendCallFails, TakeResponse, CallCanceled
  <2> QED BY <2>2, <2>3 DEF Invited, AckUnderway
<1>q. ASSUME UNCHANGED <<main, call, hand, incoming, requests, reader, dialog, invite>> PROVE Invited'
  BY <1>q DEF Invited, AckUnderway
<1>1. ASSUME DispatchTake, UNCHANGED device PROVE Invited'
  <2>1. /\ incoming # <<>> /\ hand' = Head(incoming) /\ incoming' = Tail(incoming) /\ dispatcher = "idle"
        /\ UNCHANGED <<requests, call, reader, dialog, invite>>
    BY <1>1 DEF DispatchTake, channels, calling, reading, peer
  <2>2. hand = NoMessage
    BY <2>1 DEF Types, GbTypeOK, SipTypeOK
  <2>3. \A d \in Dialog : In(incoming, Ack(d)) <=> Ack(d) = Head(incoming) \/ In(Tail(incoming), Ack(d))
    BY <2>1, <1>t, InTail
  <2>4. \A d \in Dialog : AckUnderway(d)' <=> AckUnderway(d)
    BY <1>t, <2>1, <2>2, <2>3 DEF AckUnderway
  <2>5. main' = main
    BY <1>1 DEF device
  <2> QED BY <2>1, <2>4, <2>5 DEF Invited
<1>2. ASSUME DispatchPut, UNCHANGED device PROVE Invited'
  <2>1. /\ hand \in Message /\ UNCHANGED <<incoming, call, reader, dialog, invite, main>> /\ hand' = NoMessage
        /\ requests' = IF hand \in Response THEN requests ELSE Append(requests, hand)
    BY <1>2 DEF DispatchPut, calling, reading, peer, device, Types, GbTypeOK, SipTypeOK
  <2>2. \A d \in Dialog : AckUnderway(d)' => AckUnderway(d)
    <3>1. CASE hand \in Response
      BY <3>1, <2>1, <1>t DEF AckUnderway
    <3>2. CASE hand \notin Response
      <4>1. hand \in Request
        BY <2>1, <3>2, Messages
      <4>2. \A d \in Dialog : In(requests', Ack(d)) => In(requests, Ack(d)) \/ hand = Ack(d)
        BY <4>1, <3>2, <2>1, <1>t, InAppend
      <4> QED BY <4>2, <2>1, <1>t DEF AckUnderway
    <3> QED BY <3>1, <3>2
  <2> QED BY <2>1, <2>2 DEF Invited
<1>3. ASSUME DispatchStop, UNCHANGED device PROVE Invited'
  <2>1. UNCHANGED <<incoming, requests, call, reader, dialog, invite, main>> /\ hand' = NoMessage
    BY <1>3 DEF DispatchStop, channels, calling, reading, peer, device
  <2>2. \A d \in Dialog : AckUnderway(d)' => AckUnderway(d)
    BY <2>1, <1>t DEF AckUnderway
  <2> QED BY <2>1, <2>2 DEF Invited
<1>4. ASSUME NEW r \in sent, ServerAnswer(r), UNCHANGED device PROVE Invited'
  <2>1. /\ incoming' = Append(incoming, Answer(r.id)) /\ Answer(r.id) \in Message
        /\ UNCHANGED <<hand, requests, call, reader, dialog, invite, main>>
    BY <1>4, Messages DEF ServerAnswer, channels, calling, reading, device, Answer, Types, GbTypeOK, SipTypeOK
  <2>2. \A d \in Dialog : Ack(d) # Answer(r.id)
    BY DEF Ack, Answer
  <2>3. \A d \in Dialog : In(incoming', Ack(d)) => In(incoming, Ack(d))
    BY <2>1, <2>2, <1>t, InAppend
  <2>4. \A d \in Dialog : AckUnderway(d)' => AckUnderway(d)
    BY <2>1, <2>3 DEF AckUnderway
  <2> QED BY <2>1, <2>4 DEF Invited
<1>5. ASSUME NEW d \in Dialog, NEW k \in {"INVITE", "BYE"}, incoming' = Append(incoming, [kind |-> k, id |-> d]),
             UNCHANGED <<hand, requests, call, reader, dialog, main>>,
             \/ k = "INVITE" /\ invite[d] = "unused" /\ invite' = [invite EXCEPT ![d] = "sent"]
             \/ k = "BYE" /\ invite' = [invite EXCEPT ![d] = "ended"]
      PROVE  Invited'
  <2>1. [kind |-> k, id |-> d] \in Message /\ \A e \in Dialog : Ack(e) # [kind |-> k, id |-> d]
    BY Messages DEF Ack
  <2>2. \A e \in Dialog : In(incoming', Ack(e)) => In(incoming, Ack(e))
    BY <1>5, <2>1, <1>t, InAppend
  <2>3. \A e \in Dialog : AckUnderway(e)' => AckUnderway(e)
    BY <1>5, <2>2 DEF AckUnderway
  <2>4. /\ \A e \in Dialog : invite[e] \in {"acked", "ended"} => invite'[e] \in {"acked", "ended"}
        /\ \A e \in Dialog : invite'[e] \in {"accepted", "acked"} => invite[e] \in {"accepted", "acked"}
    BY <1>5, <1>t
  <2> QED BY <1>5, <2>3, <2>4 DEF Invited
<1>6. ASSUME NEW d \in Dialog, ServerAck(d), UNCHANGED device PROVE Invited'
  <2>1. /\ invite[d] = "accepted" /\ invite' = [invite EXCEPT ![d] = "acked"] /\ incoming' = Append(incoming, Ack(d))
        /\ UNCHANGED <<hand, requests, call, reader, dialog, main>>
    BY <1>6 DEF ServerAck, channels, calling, reading, device, Ack
  <2>2. \A e \in Dialog : In(incoming', Ack(e)) => In(incoming, Ack(e)) \/ Ack(e) = Ack(d)
    BY <2>1, <1>t, InAppend
  <2>3. \A e \in Dialog : Ack(e) = Ack(d) => e = d
    BY DEF Ack
  <2>4. \A e \in Dialog : AckUnderway(e)' => AckUnderway(e) \/ e = d
    BY <2>1, <2>2, <2>3 DEF AckUnderway
  <2>5. main \notin BeforeAnswer
    BY <2>1 DEF Invited
  <2>6. /\ \A e \in Dialog : invite[e] \in {"acked", "ended"} => invite'[e] \in {"acked", "ended"}
        /\ invite'[d] = "acked"
    BY <2>1, <1>t
  <2> QED BY <2>1, <2>4, <2>5, <2>6 DEF Invited
<1>7. ASSUME TakeInvite \/ TakeAck \/ ReaderCanceled, UNCHANGED device PROVE Invited'
  <2>1. UNCHANGED <<hand, incoming, call, invite, main>>
    BY <1>7 DEF TakeInvite, TakeAck, ReaderCanceled, dispatching, calling, peer, device
  <2>2. ASSUME requests # <<>>, requests' = Tail(requests)
        PROVE  /\ Head(requests) \in Request
               /\ \A d \in Dialog : AckUnderway(d)' => AckUnderway(d)
               /\ \A d \in Dialog : Head(requests) = Ack(d) => AckUnderway(d)
    <3>1. Head(requests) \in Request
      BY <2>2, <1>t, InTail
    <3>2. \A d \in Dialog : In(requests, Ack(d)) <=> Ack(d) = Head(requests) \/ In(Tail(requests), Ack(d))
      BY <2>2, <1>t, InTail
    <3> QED BY <2>1, <2>2, <3>1, <3>2 DEF AckUnderway
  <2>3. CASE TakeInvite
    <3>1. reader = "INVITE" /\ main = "invite" /\ reader' \in {"INVITE", "got"}
      BY <2>3 DEF TakeInvite, Invited, reading
    <3>2. \A d \in Dialog : AckUnderway(d)' => AckUnderway(d)
      BY <2>3, <2>2 DEF TakeInvite
    <3> QED BY <2>1, <3>1, <3>2 DEF Invited
  <2>4. CASE TakeAck
    <3>1. reader = "ACK" /\ main = "ack" /\ dialog \in Dialog /\ dialog' = dialog
          /\ reader' \in {"ACK", "got", "fail"}
      BY <2>4 DEF TakeAck, Invited
    <3>2. reader' = "got" => Head(requests).kind = "ACK" /\ Head(requests).id = dialog
      BY <2>4 DEF TakeAck
    <3>3. /\ Head(requests) \in Request /\ \A d \in Dialog : AckUnderway(d)' => AckUnderway(d)
          /\ \A d \in Dialog : Head(requests) = Ack(d) => AckUnderway(d)
      BY <2>4, <2>2 DEF TakeAck
    <3>4. reader' = "got" => Head(requests) = Ack(dialog)
      BY <3>2, <3>3 DEF Request, Ack
    <3> QED BY <2>1, <3>1, <3>3, <3>4 DEF Invited
  <2>5. CASE ReaderCanceled
    BY <2>1, <2>5 DEF ReaderCanceled, channels, Invited, AckUnderway
  <2> QED BY <1>7, <2>3, <2>4, <2>5
<1>8. CASE Session
  <2>1. UNCHANGED device /\ UNCHANGED main
    BY <1>8 DEF Session, Beside, device
  <2>2. CASE StackLost \/ StackError \/ StackDone \/ DispatchStart
    BY <2>1, <2>2, <1>q DEF StackLost, StackError, StackDone, DispatchStart, dispatching, channels, calling, reading, peer
  <2>3. ASSUME NEW d \in Dialog, ServerInvite(d) PROVE Invited'
    <3>1. /\ incoming' = Append(incoming, [kind |-> "INVITE", id |-> d]) /\ invite[d] = "unused"
          /\ invite' = [invite EXCEPT ![d] = "sent"] /\ UNCHANGED <<hand, requests, call, reader, dialog>>
      BY <2>3 DEF ServerInvite, channels, calling, reading
    <3> QED BY <2>1, <3>1, <1>5
  <2>4. ASSUME NEW d \in Dialog, ServerBye(d) PROVE Invited'
    <3>1. /\ incoming' = Append(incoming, [kind |-> "BYE", id |-> d])
          /\ invite' = [invite EXCEPT ![d] = "ended"] /\ UNCHANGED <<hand, requests, call, reader, dialog>>
      BY <2>4 DEF ServerBye, channels, calling, reading
    <3> QED BY <2>1, <3>1, <1>5
  <2> QED BY <1>8, <2>1, <2>2, <2>3, <2>4, <1>1, <1>2, <1>3, <1>4, <1>6, <1>7, <1>r DEF Session, Beside, Dispatch, Server
<1>9. CASE Interrupt \/ InviteTimeout \/ CleanupTimeout \/ (\E c \in Call : CallTimeout(c)) \/ UNCHANGED gbVars
  BY <1>9, <1>q DEF Interrupt, InviteTimeout, CleanupTimeout, CallTimeout, gbVars, sipVars, device, dispatching,
     channels, calling, reading, peer
<1>10. ASSUME UNCHANGED <<call, hand, incoming, requests, reader, dialog, invite>>,
              main' \in {"register", "close", "stack", "dispatcher", "heartbeat", "closed"},
              main' = "register" => main = "connect", reader \notin {"INVITE", "ACK"}
       PROVE  Invited'
  BY <1>10 DEF Invited, AckUnderway
<1>11. CASE MainConnect
  <2>1. main' \in {"register", "close"} /\ main = "connect"
    BY <1>11 DEF MainConnect, MainGoes
  <2>2. UNCHANGED <<call, hand, incoming, requests, reader, dialog, invite>>
    BY <1>11 DEF MainConnect, Connect, sipVars, dispatching, channels, calling, reading, peer
  <2> QED BY <2>1, <2>2, <1>10 DEF Invited
<1>12. CASE MainRegister
  <2>1. CASE Returned(register) /\ UNCHANGED sipVars /\ MainGoes(IF call[register] = "ok" /\ ctx = "live" THEN "invite" ELSE "close")
    <3>1. UNCHANGED <<call, hand, incoming, requests, reader, dialog, invite>>
      BY <2>1 DEF sipVars, dispatching, channels, calling, reading, peer
    <3>2. main = "register" /\ (main' = "close" \/ (main' = "invite" /\ call[register] = "ok"))
      BY <1>12, <2>1 DEF MainRegister, MainGoes
    <3> QED BY <3>1, <3>2 DEF Invited, AckUnderway
  <2>2. Calls(register)
    BY <1>12 DEF MainRegister, Calls
  <2> QED BY <1>12, <2>1, <2>2, <1>t, <1>r DEF MainRegister
<1>13. CASE MainInviteSkipped
  <2>1. UNCHANGED <<call, hand, incoming, requests, reader, dialog, invite>> /\ main' = "close" /\ reader = "idle"
    BY <1>13 DEF MainInviteSkipped, sipVars, dispatching, channels, calling, reading, peer
  <2> QED BY <2>1, <1>10
<1>14. CASE MainWaitInvite
  <2>1. UNCHANGED <<call, hand, incoming, requests, dialog, invite>> /\ main = "invite"
    BY <1>14 DEF MainWaitInvite, WaitInvite, sipVars, dispatching, channels, calling, reading, peer
  <2>2. \/ main' = "invite" /\ reader' \in {"INVITE", "fail"}
        \/ main' \in {"trying", "close"} /\ reader' = reader /\ reader \in {"got", "fail"}
    BY <1>14, <2>1 DEF MainWaitInvite, WaitInvite, MainGoes, sipVars, reading, device
  <2> QED BY <2>1, <2>2 DEF Invited, AckUnderway
<1>15. CASE MainTrying
  <2>1. UNCHANGED <<call, hand, incoming, requests, dialog, invite>> /\ main = "trying" /\ reader = "got"
    BY <1>15 DEF MainTrying, Trying, dispatching, channels, calling, peer
  <2>2. main' \in {"sleep", "close"} /\ reader' \in {"got", "fail"}
    BY <1>15 DEF MainTrying, Trying, MainGoes
  <2> QED BY <2>1, <2>2 DEF Invited, AckUnderway
<1>16. CASE MainInviteResponse
  <2>1. /\ UNCHANGED <<call, hand, incoming, requests, dialog>> /\ main = "sleep" /\ reader = "got" /\ dialog \in Dialog
        /\ \/ reader' = "ACK" /\ invite' \in {invite, [invite EXCEPT ![dialog] = "accepted"]}
           \/ reader' = "fail" /\ invite' = invite
    BY <1>16, <1>t DEF MainInviteResponse, InviteResponse, dispatching, channels, calling
  <2>2. main' = IF reader' = "ACK" THEN "ack" ELSE "close"
    BY <1>16 DEF MainInviteResponse, MainGoes
  <2>3. \A d \in Dialog : ~AckUnderway(d)'
    BY <2>1 DEF Invited, AckUnderway
  <2> QED BY <2>1, <2>2, <2>3 DEF Invited
<1>17. CASE MainInvited \/ MainNotInvited
  <2>1. /\ UNCHANGED <<call, hand, incoming, requests, reader, dialog, invite>> /\ main = "ack"
        /\ main' \in {"media", "close", "panic"} /\ (main' = "media" => reader = "got") /\ reader \in {"got", "fail"}
    BY <1>17 DEF MainInvited, MainNotInvited, MainGoes, sipVars, dispatching, channels, calling, reading, peer
  <2> QED BY <2>1 DEF Invited, AckUnderway
<1>18. CASE MainMedia
  <2>1. UNCHANGED <<call, hand, incoming, requests, reader, dialog, invite>> /\ main' = "close" /\ main = "media"
    BY <1>18 DEF MainMedia, MainBye, MainMediaEnds, MainGoes, sipVars, dispatching, channels, calling, reading, peer
  <2> QED BY <2>1, <1>10 DEF Invited
<1>19. CASE MainClose \/ MainStackDone \/ MainDispatcherDone \/ MainClosed
  <2>1. /\ UNCHANGED <<call, hand, incoming, requests, reader, dialog, invite>>
        /\ main' \in {"stack", "dispatcher", "heartbeat", "closed"}
        /\ main \in {"close", "stack", "dispatcher", "heartbeat"}
    BY <1>19 DEF MainClose, MainStackDone, MainDispatcherDone, MainClosed, MainGoes, sipVars, dispatching, channels,
       calling, reading, peer
  <2> QED BY <2>1, <1>10 DEF Invited
<1>20. CASE HeartbeatTurn \/ HeartbeatFails \/ HeartbeatAnswered \/ HeartbeatStops
  BY <1>20, <1>q DEF HeartbeatTurn, HeartbeatFails, HeartbeatAnswered, HeartbeatStops, HeartbeatGoes, sipVars,
     dispatching, channels, calling, reading, peer
<1>21. CASE HeartbeatCall \/ HeartbeatBye
  <2>1. \/ UNCHANGED device /\ \E c \in Call : Calls(c) /\ (SetMethod(c) \/ RefuseCall(c))
        \/ HeartbeatGoes("sleep")
    BY <1>21, <1>t DEF HeartbeatCall, HeartbeatBye, Types, Calls
  <2>2. HeartbeatGoes("sleep") => UNCHANGED <<main, call, hand, incoming, requests, reader, dialog, invite>>
    BY DEF HeartbeatGoes, sipVars, dispatching, channels, calling, reading, peer
  <2> QED BY <2>1, <2>2, <1>q, <1>r
<1> QED BY <1>8, <1>9, <1>11, <1>12, <1>13, <1>14, <1>15, <1>16, <1>17, <1>18, <1>19, <1>20, <1>21
        DEF GbNext, Main, Heartbeat

-----------------------------------------------------------------------------
(* The theorems: for every number of heartbeats and every server, as long as *)
(* the Bye is not called beside the heartbeat.                              *)

GbInv == Types /\ OneCaller /\ OwnCalls /\ AnswerNotLost /\ Invited

\* GbInv is inductive.
LEMMA Inductive ==
  ASSUME LeaveBy # "media"
  PROVE  GbSpec => []GbInv
<1>1. GbInit => GbInv
  <2>1. GbInit => Types
    BY InitTypes
  <2>2. GbInit => OneCaller /\ OwnCalls
    BY DEF GbInit, SipInit, OneCaller, InProgress, OwnCalls
  <2>3. GbInit => AnswerNotLost
    BY DEF GbInit, SipInit, AnswerNotLost
  <2>4. GbInit => Invited
    <3>1. GbInit => /\ incoming = <<>> /\ requests = <<>> /\ hand = NoMessage /\ main = "connect"
                    /\ reader = "idle" /\ \A d \in Dialog : invite[d] = "unused"
      BY DEF GbInit, SipInit
    <3>2. GbInit => \A d \in Dialog : ~AckUnderway(d)
      BY <3>1 DEF AckUnderway, In, Ack, NoMessage
    <3> QED BY <3>1, <3>2 DEF Invited
  <2> QED BY <2>1, <2>2, <2>3, <2>4 DEF GbInv
<1>2. GbInv /\ [GbNext]_gbVars => GbInv'
  BY StepTypes, StepOneCaller, StepOwnCalls, StepAnswers, StepInvited DEF GbInv
<1> QED BY <1>1, <1>2, PTL DEF GbSpec

\* The state of session and device is of its types.
THEOREM GbTypeCorrect ==
  ASSUME LeaveBy # "media"
  PROVE  GbSpec => []GbTypeOK
<1>1. GbInv => GbTypeOK
  BY DEF GbInv, Types
<1> QED BY <1>1, Inductive, PTL

\* Every request the server receives is what its caller asked for, and every
\* caller waits for the answer to its own (ingester.go calls Register, the
\* heartbeat's Message and Bye one after the other).
THEOREM RequestsAreOwn ==
  ASSUME LeaveBy # "media"
  PROVE  GbSpec => []RequestIsOwn
<1>1. GbInv => RequestIsOwn
  BY DEF GbInv, OwnCalls, RequestIsOwn
<1> QED BY <1>1, Inductive, PTL

\* No caller drops the answer to the call of another.
THEOREM AnswersArrive ==
  ASSUME LeaveBy # "media"
  PROVE  GbSpec => []AnswerNotLost
<1>1. GbInv => AnswerNotLost
  BY DEF GbInv
<1> QED BY <1>1, Inductive, PTL

\* Media is sent by a registered device, in a dialog the server acknowledged.
THEOREM MediaOnlyInvited ==
  ASSUME LeaveBy # "media"
  PROVE  GbSpec => []MediaIsInvited
<1>1. GbInv => MediaIsInvited
  BY DEF GbInv, Invited, MediaIsInvited
<1> QED BY <1>1, Inductive, PTL

\* After Close has returned no call makes a step: those in progress are of a
\* goroutine that has ended, and a heartbeat that starts late finds its
\* context done.
THEOREM ClosedIsQuiet ==
  ASSUME LeaveBy # "media"
  PROVE  GbSpec => QuietAfterClose
<1>1. GbInv /\ [GbNext]_gbVars => [main = "closed" => UNCHANGED <<call, sent>>]_gbVars
  <2> SUFFICES ASSUME GbInv, [GbNext]_gbVars, main = "closed" PROVE UNCHANGED <<call, sent>>
    OBVIOUS
  <2>1. \A c \in Call : ~Calls(c)
    BY DEF GbInv, OneCaller, Calls
  <2>2. \A c \in Call : ~CallStep(c)
    BY <2>1, CallStepOfOne DEF GbInv, OneCaller
  <2> QED BY <2>1, <2>2, CallSteps DEF GbInv
<1> QED BY <1>1, Inductive, PTL DEF GbSpec, QuietAfterClose
==============================================================================
