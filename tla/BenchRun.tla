------------------------------- MODULE BenchRun -------------------------------
(***************************************************************************)
(* The benchmarks that launch clients: Run in live/live.go, srs/srs.go and *)
(* janus/janus.go.  The main goroutine launches one goroutine per client,  *)
(* the players before the publishers, beside an optional stat server, and  *)
(* returns when they all have.                                             *)
(*                                                                         *)
(* A client of the live benchmark goes through the handshakes of RTMP or   *)
(* SRT and leaves.  The last one to leave ends the run, which it knows by  *)
(* the counter gStatLive.Publishers.Alive.  A WebRTC client stays until    *)
(* its context is done or its connection fails (RtcPublish, RtcPlay and    *)
(* JanusPlay say how).  The counters are plain ints that every goroutine   *)
(* updates, so an update is a load and a store.                            *)
(***************************************************************************)
EXTENDS Integers, FiniteSets

CONSTANT Clients  \* how many are launched: -sn times -nn players, -sn publishers

ASSUME RunAssumption == Clients \in Nat \ {0}

Client == 0 .. Clients - 1

VARIABLES
  program,    \* which Run it is, for live with the scheme of the url
  players,    \* how many of the clients are players
  parent,     \* the context main.go passes to Run
  ctx,        \* its child in Run, for janus the same
  startedCtx, \* publisherStartedCtx of live, a child of ctx
  main,       \* the goroutine of Run
  next,       \* the client to launch
  stat,       \* the goroutine of the stat server, "off" without -stat
  phase,      \* [Client -> Phase]: the goroutines of the clients
  alive,      \* [Role -> Int]: Subscribers.Alive and Publishers.Alive
  mainRead,   \* what main has loaded of alive and not yet stored
  read,       \* [Client -> Int]: the same of the clients
  lost        \* history: a store has overwritten an update made since its load

contexts == <<parent, ctx, startedCtx>>
launcher == <<main, next, mainRead, program, players>>
clients == <<phase, read>>
vars == <<contexts, launcher, stat, clients, alive, lost>>

Talking == {"dial", "handshake", "connect", "create", "linger", "published", "media"}
Phase == {"none", "left", "dec", "gate", "done"} \cup Talking
Context == {"live", "done"}
Role == {"play", "publish"}

Live == program \in {"rtmp", "srt"}
Counted == program # "janus"
RoleOf(c) == IF c < players THEN "play" ELSE "publish"

TypeOK ==
  /\ program \in {"rtmp", "srt", "rtc", "janus"}
  /\ players \in 0 .. Clients
  /\ parent \in Context /\ ctx \in Context /\ startedCtx \in Context
  /\ main \in {"launch", "bump", "wait", "returned"}
  /\ next \in IF main = "bump" THEN Client ELSE 0 .. Clients
  /\ stat \in {"off", "listen", "serve", "failed", "exit"}
  /\ phase \in [Client -> Phase]
  /\ alive \in [Role -> Int] /\ mainRead \in Int /\ read \in [Client -> Int]
  /\ lost \in BOOLEAN

Init ==
  /\ program \in {"rtmp", "srt", "rtc", "janus"}
  /\ players \in IF Live THEN {0} ELSE 0 .. Clients
  /\ parent = "live" /\ ctx = "live" /\ startedCtx = "live"
  /\ main = "launch" /\ next = 0 /\ mainRead = 0
  /\ stat \in IF program = "janus" THEN {"exit"} ELSE {"off", "listen"}
  /\ phase = [c \in Client |-> "none"]
  /\ alive = [r \in Role |-> 0] /\ read = [c \in Client |-> 0]
  /\ lost = FALSE

Interrupt ==
  /\ parent = "live"
  /\ parent' = "done" /\ ctx' = "done" /\ startedCtx' = "done"
  /\ UNCHANGED <<launcher, stat, clients, alive, lost>>

cancel == ctx' = "done" /\ startedCtx' = "done"

-----------------------------------------------------------------------------
(* Main.                                                                    *)

MayLaunch == main = "launch" /\ next < Clients /\ ctx = "live"

\* The counter of role r gets value, computed from what was loaded.
Store(r, loaded, value) ==
  /\ alive' = [alive EXCEPT ![r] = value]
  /\ lost' = (lost \/ alive[r] # loaded)

\* Alive++ of the loops, its load ...
LaunchLoad ==
  /\ MayLaunch /\ Counted
  /\ main' = "bump" /\ mainRead' = alive[RoleOf(next)]
  /\ UNCHANGED <<contexts, next, program, players, stat, clients, alive, lost>>

\* ... and its store, before the goroutine starts.
Launch ==
  /\ main = "bump"
  /\ main' = "launch" /\ Store(RoleOf(next), mainRead, mainRead + 1)
  /\ phase' = [phase EXCEPT ![next] = "dial"]
  /\ next' = next + 1
  /\ UNCHANGED <<contexts, mainRead, program, players, stat, read>>

\* Janus counts nobody.
LaunchUncounted ==
  /\ MayLaunch /\ ~Counted
  /\ phase' = [phase EXCEPT ![next] = "dial"]
  /\ next' = next + 1
  /\ UNCHANGED <<contexts, main, mainRead, program, players, stat, read, alive, lost>>

\* The loops are over. In live the deferred publisherStartedCancel runs first.
LaunchEnds ==
  /\ main = "launch" /\ (next = Clients \/ ctx = "done")
  /\ main' = "wait"
  /\ startedCtx' = IF Live THEN "done" ELSE startedCtx
  /\ UNCHANGED <<parent, ctx, next, mainRead, program, players, stat, clients, alive, lost>>

\* wg: the stat server and the launched clients.
AllDone ==
  /\ stat \in {"failed", "exit"}
  /\ \A c \in Client : phase[c] \in {"none", "done"}

\* Only live defers its cancel.
Return ==
  /\ main = "wait" /\ AllDone
  /\ main' = "returned"
  /\ IF Live THEN cancel ELSE UNCHANGED <<ctx, startedCtx>>
  /\ UNCHANGED <<parent, next, mainRead, program, players, stat, clients, alive, lost>>

-----------------------------------------------------------------------------
(* The stat server.                                                         *)

StatOff ==
  /\ stat = "off"
  /\ stat' = "exit"
  /\ UNCHANGED <<contexts, launcher, clients, alive, lost>>

StatListens ==
  /\ stat = "listen"
  /\ stat' = "serve"
  /\ UNCHANGED <<contexts, launcher, clients, alive, lost>>

\* Listen fails, or Serve while the run goes on.
StatFails ==
  /\ stat = "listen" \/ (stat = "serve" /\ ctx = "live")
  /\ stat' = "failed" /\ cancel
  /\ UNCHANGED <<parent, launcher, clients, alive, lost>>

\* Mutant: nobody shuts the server down.
StatServesOn == stat = "none" /\ UNCHANGED vars

\* ctx is done: Shutdown makes Serve return.
StatShutdown ==
  /\ stat = "serve" /\ ctx = "done"
  /\ stat' = "exit"
  /\ UNCHANGED <<contexts, launcher, clients, alive, lost>>

-----------------------------------------------------------------------------
(* A client: startPublish or startPlay, then the deferred end of its        *)
(* goroutine.                                                               *)

\* Where the exchange with the server goes on when a step of it succeeded.
Advances ==
  IF program = "rtmp"
  THEN [dial |-> "handshake", handshake |-> "connect", connect |-> "create",
        create |-> "published"]
  ELSE IF program = "srt" THEN [dial |-> "linger"] ELSE [dial |-> "media"]

Advance(c) ==
  /\ phase[c] \in DOMAIN Advances
  /\ phase' = [phase EXCEPT ![c] = Advances[phase[c]]]
  /\ UNCHANGED <<contexts, launcher, stat, read, alive, lost>>

\* SRT stays for three seconds or until ctx is done.
Linger(c) ==
  /\ phase[c] = "linger"
  /\ phase' = [phase EXCEPT ![c] = "published"]
  /\ UNCHANGED <<contexts, launcher, stat, read, alive, lost>>

\* An exchange fails, in live only when the server hangs up: ctx is not
\* looked at. A live client leaves as soon as it has published, a WebRTC
\* client when ctx is done, its connection failed or, with -cap, is up.
Leave(c) ==
  /\ phase[c] \in DOMAIN Advances \cup {"published", "media"}
  /\ phase' = [phase EXCEPT ![c] = "left"]
  /\ UNCHANGED <<contexts, launcher, stat, read, alive, lost>>

AliveLoad(c) ==
  /\ phase[c] = "left" /\ Counted
  /\ phase' = [phase EXCEPT ![c] = "dec"]
  /\ read' = [read EXCEPT ![c] = alive[RoleOf(c)]]
  /\ UNCHANGED <<contexts, launcher, stat, alive, lost>>

\* Mutant: the counter is looked at before every client was launched.
AliveStoreNoGate(c) ==
  /\ phase[c] = "dec"
  /\ phase' = [phase EXCEPT ![c] = "gate"]
  /\ Store(RoleOf(c), read[c], read[c] - 1)
  /\ IF alive'[RoleOf(c)] = 0 THEN cancel ELSE UNCHANGED <<ctx, startedCtx>>
  /\ UNCHANGED <<parent, launcher, stat, read>>

AliveStore(c) ==
  /\ phase[c] = "dec"
  /\ phase' = [phase EXCEPT ![c] = IF Live THEN "gate" ELSE "done"]
  /\ Store(RoleOf(c), read[c], read[c] - 1)
  /\ UNCHANGED <<contexts, launcher, stat, read>>

\* Mutant: who passes the gate ends the run, whatever the counter is.
GateBlind(c) ==
  /\ phase[c] = "gate" /\ startedCtx = "done"
  /\ phase' = [phase EXCEPT ![c] = "done"] /\ cancel
  /\ UNCHANGED <<parent, launcher, stat, read, alive, lost>>

\* Mutant: the last publisher does not end the run.
GateNoCancel(c) ==
  /\ phase[c] = "gate" /\ startedCtx = "done"
  /\ phase' = [phase EXCEPT ![c] = "done"]
  /\ UNCHANGED <<contexts, launcher, stat, read, alive, lost>>

\* <-publisherStartedCtx.Done(), then the look at the counter.
Gate(c) ==
  /\ phase[c] = "gate" /\ startedCtx = "done"
  /\ phase' = [phase EXCEPT ![c] = "done"]
  /\ IF alive["publish"] = 0 THEN cancel ELSE UNCHANGED <<ctx, startedCtx>>
  /\ UNCHANGED <<parent, launcher, stat, read, alive, lost>>

\* A client of janus has nothing to count.
DoneUncounted(c) ==
  /\ phase[c] = "left" /\ ~Counted
  /\ phase' = [phase EXCEPT ![c] = "done"]
  /\ UNCHANGED <<contexts, launcher, stat, read, alive, lost>>

-----------------------------------------------------------------------------

ClientStep(c) ==
  \/ Advance(c) \/ Linger(c) \/ Leave(c)
  \/ AliveLoad(c) \/ AliveStore(c) \/ Gate(c) \/ DoneUncounted(c)

Next ==
  \/ Interrupt \/ LaunchLoad \/ Launch \/ LaunchUncounted \/ LaunchEnds \/ Return
  \/ StatOff \/ StatListens \/ StatFails \/ StatShutdown
  \/ \E c \in Client : ClientStep(c)

Spec == Init /\ [][Next]_vars

\* Goroutines run. A live server answers or the connection breaks, at last;
\* a WebRTC client is only sure to leave when ctx is done.
Fairness ==
  /\ WF_vars(LaunchLoad \/ Launch \/ LaunchUncounted \/ LaunchEnds) /\ WF_vars(Return)
  /\ WF_vars(StatOff \/ StatListens) /\ WF_vars(StatShutdown)
  /\ \A c \in Client :
       WF_vars((Live \/ ctx = "done" \/ phase[c] \notin Talking) /\ ClientStep(c))

FairSpec == Spec /\ Fairness

-----------------------------------------------------------------------------
(* Properties.                                                              *)

\* A client that is done early does not stop main from launching the
\* others: only the user or the stat server does (publisherStartedCtx).
LaunchNotCut ==
  main \in {"launch", "bump"} /\ ctx = "done" => parent = "done" \/ stat = "failed"

\* The clients that count: launched, and their Alive-- not yet stored.
Counting(r) == {c \in Client : RoleOf(c) = r /\ phase[c] \notin {"none", "gate", "done"}}

\* Unless an update was lost, the counters are how many clients there are, and
\* a run that neither the user nor the stat server ended is over only when all
\* its clients were launched and have left: a look at the counter that comes
\* early, or sees a client that left but not one that runs, ends nothing.
NobodyCutOff ==
  ~lost =>
    /\ Counted => \A r \in Role : alive[r] = Cardinality(Counting(r))
    /\ ctx = "done" =>
         \/ parent = "done" \/ stat = "failed"
         \/ \A c \in Client : phase[c] \in {"gate", "done"}

\* Interrupting the user's context ends the run wherever it is.
InterruptEnds == parent = "done" ~> main = "returned"

\* The run ends by itself. Live does without a stat server when the
\* publishers have ended, and with one since the last to leave sees that the
\* counter is zero, unless an update of it was lost. The others do when the
\* clients have ended, but never with a stat server.
EndsByItself ==
  /\ Live /\ stat = "off" ~> main = "returned"
  /\ Live ~> main = "returned" \/ lost
  /\ main = "wait" /\ stat \in {"exit", "failed"}
       /\ (\A c \in Client : phase[c] \notin Talking)
       ~> main = "returned"
=============================================================================
