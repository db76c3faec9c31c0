# A verification project for srs-bench

srs-bench is a set of load generators and regression clients for media
servers.  One binary (`main.go`) picks a scenario by `-sfu`: `rtc`/`srs`
(WebRTC by WHIP/WHEP), `live` (RTMP and SRT), `janus` (WebRTC through the Janus
videoroom) and `gb28181` (a SIP camera that sends MPEG-PS).  The rest of the
repository is support for tests: WebRTC and RTMP test clients, a UDP proxy for
pion's virtual network, process runners for black-box tests, a TCP proxy and a
pcap replayer.

What can go wrong in such a program is not arithmetic but coordination: every
scenario is a handful of goroutines that share contexts, wait groups, channels
and counters with each other and with a server that answers when it likes.
The models follow that: contexts, wait groups and channels are state, every
handler is an action, and message bodies are reduced to what the code tests.

## Inventory

| Part | Source | State | Operations | What makes it hard |
|---|---|---|---|---|
| Janus signaling | `janus/api.go` | session, handles, `replies` by transaction, `onPublisher`, polling goroutine | Create, Close, attach, detach, join, publish, subscribe, unpublish, polling, DiscoverPublisher | two answers per call (HTTP ack, polled event) in any order, one poller for all callers, callers that gave up |
| Janus player and publisher | `janus/player.go`, `janus/publisher.go` | peer connection, helper goroutine | startPlay, startPublish | discovery timer against the publisher list, deferred teardown on a canceled context |
| Janus benchmark | `janus/janus.go` | wait group | Run | launch loops |
| SIP session | `gb28181/sip.go` | contexts of session and client, `requests`, `responses`, one request builder, sequence number | Connect, Close, Register, Message, Bye, Wait, Trying, InviteResponse | one response channel for all callers; the end of the stack seen by one context only |
| GB device | `gb28181/ingester.go` (GBSession), `gb28181/gb28181.go` | heartbeat context and goroutine | Connect, Register, Invite, Bye, UnRegister, Close, Run | heartbeat beside main, timeouts, wait groups entered late |
| GB media | `gb28181/ingester.go` (PSIngester), `gb28181/ps.go` | DTS counters, pack under construction, RTP sequence | Ingest, WriteHeader, WriteVideo, WriteAudio, WritePacksOverRTP | two clocks compared, 16-bit lengths and sequence numbers |
| H.265/AAC readers | `gb28181/h265reader.go`, `util.go` | read buffer | NextNAL, NextADTSFrame | start codes across reads, end of file |
| Live benchmark | `live/live.go`, `live/publisher.go`, `live/stat.go` | counters, contexts | Run, startPublish | launching against finishing, an unsynchronised counter |
| WebRTC benchmark | `srs/srs.go`, `srs/stat.go` | counters | Run | as above |
| WebRTC publisher/player | `srs/publisher.go`, `srs/player.go` | peer connection, contexts, receivers, dump writers | startPublish, startPlay | connection callbacks, readers, ingesters, closing order |
| WebRTC ingesters | `srs/ingester.go`, `srs/interceptor.go` | pending parameter sets, clocks | Ingest, ReadFrame | frame grouping, markers |
| WebRTC test clients | `srs/util.go`, `janus/util.go` | ready contexts, shared error | testPublisher.Run, testPlayer.Run | closing while ingesters start |
| RTMP and FLV test clients | `srs/util.go`, `srs/rtmp_test.go` | transports, contexts, a flag shared by two ingests | Publish, Ingest, Play, Consume, Close | neither loop looks at its context; goroutines beside them close the transport |
| UDP proxy | `vnet/udpproxy.go`, `udpproxy_direct.go` | workers, endpoints | Proxy, Close, Deliver | load-then-store, sockets and goroutines per client |
| TCP proxy | `tcpproxy/main.go` | connections | doServe | half-closed streams |
| Blackbox backends | `blackbox/util.go` | process, contexts, wait group | Run, Close | process exit against kill and callbacks |
| Black-box tests | `blackbox/*_test.go`, `blackbox/util.go` | contexts of the case and its clients, recorded file, channel of hook events | the server, FFmpeg, FFprobe and hooks clients, verify, report | four processes that may end at any time, nested contexts, retries under a timeout |
| Regression tests | `srs/rtc_test.go` | contexts, resources, errors | make, run, close, report | deferred calls in reverse order, who cancels first |
| pcap replayer | `pcap/main.go` | file position | doReplay | none |

The components talk through contexts (`main.go` cancels the run's context on a
signal; every scenario derives children), channels (events, requests,
responses), wait groups (who waits for whom at the end) and callbacks
(`onPublisher`, `onSendPacket`, `onMessageHeartbeat`, connection states).
`PROJECT.json` lists the components with what is modelled of each, and the
hazards with the properties that cover them.

## Modules

| Module | Models | Rests on |
|---|---|---|
| `RpcPromise` | abstract: what a caller of a message call may rely on | |
| `JanusApi` | one Janus session: calls, poller, Close, server | refines `RpcPromise` |
| `JanusPlay` | DiscoverPublisher and the signaling of a viewer | EXTENDS `JanusApi` |
| `SipSession` | the SIP session, its client and dispatcher | |
| `GbSession` | the device: main, heartbeat, Run, Close | EXTENDS `SipSession` |
| `PsMux` | the media of the device: clocks and packs | |
| `PsWriter` | a frame cut into PES packets and sent as RTP | |
| `H265Reader` | the scanner of H.265 files | |
| `BenchRun` | the launchers of the live, SRS and Janus benchmarks, and their clients | |
| `RtcPublish` | one WebRTC publisher of `srs` or of `janus`, and its peer connection | |
| `RtcPlay` | one WebRTC player of `srs` or of `janus`, and the handlers of its tracks | |
| `ServicePromise` | abstract: what the owner of processes may rely on, for several at once | |
| `BackendService` | one process with the goroutines beside it | refines `ServicePromise` |
| `HooksService` | the HTTP service that is told of recorded files | EXTENDS `ServicePromise` |
| `BlackboxCase` | a black-box test: server, FFmpeg, FFprobe, hooks, verdict | EXTENDS `HooksService`; its processes are those of `ServicePromise` |
| `TestPublisher` | the publisher of the regression tests and its ingesters | |
| `TestPlayer` | the player beside it | EXTENDS `TestPublisher` |
| `RtcTest` | a regression test that owns the two | EXTENDS `TestPlayer` |
| `RtmpTest` | a regression test with its RTMP publisher and RTMP or FLV player | |
| `UdpProxy` | the proxy of the virtual network: workers, endpoints, Close | |
| `TcpProxy` | the RTMP proxy: accepting, copying, closing | |
| `*_proof` | theorems about the module of that name; `GbSession_proof` is about `SipSession` too, `RtcTest_proof` about its clients, `Janus_proof` about `JanusApi` and `JanusPlay`, `Clients_proof` about `RtcPublish`, `RtcPlay` and `RtmpTest`, `Helpers_proof` about `PsMux`, `PsWriter`, `H265Reader`, `UdpProxy` and `TcpProxy` | TLAPS |
| `MCHelpers` | one run for `PsMux`, `PsWriter`, `H265Reader`, `UdpProxy`, `TcpProxy` | EXTENDS the five |
| `MCClients` | one run for `RtcPublish` and `RtmpTest` | EXTENDS the two |
| other `MC*` | constants for TLC | |

Parts that never meet share a run: in `MCHelpers` and `MCClients` a behaviour is one of
one part (`part`, `client`), chosen at the start, and the others stay as they begin.  The
properties are those of the parts, and hold of a part that does not run by the way
it begins.

Operators whose comment begins with "Mutant:" are not part of any
specification.  Each is one definition changed the way a plausible bug would
change it; with the mutant in place of the definition, the property
`PROJECT.json` names with it fails.  They show that the properties
can tell right from wrong.

### JanusApi

`call[t]` is where the goroutine that owns transaction `t` is: in the HTTP
request, in the `select` on its reply channel, or returned.  `registered` is the
key set of `v.replies`, `channel[t]` the one-slot channel of `janusReply`,
`poller` and `held` the polling goroutine with the event it has read, `events`
the server's queue for the long poll.  `ctx` and `pollingCtx` are the two
contexts of `Create`.  The server acknowledges or refuses a request, answers an
accepted message by one event at any later time (also before the ack was
read), and sends unsolicited events.  HTTP requests may fail at any time.

The promise: a successful call was decided by the server as its operation
expects (`VerdictRespected`); while the poller lives the answer to a pending
call is queued, in hand or in its channel (`AnswerNotLost`), in one of them only
(`AnswerNotDuplicated`); the poller never blocks on an abandoned call
(`PollerNotBlocked`).  `KeepsPromise` says that the whole session, seen through
the state of its message calls, implements `RpcPromise`.  Liveness: calls
return, and all of them once they are canceled (`CallsReturn`); Close returns.

`CallsReturn` has an exception the code has too: a GET that fails ends the
poller and cancels `pollingCtx`, but waiters look at `ctx` only, so they stay
until the run is canceled.

### JanusPlay

Main and helper goroutine of `startPlay` on a session.  `ToldIsFound`: no
publisher list slips past the replaced callback.  `ReturnLeavesNothing`: the callback
is restored and the poller ended.  `PlayEnds`: a canceled viewer returns, and the
helper leaves after a discovery that ended by itself.  A helper that has joined when
`ctx` ends the discovery waits for `discoverCtx` for ever: the code has this leak and
`PlayEnds` excludes it by its premise.  What a viewer does after its signaling is in
`RtcPlay`.

### SipSession and GbSession

`dispatcher`/`hand`/`incoming`/`requests`/`responses` are the goroutine and
channels of `SIPSession.Connect`; `stack` is the gosip protocol, which dials at
the first message and may lose its connection; `call[c]` goes through the
filling in of the shared `builder` (method, then Call-ID), sending and waiting.
`callCtx[c]` is the context the caller gave the call, so that timeouts,
interrupts and the end of the heartbeat are one mechanism.  `reader` is the
goroutine in `Wait` or `InviteResponse`.  In `GbSession`, `main` follows `Run` from
Connect to Close and `heartbeat` the goroutine of `Invite`; `"born"` is a
goroutine that exists and has not run `wg.Add` yet, so wait groups do not wait
for it.  `LeaveBy` says who calls `Bye`: nobody in `Run`; in the tests the
callback of the media or of the heartbeat.

As `Run` drives it, the device has one call in progress at a time, since the
heartbeat begins after the last call of main; on that rest `RequestIsOwn` and
`AnswerNotLost`.  `MediaIsInvited`: media flows only after the INVITE that was
taken was acknowledged.  `QuietAfterClose`: a goroutine that starts late calls
nobody.  With a Bye from the media callback, beside the heartbeat, an answer can
be lost: see Findings.

### PsMux

`PSIngester.Ingest`: `main` is the place in its loop, `frames` the NALs read for one
video frame, `pack` the pack under construction with the type and DTS of every
packet, `avcSamples` and `aacSamples` the two clocks.  DTS are computed as the
code does, with its integer divisions.  `SentInOrder`: a pack that is sent has a
header, which has a system header and program stream map exactly when parameter
sets follow, one video frame, and the audio up to the first later frame; and
packs follow each other in time.  `LeadBounded`: neither clock leaves the other
behind.  The audio half holds when a video frame lasts at least as long as an
audio frame on the code's clocks; otherwise, at a low `-fps`, the video falls
behind for ever.  The bytes of
headers are left out, and so is a server that stops reading its TCP connection.
`fps` is not 0: with 0 the division ends the process at once.

### PsWriter

`WriteVideo`, `WriteAudio` and `WritePacksOverRTP`: `Cut` is the loop that cuts a NAL
into pieces, `onWire` what each RTP packet is and what the length before it says, both
with the width of their field.  `ServerCanRead`: the pieces of the frames are all there,
in order, none empty, and every length that a receiver reads is right, whichever
write fails.  `MuxAudio` and `AdtsFails` are `NextADTSFrame`, which decodes what it peeks.

### H265Reader

`NextNAL` byte by byte: `nalBuffer` and `countOfConsecutiveZeroBytes` are the fields of the
scanner, `taken` how many bytes of the file `read` has given it.  A file is its bytes, and
from where to where each NAL reaches, which the scanner is never told.  `ReadsNals` says
that what has been returned are those parts of the file (`Lists`), for files an encoder can
write (`WellFormedFile`); for others the actions say what happens, an empty NAL's panic
included.

### BenchRun

One module for three launchers, which `program` tells apart.  `main`, `phase[c]` and `stat`
are the goroutines of `Run`; `alive` counts players and publishers, and `Alive++` and
`Alive--` are a load and a store (`mainRead`, `read[c]`), which is what an unsynchronised
int does at best.  `Advances` is the sequence of exchanges of an RTMP or SRT publisher; a
WebRTC client is in `"media"` until it leaves, and `RtcPublish`, `RtcPlay` and `JanusPlay`
show that it does once its context is done.  `LaunchNotCut`: only the user or a failing
stat server stops the launching.  `InterruptEnds` and `EndsByItself`: who ends the run.
Two updates of a counter at a time lose one (`live/live.go:174`); `lost`, a history variable,
says that this has happened.  `NobodyCutOff`: unless it has, the counters are how many clients
there are, and a run that nobody else ended is over only when all of its clients were launched
and have left; and `EndsByItself` says that a live run then does end, with a stat server, too.
With an update lost the code promises neither: the run is over beside a running publisher, or,
with a stat server, never.  The WebRTC run with a stat server never ends by itself.

### RtcPublish

`startPublish` of `srs`, which negotiates by one request, and of `janus`, which does by four
calls of a session and defers the undoing of each (`deferred`); `program` says which.
`pc` is the peer connection; every state it reaches is told to a goroutine that runs the
callback later (`callbacks`), in any order and also after `startPublish` has returned.
Before `Register` there is no callback and the state is lost: then only an interrupt ends
the publisher.  `up` is the context that the poller of Janus cancels when the server has the
media path, beside `pcDone`, which pion's callback cancels: the workers of Janus need both.
`reader[m]`, `ingester[m]`, `stats` and `closer` are the goroutines of the wait group;
`doClose` closes the connection, then the senders, as one step, since nothing reads between
the two.  pion's "disconnected", which the callback ignores, is left out.

`ReturnLeavesNothing` rests on the order of the deferred calls and on the closing
goroutine; `PublisherEnds` on its being another goroutine than the one that waits, and
speaks of failures that are told.  `MediaAfterConnected` and `MediaBegins` are the two sides
of waiting for two messengers: not before both, and always after both.

### RtcPlay

`startPlay` of `srs` and of `janus` (`program`) with one handler per track.  The variable `err`
belongs to all of them: `handleTrack` of `srs` assigns to it and tests it (`opened`,
`inner`), and the `OnTrack` callback of both assigns its result to it and tests it again
(`tested`, `outer`), each a step.  Reading `err` once more in `errors.Wrapf` right after its
test is part of the test.  A dump that cannot be opened, which only `srs` has, leaves a nil
writer in a non-nil interface (`file[t] = "broken"`); using it, in `WriteRTP` or the deferred
`Close`, ends the process (`Crash`).  The calls of a Janus player before its answer are one
step each of `"request"`, `"discover"` and `"subscribe"`, of which `JanusPlay` has the details;
its poller is there again because Close waits for it while tracks are running.

`PlayerEnds`: an interrupted player ends; handlers are not waited for, but end once the
connection is closed; and a track that fails ends a Janus player, since there the tracks
assign nil only when `ctx` is done.  Of `srs` that last part is false: see Findings.
`FailureKept` is that part as an invariant, and `ReturnLeavesNothing` what startPlay leaves
when it returns: both are proved only.  The
append to `receivers` is left out: closing the connection stops every receiver anyway.  A
DTLS failure without an ICE failure is not seen by the player, so nothing in the model
reacts to one.

### BackendService and ServicePromise

`run` is the goroutine that calls `Run`, `waiter`, `killer` and `timer` the three it
counts in `v.wg`, `assassin` the one that nobody counts and that sends SIGKILL after
three seconds.  The process may exit by itself at any time, well or badly, or hang
until it is killed.  `RunLeavesNothing` reads the comment of the two callbacks,
"Always callback when run is called", as what an owner needs of it: each once, and no
process or goroutine behind.  `KeepsPromise` says that all of it implements
`ServicePromise`, in which a process is gone and its owner told in one step, and a
case is ended by nobody who does not know how the process ended.  (`Others`, the rest of a case,
may end any context at any time, so a run of one process says nothing of who else ended it; who
does in a test is in `BlackboxCase`.)  `OwnerRelies` is what an
owner gets of that, and is proved only: after Run the process is gone, and before the case is
over the answer of Run is that of the process.

### HooksService and BlackboxCase

A test is modelled on `ServicePromise`, once for each of its processes (server,
FFmpeg, the FFmpeg that records, FFprobe), so that `BackendService` need not be
multiplied four times; what the clients add to a process is a predicate on its
step (`Runs`): FFmpeg's exit status is ignored, FFprobe parses in `onStop`.
`done` holds the contexts that are done; `Below` which are below which.
`dvrBySrs` tells the two kinds of tests apart.  `CrashReported`: a process whose bad
end ended the case fails the test.  `RecordedBeforeProbed`: the file is not probed
while a process writes it, whatever the timeouts and retries.  `CaseEnds`: the test
ends, except when the directory of the server cannot be made.

### TestPublisher, TestPlayer and RtcTest

`sender[m]`, `ready[m]`, `ingester[m]` and `reader[m]` are what belongs to one medium of
the publisher, `closer` the goroutine that waits for each ingester before it stops its
sender, `pubTold` and `playTold` what pion's callback goroutines are told and have not
acted on.  `ctx` is the context of the test with the reason why it is done, as far as
it matters to the verdict: a timeout, a failure of the publisher or the setup, or
anything else.  `RtcTest` adds the goroutines of the test and its deferred calls.
`NotClosedInUse` covers the comment of `srs/util.go:1281`, and the closing of both
clients; `FailureFails` the verdict.  `TestEnds`: of all the waits of its goroutines one only
may last, that of `Run` for a goroutine that reads the RTCP of a stopped sender (`OnlyReads`).
The comment of `srs/util.go:1364` says that its `Read` may block "so that the Stop() can not stop
it", and `Run` does not close its connection before `wg.Wait`; so nothing is assumed of that
`Read`, and whether it returns decides whether such a test ends (see Findings).
`FailureFails` leaves the player out: the nil of a track that ends replaces the error
of another (`srs/util.go:930`), so the code may lose it.  The flags that make a test
ignore errors (`ignorePCStateError` and the like) and the packets are left out.

### RtmpTest

`publisher` is the goroutine that calls `Ingest`, once or for two files, `player` the one
that calls `Consume`; `ingestCloser` and `playCloser` are the goroutines beside them, which
alone look at a context and close the transport.  `kind` is the test: played by RTMP, by
HTTP-FLV, or two files, where the first ingest has a context of its own and
`closeTransportWhenIngestDone` off.  `errs` are the results the test looks at, filtered as
`filterTestError` does.  `TransportKept`: the connection survives from file to file.
`PassesIfPlayed`: a test that had its packets does not fail because its clients were closed
under them, and one that had not does not pass.  `RtmpTestEnds`: tests are over after their
timeout whatever the server does, except in the exchanges of connecting, which do not look
at a context, and during the first of two files.

### UdpProxy

A worker is named by the call of `Proxy` that started it, since two racing calls start two
for one server.  `vnetSocket` and `reader` belong to a worker, `owner`, `realSocket` and `echo`
to an endpoint, which is a numbered real socket with the worker and client it is for.
`close`, `visited` and `late` follow the Range of `Close` through a map that grows meanwhile.
`CloseWaits`: nothing of a worker that ran when `Close` came to it runs after it was waited
for.  `CloseEnds`: `Close` returns, and what it came to ends, a worker that was still being
set up included, and stays so.  Packets that were queued when a socket was closed may still be
read before the error; there are finitely many of them, so the reader comes to the error at last,
the one assumption of strong fairness here.  `OneAddress`, that a server sees a client under one address, is proved only.
`Deliver` writes to a socket and changes no state of the proxy.

### TcpProxy

A direction is named by the end it reads from; `pending` counts what that end has sent and
the other has not got.  `far` lets an end close half or leave.  `CopiedWhole`: an end that
closes its half has had everything passed on before the other is closed.  `EitherEndsBoth`:
the end of either closes both, and `serve` returns, unless a failed dial for another client
has ended the program.

## Runs

| Run | Question | Bounds | States |
|---|---|---|---|
| `janus_session` | safety, refinement and liveness of a session | attach, a message call, a call whose event nobody waits for, one notice | 18,599 |
| `janus_play` | a viewer with its helper | its six calls, one notice | 68,303 |
| `bench` | launching, counting, ending, returning, of three benchmarks | two clients, either a player or a publisher; stat server or not | 8,779 |
| `gb_session` | the device as Run drives it, a Bye from a heartbeat | one INVITE, two heartbeats | 113,156 |
| `clients` | a WebRTC publisher of either kind; an RTMP test | audio and video; three kinds of tests | 6,550 |
| `rtc_play` | a WebRTC player of either kind | audio and video | 62,175 |
| `helpers` | packs and clocks; frames on the wire; the H.265 scanner; the two proxies | see below | 192,576 |
| `backend` | one process, safety and refinement | none | 1,856 |
| `bb_case` | a test of four processes | two recordings, one event of the hooks | 445,912 |
| `rtc_test` | a publisher, a player and their test | audio and video sent, the video played | 791,631 |
| `gb_bye_stolen`, `rtc_track_lost` | findings | as `gb_session` and `rtc_play` | |

Two outstanding calls are what it takes for an answer to meet the wrong caller,
and one abandoned call what it takes to block a poller; one notice passes
between them in any order.  Two heartbeats let a heartbeat be left over from a
failed one; a second INVITE, which the module allows, would make the run too long
and only add a request that ends InviteResponse.  Two clients of a benchmark have one
starting or running while another leaves.  Two tracks are all a player has.  A
second recording is one that starts after a failed one.  One played track is
enough for what `rtc_test` asks: the verdict does not depend on which track failed.

In `helpers`:

* Packs and clocks: 20 frames each, 25 fps, 44.1 kHz, two parameter sets.  They make some
  eighteen packs, with one audio frame in most of them and two in some; 90000 * 1024 * n
  has to stay in the 32 bits of the checker, hence 20.
* Frames on the wire: three frames, with the sizes of the code scaled down (pieces of 6
  bytes for 1400, 8 peeked for 1031, a length field of 40 for 65536, sequence numbers
  modulo 4).  NALs are shorter than a piece, a multiple of one with the start code, and
  longer; ADTS frames at and beyond what is peeked; the sequence number wraps.
* The scanner: every file of up to three NALs of four kinds, behind start codes of
  three and four bytes, with zeros inside and an SEI anywhere, and four files
  that are malformed.
* The UDP proxy: two callers, for one server or two, one client, two sockets: a race of
  two callers for one address, a worker stored while `Close` ranges, and an endpoint each.
* The TCP proxy: two clients, so that a dial may fail beside a running one, and one chunk
  in flight each way, which is what a direction can lose.

`CHECK_DEADLOCK FALSE` everywhere: the systems end.

Fairness is weak fairness of goroutine steps (the Go scheduler; strong only for the read of
a closed socket of the UDP proxy, see there), of timers and of net/http returning when its context is done.  `janus_session` and `janus_play`
assume that the server answers what it accepted, and `bench` that a live server
answers or hangs up; a WebRTC client of `bench` is only assumed to leave when its context is
done, which `clients` and `rtc_play` show.  The GB and WebRTC clients assume nothing of the
server, only that a read returns once its connection is closed (for `startPublish`, which closes
it first), and that the requests by which a Janus publisher undoes its calls come back.  The
regression tests do not assume it: their publisher stops its senders and leaves the connection
open, and `TestEnds` names the goroutine that may be left.  The RTMP tests assume
nothing of the server either: the timer fires, and a closed transport or a context that is
done ends a write, a read or a request.  The UDP proxy needs only its goroutines to run and
reads of closed sockets to return; the TCP proxy also that the far ends read, or a write
could block.  `backend` assumes that a process dies of SIGKILL, `bb_case` that it is gone some
time after its context is done, which is what `backend` shows.  In `bb_case` and `rtc_test` one
condition covers all steps together, which is less than the scheduler gives: once the
timeout has fired every goroutine has finitely many steps left.  No fairness makes a
caller begin, a user interrupt, a process exit or a connection fail.

Each module has one type invariant; runs do not spend time on it, since the proofs below
state it or use it.

## Proved

`Janus_proof` proves `TypeOK`, `VerdictRespected`, `AnswerNotLost`,
`AnswerNotDuplicated`, `PollerNotBlocked` and `KeepsPromise` for any set of
transactions, operations, handles and any number of notices, from
`ConstantsAssumption`.  The invariant is the conjunction `AnswerInv`: the
placement of answers is inductive only together with `Consistent`, which says
that an event carries the verdict of its transaction wherever it is, that a
transaction is registered before its request can be accepted, and that nothing
is decided before it was accepted.  `PollerNotBlocked` then is a corollary: a second
event for a full channel would be a duplicate.  The refinement maps each step to
`PBegin`, `PDecide`, `PSucceed`, `PFail` or a stutter.

It also shows that a viewer takes only steps of `JanusApi`
(`PlayUsesSession`), so the above holds of it (`PlayKeepsPromise`), and proves that startPlay returns with
nothing left (`PlayReturnsClean`) and that no publisher list is missed
(`PlayToldIsFound`): the invariant says that the helper has not begun its join before
the callback is installed, and that the callback stays until main leaves the discovery.

`GbSession_proof` proves `RequestIsOwn`, `AnswerNotLost`, `MediaIsInvited`, `QuietAfterClose`
and the types, for any number of heartbeats and dialogs, from the assumption that the
media callback does not call Bye (`LeaveBy # "media"`), without which the finding below
refutes two of them.  The argument: `OneCaller`, at most one goroutine is in a call, main
before the heartbeat exists and the heartbeat after; therefore (`OwnCalls`) the builder holds
what its caller put there and a response in the channel belongs to who reads it; `Invited`
follows main through the INVITE: an ACK is under way only for an answer that was accepted,
and main has sent none before its own; and the context of the heartbeat is never live after
Close, which makes it quiet.

`BenchRun_proof` proves `TypeOK`, `LaunchNotCut` and `NobodyCutOff` for any number of
clients and all programs.  `RunInv` adds who can have canceled which context and that
exactly the clients below `next` exist.  `CountInv` is the counting: a store that overwrites
nothing adds its client to those that count, or takes it from them, and every other step
leaves them.  Then a publisher behind the gate that finds zero is one of the last
(`GateIsLast`): main is through with launching, or somebody else has ended the run.

`Clients_proof` proves, of the publishers, `TypeOK`, `ReturnLeavesNothing` and
`MediaAfterConnected` for any media and both programs.  Its invariants say what exists at each
place of startPublish: no context, no callback and no goroutine before `Register` (`Early`), a
poller only behind a deferred Close (`SessionOpen`), no worker before `Start`
(`WorkersStarted`), and "connected" told only of a connection that has left "connecting"
(`ToldTried`).

Of the players it proves the types, what they leave (`PlayerLeavesNothing`) and, for Janus,
that a handler that has failed has ended the player (`TrackFailureKept`), for any tracks.  The
second rests on what each `nil` and `canceled` in `outcome` and `err` stands for: a context that
is done (`TrackVerdict`).  So a track that overwrites the error of the other between its
assignment and its test does so only in a player that ends anyway.  Of `srs`, where
handleTrack assigns nil as well when a dump opens, the same statement is false, and the
run `rtc_track_lost` shows how.  A player is there as an instance of its module, under the
name `Player`.

Of the RTMP and FLV tests it proves `RtmpTypeOK`, `TransportKept` and `PassesIfPlayed`, for all
kinds of them.  `RtmpInv` says how far the test is and whose turn it is of the two files
(`TestOrder`, `IngestOrder`): a goroutine beside an ingest is over before the next file begins,
which is why the flag that the caller sets again is not read by the wrong one; `ConnectionKept`
that the connection is closed only when the context of the test is done, and of two files by the
second; and `Blame` that a player that had all, an error or the timer ended that context, and
that no error comes of closing the connections.

`Helpers_proof` proves, of the media of a device, `TypeOK` and `LeadBounded` for any
sampling rates, any frame rate the code allows and any number of frames.  `VideoBounded` follows the loop:
a video frame is read only when the video is not ahead.  `AudioBounded` says the
same of the audio, but rounded times are not enough there: a tick of error could
be added in every pack.  The invariant compares the exact times, multiplied
crosswise by the sampling rates (`Behind`), and the lemmas about quotients lead
from one to the other.

Of the packs it proves `SentInOrder` (`PacksInOrder`), for any rates at which a frame lasts a
tick or more (`TicksAssumption`: with the 90000 ticks of the code, every frame rate) and any number of parameter
sets and frames.  `PackInv` describes a pack while it is filled: what it begins with
(`PackShape`), that its audio is in order and not later than the video but for the last frame,
which closes it (`PackTimes`), and that all of it is later than the pack sent before it
(`AfterSent`).  The clocks keep the order: times a tick apart or more before rounding down
differ after it.

Of the scanner it proves `H265TypeOK` and `ReadsNals`, for any number of NALs of any bytes (`ReadsEveryNal`),
from `FileAssumption`, which gives the bytes of a file their type.
`ScanInv` says that a file not yet begun is unread; that in the file the scanner is at one
NAL, or in the start code behind it (`Around`), its buffer is the file from there on, and the
NALs before that one are returned (`Within`); or that all are.  The zeros counted are zeros of
the file, and behind a NAL all that are there (`Zeros`).  So a 1 behind two zeros ends the
NAL only at the start code, since no NAL holds one or ends in a zero, and the zeros cut off
are those of the start code, two or three (`CodeFound`).  The places of the NALs are given
with the file, so no step is an induction over its bytes.

Of the writer it proves `PsTypeOK` and `ServerCanRead` for frames of any size and any number
of them (`ReadableForever`), from `PsAssumption`: a piece, and what is peeked of the audio,
with their headers, are below the 16 bits of a length, as 1400 and 1031 are.

Of the UDP proxy it proves `UdpTypeOK`, `OneAddress` and `CloseWaits` for any callers,
servers, clients and sockets.  `CloseWaits` needs that a stopped worker has no reader, that
only a reader makes endpoints, and that the wait group is entered before the goroutine runs.
Of the TCP proxy it proves `TcpTypeOK` and `CopiedWhole` for any connections and windows (`NothingCutOff`):
`CanceledByEnd` says that a connection ends only behind an end that shut its half or left,
`PassedOn` that where one has shut and the other has not, the goroutine that ended it had
passed everything on.

`BackendService_proof` proves `TypeOK` and `RunLeavesNothing`.  The module has no
constants, so the run has seen the same states; the proof gives the reason.
`BackendInv` says that the three goroutines exist together or not at all and that
Run calls `onStop` itself in the second case (`Launched`), how far the waiter is with
the process and its callback (`Waiting`), and that Close comes last (`Closing`).  Not
even the types hold without it: `stops` stays below two for these reasons only.  From the same
invariant, and `Answering`, which says who has given Run its answer, follows step by step
that Run does what `ServicePromise` allows (`DoesItsPart`), which is `KeepsPromise` without its
fairness.

`BlackboxCase_proof` proves `TypeOK`, `CrashReported` and `RecordedBeforeProbed` however often
FFprobe records, from `CaseAssumption`, which fixes the processes and contexts of a test and
asks that no context but its own ends the case.  `Running` says what Run has done at each
place, and that before its context is done it answers nothing but how its process ended;
`Owned` says which goroutine waits for which process; `CancelerKnows` follows from the two:
only a process whose end was told ends the case, its answer is how it ended, and the test
reports behind that answer.  It also connects the levels: a test does nothing to its processes
but what `ServicePromise` allows, and recording again (`CaseUsesServices`); what that
specification promises an owner, `OwnerRelies`, follows from it for any processes and contexts
(`PromiseRelies`), and for those of a test (`CaseRelies`).

`RtcTest_proof` proves `TypeOK`, `NotClosedInUse` and `FailureFails` of a regression test,
whatever media the server sends.  `Launched` says that the goroutines of the publisher exist
behind `Register` only and that Run returns behind them; `Canceled` what waits for the
context; `Unready` that an ingester that waits or opens its file is not ready, and that a
sender is stopped only when it is; `Known` where a failure that canceled the context is kept
until the test reports.  The types are not inductive without `Launched`: only an ingester
with a file makes itself ready.

Only model-checked are all liveness properties, which are out of the prover's reach, with the
fairness half of the `KeepsPromise` of `BackendService`.  Every invariant that a run checks is
also a theorem.

## Findings

* `gb_bye_stolen`: a Bye beside the heartbeat may lose its answer, and wait for its
  timeout.
* `rtc_track_lost`: the handlers of two tracks share `err`; the failure of one is
  overwritten by the other and the player waits on.

Noticed while modelling, and checked by no run:

* `Alive` is incremented and decremented without a lock (`live/live.go:174`): two
  updates at a time lose one, and a run with `-stat` may then not end by itself, or end
  beside a publisher that runs.
* `srs/util.go:1364` says of the goroutine that reads RTCP: "The Read() might block in
  r.rtcpInterceptor.Read(b, a), so that the Stop() can not stop it."  `Run` waits for it (line
  1388) and nothing closes the connection before, so by the comment a test may wait for ever,
  whatever its timeout.  The vendored pion disagrees with the comment: `Stop` of a sender that
  sends closes the stream it reads (`rtpsender.go:336`), which ends the `Read`; it closes
  none before `Send` (line 347), but `Send` runs in `SetRemoteDescription`, before the
  connection is up and anybody reads.  `TestEnds` holds by either account.
* The samples of the video a second are 1024*1000/fps (`gb28181/ingester.go:317`), so a
  frame lasts 90*fps ticks, 2250 at 25 fps, where the comment above it makes it 3600.
  `-fps 0`, the default of an optional flag, divides by zero.
* The live publisher closes after publishing whether `-cap` is given or not
  (`live/publisher.go:204` against the usage text in `live/live.go:73`).
* An INVITE whose body has no `y=` or no `m=video` ends the process
  (`gb28181/ingester.go:160`, `:164`), a state of `GbSession`.
* A Bye beside the heartbeat shares the request builder, and may send another
  method than it set.
* A dump that cannot be opened ends the process (`srs/player.go:179`, a state of
  `RtcPlay`).
* An interrupted Janus publisher does not unpublish or detach: the deferred calls use the
  context that is done (`janus/publisher.go:183`).  A poller that dies before the server
  told of the media path leaves the publisher waiting for an interrupt.
* Janus `startPlay` returns nil whatever ended it (`janus/player.go:228`).
* Of two workers that racing callers of `Proxy` start for one address the map keeps the
  last; the other is never closed, although `vnet/udpproxy.go:53` says Close stops all.
  `Proxy` is only called one after the other in the tests.  One refused write
  (`vnet/udpproxy.go:212`) ends the worker's reader for all its clients.
* One failed dial of the TCP proxy ends every connection (`tcpproxy/main.go:35`).
* The H.265 scanner drops an SEI inside a file and returns one that is last; an empty NAL
  ends the process in `parseHeader`.
* The last ADTS frames of a file, when less than 1031 bytes are left to peek, are not sent.
* RTMP `Ingest` returns an error only after its context is done, since it waits for the
  goroutine beside it (`srs/util.go:1603`): the `cancel` the test calls on that error is late.
  With `closeTransportWhenIngestDone` off nothing interrupts the first of two files.
* `err == io.EOF` in the two players never holds: the libraries wrap it.
* A black-box test may pass without having verified anything: FFmpeg's exit status is
  ignored, its end cancels the case (`blackbox/util.go:705`), and a canceled case is no
  error (`blackbox/util.go:126`).
* When the directory of the server cannot be made, `srsServer.Run` returns before
  anything could end `readyCtx` (`blackbox/util.go:533`), and the other clients of the
  test wait for ever.
* A hook request taken before the shutdown may send to the closed channel
  (`blackbox/util.go:1191`); net/http recovers it.  `dvrFile` is written by the goroutine
  that reads the events while FFprobe reads it.
* The second opening of a file, at its end, is not protected from the closing of its
  sender (`srs/util.go:1328`): `ready` is done since the first.
* An empty audio or video file name ends a regression test at once: the goroutine
  that has nothing to send cancels it when it returns (`srs/util.go:1298`).
* In tests of two clients `Setup` is called by an option, before `newTestPublisher`
  appends the interceptors of the ingesters to the options `Setup` applies
  (`srs/util.go:1090`, `srs/util.go:757`): they are never registered.
* A request that the end of the test cuts is a `url.Error`, and fails the test that
  was complete.

## What is left

Modelled are the scenarios, their clients, the test clients and the helpers listed above.
What could be added, in the order of what it would show:

1. The ways RTMP tests play by WebRTC: `RtmpTest` with the player of `TestPlayer`.
2. The grouping of H.264 NALs into frames (`srs/ingester.go`, `VideoIngester`) and the
   interceptors that stamp headers: data, sequential, without a shared state but the
   ingester's `markerInterceptor`.
3. A GB device with a second INVITE beside the first, in a run of its own.

Not modelled, and why: flag parsing and logging (no property), the pcap replayer
(a sequential loop over a file), the stat APIs (they read counters), `janus/util.go` (a copy
of the test clients of `srs/util.go` with no test beside it), vendored libraries (environment),
media payloads and the bytes of fixed headers.  The WHIP exchange of `srs/api.go` is one step,
an answer or a failure, wherever a client makes it.
