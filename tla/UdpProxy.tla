------------------------------- MODULE UdpProxy -------------------------------
(***************************************************************************)
(* The proxy between the virtual network of the tests and real servers     *)
(* (vnet/udpproxy.go).  Proxy starts one worker for a server: a socket in  *)
(* the virtual network with the server's address, and a goroutine that     *)
(* reads it.  For every client it hears from the worker dials a real       *)
(* socket, whose address is what the server knows the client by, and       *)
(* starts a goroutine that brings the answers back.  Close stops the       *)
(* workers in the map and waits for their goroutines.                      *)
(*                                                                         *)
(* A call of Proxy starts at most one worker, so workers are named by      *)
(* their callers.  A packet is the client that sent it.                    *)
(***************************************************************************)
EXTENDS Naturals

CONSTANTS
  Caller,  \* the calls of Proxy
  Server,  \* the addresses of the real servers
  Client,  \* the addresses in the virtual network
  Socket,  \* the real sockets there can be, numbered
  NoOne    \* no worker, no client

ASSUME UdpAssumption ==
  /\ Socket \subseteq Nat
  /\ NoOne \notin Caller \cup Client \cup (Caller \X Client)

VARIABLES
  target,    \* [Caller -> Server]: what each call is for
  proxy,     \* [Caller -> Proxying]: where each call is
  workers,   \* [Server -> Caller or NoOne]: the map of workers
  disposed,  \* the workers whose context is done
  vnetSocket,\* [Caller -> SocketState]: the worker's socket in the virtual network
  reader,    \* [Caller -> ReaderState]: the goroutine that reads it
  packet,    \* [Caller -> Client or NoOne]: what it has read and not dealt with
  owner,     \* [Socket -> worker and client, or NoOne]: v.endpoints
  realSocket,\* [Socket -> SocketState]
  echo,      \* [Socket -> EchoState]: the goroutines that bring back answers
  close,     \* where Close is
  awaited,   \* the worker it waits for
  visited,   \* the servers its Range has been at
  late,      \* the servers stored since it began
  stopped    \* the workers that ran when Close came to them and were waited for

calls == <<target, proxy, workers>>
sockets == <<owner, realSocket, echo>>
closer == <<close, awaited, visited, late, stopped>>
udpVars == <<calls, disposed, vnetSocket, reader, packet, sockets, closer>>

Proxying == {"idle", "loaded", "setup", "returned"}
SocketState == {"none", "open", "closed"}
ReaderState == {"none", "read", "find", "write", "done"}
EchoState == {"none", "run", "done"}

UdpTypeOK ==
  /\ target \in [Caller -> Server]
  /\ proxy \in [Caller -> Proxying]
  /\ workers \in [Server -> Caller \cup {NoOne}]
  /\ disposed \subseteq Caller
  /\ vnetSocket \in [Caller -> SocketState]
  /\ reader \in [Caller -> ReaderState]
  /\ packet \in [Caller -> Client \cup {NoOne}]
  /\ owner \in [Socket -> (Caller \X Client) \cup {NoOne}]
  /\ realSocket \in [Socket -> SocketState]
  /\ echo \in [Socket -> EchoState]
  /\ close \in {"no", "range", "wait", "returned"}
  /\ awaited \in Caller \cup {NoOne}
  /\ visited \subseteq Server /\ late \subseteq Server
  /\ stopped \subseteq Caller

UdpInit ==
  /\ target \in [Caller -> Server]
  /\ proxy = [w \in Caller |-> "idle"]
  /\ workers = [s \in Server |-> NoOne]
  /\ disposed = {}
  /\ vnetSocket = [w \in Caller |-> "none"]
  /\ reader = [w \in Caller |-> "none"]
  /\ packet = [w \in Caller |-> NoOne]
  /\ owner = [i \in Socket |-> NoOne]
  /\ realSocket = [i \in Socket |-> "none"]
  /\ echo = [i \in Socket |-> "none"]
  /\ close = "no" /\ awaited = NoOne /\ visited = {} /\ late = {} /\ stopped = {}

-----------------------------------------------------------------------------
(* Proxy.                                                                   *)

\* There is a worker already, or none yet: another call may load as well.
Load(w) ==
  /\ proxy[w] = "idle"
  /\ proxy' = [proxy EXCEPT ![w] =
       IF workers[target[w]] = NoOne THEN "loaded" ELSE "returned"]
  /\ UNCHANGED <<target, workers, disposed, vnetSocket, reader, packet, sockets, closer>>

Store(w) ==
  /\ proxy[w] = "loaded"
  /\ proxy' = [proxy EXCEPT ![w] = "setup"]
  /\ workers' = [workers EXCEPT ![target[w]] = w]
  /\ late' = IF close = "no" THEN late ELSE late \cup {target[w]}
  /\ UNCHANGED <<target, disposed, vnetSocket, reader, packet, sockets,
                 close, awaited, visited, stopped>>

\* NewNet, AddNet and ListenUDP, then the goroutine.
Setup(w) ==
  /\ proxy[w] = "setup"
  /\ proxy' = [proxy EXCEPT ![w] = "returned"]
  /\ vnetSocket' = [vnetSocket EXCEPT ![w] = "open"]
  /\ reader' = [reader EXCEPT ![w] = "read"]
  /\ UNCHANGED <<target, workers, disposed, packet, sockets, closer>>

\* One of them fails: the worker stays in the map.
SetupFails(w) ==
  /\ proxy[w] = "setup"
  /\ proxy' = [proxy EXCEPT ![w] = "returned"]
  /\ UNCHANGED <<target, workers, disposed, vnetSocket, reader, packet, sockets, closer>>

-----------------------------------------------------------------------------
(* A worker: its reader and the goroutines of its endpoints.                *)

\* A packet from c, at once or queued since, also one that was queued when the
\* socket was closed. (The router hands packets to the last worker of a server.)
Read(w, c) ==
  /\ reader[w] = "read"
  /\ reader' = [reader EXCEPT ![w] = "find"]
  /\ packet' = [packet EXCEPT ![w] = c]
  /\ UNCHANGED <<calls, disposed, vnetSocket, sockets, closer>>

ReadFails(w) ==
  /\ reader[w] = "read" /\ vnetSocket[w] = "closed"
  /\ reader' = [reader EXCEPT ![w] = "done"]
  /\ UNCHANGED <<calls, disposed, vnetSocket, packet, sockets, closer>>

\* The endpoint of the client that sent what w has read.
IsEndpoint(i, w) == owner[i] = <<w, packet[w]>>

Reuse(w) ==
  /\ reader[w] = "find" /\ \E i \in Socket : IsEndpoint(i, w)
  /\ reader' = [reader EXCEPT ![w] = "write"]
  /\ UNCHANGED <<calls, disposed, vnetSocket, packet, sockets, closer>>

\* Sockets are taken in their order.
Unused(i) == owner[i] = NoOne /\ \A j \in Socket : owner[j] = NoOne => i <= j

Dial(w, i) ==
  /\ reader[w] = "find" /\ ~\E j \in Socket : IsEndpoint(j, w)
  /\ Unused(i)
  /\ reader' = [reader EXCEPT ![w] = "write"]
  /\ owner' = [owner EXCEPT ![i] = <<w, packet[w]>>]
  /\ realSocket' = [realSocket EXCEPT ![i] = "open"]
  /\ echo' = [echo EXCEPT ![i] = "run"]
  /\ UNCHANGED <<calls, disposed, vnetSocket, packet, closer>>

\* The packet is dropped.
DialFails(w) ==
  /\ reader[w] = "find" /\ ~\E i \in Socket : IsEndpoint(i, w)
  /\ reader' = [reader EXCEPT ![w] = "read"] /\ packet' = [packet EXCEPT ![w] = NoOne]
  /\ UNCHANGED <<calls, disposed, vnetSocket, sockets, closer>>

Write(w) ==
  /\ reader[w] = "write" /\ \E i \in Socket : IsEndpoint(i, w) /\ realSocket[i] = "open"
  /\ reader' = [reader EXCEPT ![w] = "read"] /\ packet' = [packet EXCEPT ![w] = NoOne]
  /\ UNCHANGED <<calls, disposed, vnetSocket, sockets, closer>>

\* The socket is closed, or the server refused an earlier packet: the worker
\* reads no more, from any client.
WriteFails(w) ==
  /\ reader[w] = "write"
  /\ reader' = [reader EXCEPT ![w] = "done"] /\ packet' = [packet EXCEPT ![w] = NoOne]
  /\ UNCHANGED <<calls, disposed, vnetSocket, sockets, closer>>

\* A goroutine that brings back answers, which changes nothing here, ends:
\* either socket is closed, or the server refused a packet.
EchoFails(i) ==
  /\ echo[i] = "run"
  /\ echo' = [echo EXCEPT ![i] = "done"]
  /\ UNCHANGED <<calls, disposed, vnetSocket, reader, packet, owner, realSocket, closer>>

\* Two goroutines that wait for the context, not for each other.
CloseVnet(w) ==
  /\ w \in disposed /\ vnetSocket[w] = "open"
  /\ vnetSocket' = [vnetSocket EXCEPT ![w] = "closed"]
  /\ UNCHANGED <<calls, disposed, reader, packet, sockets, closer>>

\* Mutant: the socket to the server is closed by nobody.
CloseRealNever(i) ==
  /\ realSocket[i] = "open" /\ owner[i][1] \in disposed
  /\ UNCHANGED udpVars

CloseReal(i) ==
  /\ realSocket[i] = "open" /\ owner[i][1] \in disposed
  /\ realSocket' = [realSocket EXCEPT ![i] = "closed"]
  /\ UNCHANGED <<calls, disposed, vnetSocket, reader, packet, owner, echo, closer>>

-----------------------------------------------------------------------------
(* Close: Range over the map, for each worker cancel and wg.Wait.           *)

CloseBegins ==
  /\ close = "no"
  /\ close' = "range"
  /\ UNCHANGED <<calls, disposed, vnetSocket, reader, packet, sockets,
                 awaited, visited, late, stopped>>

Visit(s) ==
  /\ close = "range" /\ s \notin visited /\ workers[s] # NoOne
  /\ close' = "wait" /\ awaited' = workers[s]
  /\ visited' = visited \cup {s} /\ disposed' = disposed \cup {workers[s]}
  /\ UNCHANGED <<calls, vnetSocket, reader, packet, sockets, late, stopped>>

\* Mutant: only the reader is in the wait group.
WaitedForReader ==
  /\ close = "wait" /\ reader[awaited] \in {"none", "done"}
  /\ close' = "range"
  /\ stopped' = IF proxy[awaited] = "returned" THEN stopped \cup {awaited} ELSE stopped
  /\ awaited' = NoOne
  /\ UNCHANGED <<calls, disposed, vnetSocket, reader, packet, sockets, visited, late>>

\* What wg counts: the reader, and the goroutines of the sockets it dialed.
Ended(w) ==
  /\ reader[w] \in {"none", "done"}
  /\ \A i \in Socket : \A c \in Client : owner[i] = <<w, c>> => echo[i] = "done"

\* A worker that is still being set up has nothing to wait for yet.
Waited ==
  /\ close = "wait" /\ Ended(awaited)
  /\ close' = "range"
  /\ stopped' = IF proxy[awaited] = "returned" THEN stopped \cup {awaited} ELSE stopped
  /\ awaited' = NoOne
  /\ UNCHANGED <<calls, disposed, vnetSocket, reader, packet, sockets, visited, late>>

\* Range need not come to what was stored after it began.
CloseReturns ==
  /\ close = "range"
  /\ \A s \in Server : workers[s] # NoOne => s \in visited \cup late
  /\ close' = "returned"
  /\ UNCHANGED <<calls, disposed, vnetSocket, reader, packet, sockets,
                 awaited, visited, late, stopped>>

-----------------------------------------------------------------------------

ProxyStep(w) == Load(w) \/ Store(w) \/ Setup(w) \/ SetupFails(w)

ReaderStep(w) ==
  \/ \E c \in Client : Read(w, c)
  \/ ReadFails(w) \/ Reuse(w) \/ DialFails(w) \/ Write(w) \/ WriteFails(w)
  \/ \E i \in Socket : Dial(w, i)

EndpointStep(i) == EchoFails(i) \/ CloseReal(i)

CloseStep == (\E s \in Server : Visit(s)) \/ Waited \/ CloseReturns

UdpNext ==
  \/ \E w \in Caller : ProxyStep(w) \/ ReaderStep(w) \/ CloseVnet(w)
  \/ \E i \in Socket : EndpointStep(i)
  \/ CloseBegins \/ CloseStep

UdpSpec == UdpInit /\ [][UdpNext]_udpVars

\* Goroutines run, and a read of a closed socket fails, behind the packets that
\* were queued: they are finitely many, so however often it does not, it does
\* (SF). Nobody has to send, and nobody has to call Proxy or Close.
UdpFairness ==
  /\ \A w \in Caller :
       /\ WF_udpVars(Store(w) \/ Setup(w) \/ SetupFails(w))
       /\ SF_udpVars(ReadFails(w))
       /\ WF_udpVars(reader[w] # "read" /\ ReaderStep(w))
       /\ WF_udpVars(CloseVnet(w))
  /\ \A i \in Socket :
       /\ WF_udpVars(CloseReal(i))
       /\ WF_udpVars(realSocket[i] = "closed" /\ EchoFails(i))
  /\ WF_udpVars(CloseStep)

-----------------------------------------------------------------------------
(* Properties.                                                              *)

\* A server knows a client by one address as long as it has one worker: "the
\* address should not changed" (udpproxy_test.go). Only the reader stores, and
\* it looks first.
OneAddress ==
  \A i, j \in Socket : owner[i] = owner[j] /\ owner[i] # NoOne => i = j

\* Close has waited for all that a running worker started, the goroutines of
\* clients that came while it waited included: nothing of it runs afterwards.
CloseWaits == \A w \in stopped : Ended(w)

\* Close returns, and everything of the workers it came to ends and is closed,
\* of those that were still being set up as well, and stays so.
CloseEnds ==
  <>[](/\ close \in {"no", "returned"}
       /\ \A w \in disposed :
            /\ proxy[w] = "returned" /\ Ended(w) /\ vnetSocket[w] # "open"
            /\ \A i \in Socket : \A c \in Client :
                 owner[i] = <<w, c>> => realSocket[i] = "closed")
=============================================================================
