------------------------------- MODULE TcpProxy -------------------------------
(***************************************************************************)
(* The RTMP proxy (tcpproxy/main.go).  The main goroutine accepts clients, *)
(* dials the backend for each and starts serve, which copies both          *)
(* directions, each in a goroutine that cancels the connection's context   *)
(* when it ends; a third one then closes both sockets.  A failed dial ends *)
(* the program (doMain returns, main panics).                              *)
(*                                                                         *)
(* A direction is named by the far end it reads from; data are counted in  *)
(* chunks, one a Read.                                                     *)
(***************************************************************************)
EXTENDS Naturals

CONSTANTS
  Conn,   \* the clients
  Window  \* the chunks a far end can be ahead of the other (bounds the model)

ASSUME TcpAssumption == Window \in Nat

Side == {"client", "backend"}
Other == [client |-> "backend", backend |-> "client"]

VARIABLES
  program,  \* the process
  served,   \* [Conn -> ...]: serve of each client
  far,      \* [Conn -> [Side -> Far]]: the programs at the other ends
  pending,  \* [Conn -> [Side -> Nat]]: the chunks each has sent that are not
            \* yet written to the other, the one its copier holds included
  copier,   \* [Conn -> [Side -> ...]]: the two copying goroutines
  canceled, \* the connections whose context is done
  socket    \* [Conn -> ...]: the two sockets of a connection

ends == <<far, pending>>
tcpVars == <<program, served, ends, copier, canceled, socket>>

\* "shut" sends no more but reads on, "gone" neither.
Far == {"open", "shut", "gone"}

TcpTypeOK ==
  /\ program \in {"accept", "exited"}
  /\ served \in [Conn -> {"none", "dial", "serve", "returned"}]
  /\ far \in [Conn -> [Side -> Far]]
  /\ pending \in [Conn -> [Side -> 0 .. Window]]
  /\ copier \in [Conn -> [Side -> {"none", "read", "write", "done"}]]
  /\ canceled \subseteq Conn
  /\ socket \in [Conn -> {"none", "open", "closed"}]

Both(x) == [d \in Side |-> x]

TcpInit ==
  /\ program = "accept"
  /\ served = [k \in Conn |-> "none"]
  /\ far = [k \in Conn |-> Both("open")] /\ pending = [k \in Conn |-> Both(0)]
  /\ copier = [k \in Conn |-> Both("none")]
  /\ canceled = {} /\ socket = [k \in Conn |-> "none"]

-----------------------------------------------------------------------------
(* Main and serve.                                                          *)

\* One client at a time: the loop dials before it accepts the next.
Accept(k) ==
  /\ program = "accept" /\ served[k] = "none" /\ \A j \in Conn : served[j] # "dial"
  /\ served' = [served EXCEPT ![k] = "dial"]
  /\ UNCHANGED <<program, ends, copier, canceled, socket>>

Dialed(k) ==
  /\ program = "accept" /\ served[k] = "dial"
  /\ served' = [served EXCEPT ![k] = "serve"]
  /\ socket' = [socket EXCEPT ![k] = "open"]
  /\ copier' = [copier EXCEPT ![k] = Both("read")]
  /\ UNCHANGED <<program, ends, canceled>>

\* The panic ends every connection.
BackendRefuses(k) ==
  /\ program = "accept" /\ served[k] = "dial"
  /\ program' = "exited"
  /\ UNCHANGED <<served, ends, copier, canceled, socket>>

Running(k) == program = "accept" /\ served[k] = "serve"

\* <-ctx.Done(), and both sockets are closed.
CloseBoth(k) ==
  /\ Running(k) /\ k \in canceled /\ socket[k] = "open"
  /\ socket' = [socket EXCEPT ![k] = "closed"]
  /\ UNCHANGED <<program, served, ends, copier, canceled>>

\* wg.Wait.
ServeReturns(k) ==
  /\ Running(k) /\ socket[k] = "closed" /\ copier[k] = Both("done")
  /\ served' = [served EXCEPT ![k] = "returned"]
  /\ UNCHANGED <<program, ends, copier, canceled, socket>>

-----------------------------------------------------------------------------
(* A copying goroutine.                                                     *)

Copier(k, d, state) == copier' = [copier EXCEPT ![k][d] = state]

CopyRead(k, d) ==
  /\ Running(k) /\ socket[k] = "open" /\ copier[k][d] = "read" /\ pending[k][d] > 0
  /\ Copier(k, d, "write")
  /\ UNCHANGED <<program, served, ends, canceled, socket>>

CopyWrite(k, d) ==
  /\ Running(k) /\ socket[k] = "open" /\ copier[k][d] = "write"
  /\ Copier(k, d, "read")
  /\ pending' = [pending EXCEPT ![k][d] = @ - 1]
  /\ UNCHANGED <<program, served, far, canceled, socket>>

\* Mutant: no cancel when a direction ends.
CopyEndsAlone(k, d) ==
  /\ Running(k)
  /\ Copier(k, d, "done")
  /\ UNCHANGED <<program, served, ends, canceled, socket>>

\* The deferred calls of the goroutine.
CopyEnds(k, d) ==
  /\ Running(k)
  /\ Copier(k, d, "done")
  /\ canceled' = canceled \cup {k}
  /\ UNCHANGED <<program, served, ends, socket>>

\* Mutant: the end of the stream is seen before the data.
CopyEofFirst(k, d) ==
  /\ copier[k][d] = "read" /\ socket[k] = "open" /\ far[k][d] # "open"
  /\ CopyEnds(k, d)

\* The end of the stream, after the data.
CopyEof(k, d) ==
  /\ copier[k][d] = "read" /\ socket[k] = "open"
  /\ far[k][d] # "open" /\ pending[k][d] = 0
  /\ CopyEnds(k, d)

\* The socket is closed, or the far end has left: a read may then fail before
\* the data, a write when the other has left.
CopyFails(k, d) ==
  /\ \/ copier[k][d] = "read" /\ (socket[k] = "closed" \/ far[k][d] = "gone")
     \/ copier[k][d] = "write" /\ (socket[k] = "closed" \/ far[k][Other[d]] = "gone")
  /\ CopyEnds(k, d)

-----------------------------------------------------------------------------
(* The far ends.                                                            *)

Connected(k) == program = "accept" /\ socket[k] = "open"

FarSends(k, d) ==
  /\ Connected(k) /\ far[k][d] = "open" /\ pending[k][d] < Window
  /\ pending' = [pending EXCEPT ![k][d] = @ + 1]
  /\ UNCHANGED <<program, served, far, copier, canceled, socket>>

FarEnds(k, d) ==
  /\ Connected(k) /\ far[k][d] # "gone"
  /\ \E state \in {"shut", "gone"} \ {far[k][d]} : far' = [far EXCEPT ![k][d] = state]
  /\ UNCHANGED <<program, served, pending, copier, canceled, socket>>

-----------------------------------------------------------------------------

CopyStep(k, d) ==
  CopyRead(k, d) \/ CopyWrite(k, d) \/ CopyEof(k, d) \/ CopyFails(k, d)

ServeStep(k) == Dialed(k) \/ BackendRefuses(k) \/ CloseBoth(k) \/ ServeReturns(k)

TcpNext ==
  \E k \in Conn :
    \/ Accept(k) \/ ServeStep(k)
    \/ \E d \in Side : CopyStep(k, d) \/ FarSends(k, d) \/ FarEnds(k, d)

TcpSpec == TcpInit /\ [][TcpNext]_tcpVars

\* Goroutines run, and the far ends read what they are sent: a Write does not
\* block for ever.
TcpFairness ==
  \A k \in Conn :
    /\ WF_tcpVars(ServeStep(k))
    /\ \A d \in Side : WF_tcpVars(CopyStep(k, d))

-----------------------------------------------------------------------------
(* Properties.                                                              *)

\* When one end has closed its stream and the other has not, what it sent has
\* reached the other whole before the proxy closes (the goroutine that reads
\* the end has written everything before it cancels).
CopiedWhole ==
  \A k \in Conn, d \in Side :
    served[k] = "returned" /\ far[k][d] = "shut" /\ far[k][Other[d]] = "open"
      => pending[k][d] = 0

\* When either end closes, both are closed and serve returns, unless another
\* client's failed dial has ended the program.
EitherEndsBoth ==
  \A k \in Conn : (\E d \in Side : far[k][d] # "open") ~>
    program = "exited" \/ (socket[k] = "closed" /\ served[k] = "returned")
=============================================================================
