---------------------------- MODULE HooksService ----------------------------
(* The HTTP service that a black-box test runs to be told of recorded files
   (hooksService in blackbox/util.go), within the contexts of the case.      *)
EXTENDS ServicePromise, Naturals

VARIABLES
  hooks,      \* where Run is
  listener,   \* the goroutine of the HTTP server
  hooksReady, \* readyCtx
  hooksError, \* r0
  events,     \* how many events are in the channel hooksOnDvr
  handed      \* how many were put there

hookVars == <<hooks, listener, hooksReady, hooksError, events, handed>>

HooksTypeOK ==
  /\ hooks \in {"unused", "wait", "returned"}
  /\ listener \in {"serve", "done"}
  /\ hooksReady \in BOOLEAN /\ hooksError \in BOOLEAN
  /\ events \in 0..1 /\ handed \in 0..1

HooksInit(used) ==
  /\ hooks = IF used THEN "wait" ELSE "unused"
  /\ listener = IF used THEN "serve" ELSE "done"
  /\ hooksReady = FALSE /\ hooksError = FALSE /\ events = 0 /\ handed = 0

(* The port cannot be listened on: the case is canceled. *)
ListenFails ==
  /\ listener = "serve" /\ ~hooksReady
  /\ listener' = "done" /\ hooksError' = TRUE
  /\ EndContext("case")
  /\ UNCHANGED <<hooks, hooksReady, events, handed>>

(* A third goroutine shuts the server down when the case is done. *)
Shutdown ==
  /\ listener = "serve" /\ "case" \in done
  /\ listener' = "done"
  /\ UNCHANGED <<done, hooks, hooksReady, hooksError, events, handed>>

(* A second one polls it until it answers or the case is done. *)
Ping ==
  /\ listener = "serve" /\ ~hooksReady
  /\ hooksReady' = TRUE
  /\ UNCHANGED <<done, hooks, listener, hooksError, events, handed>>

(* wg.Wait, then readyCancel and dispose, which closes the channel. *)
HooksReturn ==
  /\ hooks = "wait" /\ listener = "done" /\ "case" \in done
  /\ hooks' = "returned" /\ hooksReady' = TRUE
  /\ UNCHANGED <<done, listener, hooksError, events, handed>>

(* Mutant: dispose frees the port and leaves the channel open. *)
NeverClosed == FALSE

Closed == hooks = "returned"

(* on_dvr.  A request that the server took before its shutdown may find the case
   done or the channel closed; net/http recovers the latter, and the event is
   lost.  A session is recorded to one file.                                 *)
OnDvr ==
  /\ listener = "serve" /\ handed = 0
  /\ handed' = 1 /\ events' = 1
  /\ UNCHANGED <<done, hooks, listener, hooksReady, hooksError>>

HooksStep == ListenFails \/ Shutdown \/ Ping \/ HooksReturn
=============================================================================
