--------------------------- MODULE ServicePromise ---------------------------
(* What the owner of a process may rely on when it calls Run of backendService
   (blackbox/util.go), for several processes at once: onStop is called whenever
   Run is, the case is ended by nobody who does not know how the process ended,
   and Run returns with nothing left.                                        *)

CONSTANTS
  Service,   \* the processes of one case
  Context,   \* the contexts of the case
  CtxOf,     \* the context, with its cancel function, that Run is given
  Below      \* the contexts that are done when one is: itself and its children

ASSUME ServiceAssumption ==
  /\ CtxOf \in [Service -> Context]
  /\ Below \in [Context -> SUBSET Context]
  /\ \A c \in Context : c \in Below[c]

VARIABLES
  done,      \* the contexts that are done
  run,       \* Run of a service
  process,   \* the process: "gone" when it has ended, or was "never" started,
             \* and onStop was called
  r0,        \* how the process ended
  result     \* what Run returns

promiseVars == <<done, run, process, r0, result>>

PTypeOK ==
  /\ done \subseteq Context
  /\ run \in [Service -> {"idle", "called", "returned"}]
  /\ process \in [Service -> {"none", "running", "gone", "never"}]
  /\ r0 \in [Service -> {"nil", "error"}]
  /\ result \in [Service -> {"none", "nil", "error", "canceled"}]

PInit ==
  /\ done = {}
  /\ run = [s \in Service |-> "idle"] /\ process = [s \in Service |-> "none"]
  /\ r0 = [s \in Service |-> "nil"] /\ result = [s \in Service |-> "none"]

CtxDone(s) == CtxOf[s] \in done
EndContext(c) == done' = done \cup Below[c]

(* onStop was called. *)
Told(s) == process[s] \in {"gone", "never"}

Called(s) ==
  /\ run[s] = "idle"
  /\ run' = [run EXCEPT ![s] = "called"]
  /\ UNCHANGED <<done, process, r0, result>>

(* The context is done already, or there is no such program. *)
NotStarted(s) ==
  /\ run[s] = "called" /\ process[s] = "none"
  /\ process' = [process EXCEPT ![s] = "never"]
  /\ \/ CtxDone(s) /\ result' = [result EXCEPT ![s] = "canceled"]
     \/ result' = [result EXCEPT ![s] = "error"]
  /\ UNCHANGED <<done, run, r0>>

Started(s) ==
  /\ run[s] = "called" /\ process[s] = "none"
  /\ process' = [process EXCEPT ![s] = "running"]
  /\ UNCHANGED <<done, run, r0, result>>

Gone(s) ==
  /\ process[s] = "running"
  /\ process' = [process EXCEPT ![s] = "gone"]
  /\ \E err \in {"nil", "error"} : r0' = [r0 EXCEPT ![s] = err]
  /\ UNCHANGED <<done, run, result>>

Cancels(s) ==
  /\ Told(s) /\ ~CtxDone(s)
  /\ EndContext(CtxOf[s])
  /\ UNCHANGED <<run, process, r0, result>>

(* When another has ended the case the error may still be unknown. *)
Answers(s) ==
  /\ run[s] = "called" /\ process[s] # "none" /\ result[s] = "none"
  /\ \/ Told(s) /\ result' = [result EXCEPT ![s] = r0[s]]
     \/ /\ ~Told(s) /\ CtxDone(s)
        /\ \E err \in {"nil", "error"} : result' = [result EXCEPT ![s] = err]
  /\ UNCHANGED <<done, run, process, r0>>

Returned(s) ==
  /\ run[s] = "called" /\ result[s] # "none" /\ Told(s) /\ CtxDone(s)
  /\ run' = [run EXCEPT ![s] = "returned"]
  /\ UNCHANGED <<done, process, r0, result>>

(* What Run does once it is called. *)
PStep(s) ==
  NotStarted(s) \/ Started(s) \/ Gone(s) \/ Cancels(s) \/ Answers(s) \/ Returned(s)

(* The rest of the case may end a context at any time. *)
Others ==
  /\ \E c \in Context : EndContext(c)
  /\ UNCHANGED <<run, process, r0, result>>

PNext == Others \/ \E s \in Service : Called(s) \/ PStep(s)

PSpec == PInit /\ [][PNext]_promiseVars

(* What an owner may rely on: Run returns behind its process and onStop, in a case
   that is over; nil is an answer of a process that was started; and unless the
   case is over, what Run answers of a process is how that ended (Run, which
   returns r0 of the process before the error of its context).               *)
OwnerRelies ==
  \A s \in Service :
    /\ run[s] = "returned" => Told(s) /\ CtxDone(s) /\ result[s] # "none"
    /\ result[s] = "nil" => process[s] \in {"running", "gone"}
    /\ result[s] # "none" /\ ~CtxDone(s) /\ process[s] # "never" =>
         process[s] = "gone" /\ result[s] = r0[s]

(* Run gets on, and once the context is done the process is killed in the end. *)
Ends(s) ==
  \/ NotStarted(s) \/ Started(s) \/ Cancels(s) \/ Answers(s) \/ Returned(s)
  \/ (CtxDone(s) /\ Gone(s))

PFairSpec == PSpec /\ \A s \in Service : WF_promiseVars(Ends(s))
=============================================================================
