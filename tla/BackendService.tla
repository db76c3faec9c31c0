--------------------------- MODULE BackendService ---------------------------
(* The process runner of the black-box tests (backendService in
   blackbox/util.go).  Run starts a process and three goroutines beside it: one
   waits for the process, one signals it when the case is done, one limits its
   time; Close, deferred by Run, cancels the case and waits for the three.  The
   process may exit by itself at any time; it may ignore SIGINT, not SIGKILL. *)
EXTENDS Naturals

VARIABLES
  ctx,          \* the context of the case
  limited,      \* whether duration is positive
  lenient,      \* ignoreExitStatusError
  run,          \* where Run is
  process,      \* the process: "failed" is an exit status other than 0
  signal,       \* the strongest signal it was sent
  waiter,       \* the goroutine that waits for the process
  killer,       \* the goroutine that waits for the case
  assassin,     \* the goroutine that kills after three seconds, in no wait group
  timer,        \* the goroutine that limits the time
  processDone,  \* the context of the process
  r0,           \* v.r0
  result,       \* what Run returned
  stops,        \* how often onStop was called
  disposals     \* how often onDispose was called

options == <<limited, lenient>>
child == <<process, signal>>
goroutines == <<waiter, killer, assassin, timer>>
outcome == <<r0, result, stops, disposals>>
vars == <<ctx, options, run, child, goroutines, processDone, outcome>>

Goroutine == {"none", "wait", "done"}

TypeOK ==
  /\ ctx \in {"live", "done"} /\ processDone \in {"live", "done"}
  /\ limited \in BOOLEAN /\ lenient \in BOOLEAN
  /\ run \in {"idle", "ignored", "start", "select", "leave", "wait", "returned"}
  /\ process \in {"none", "running", "exited", "failed", "reaped"}
  /\ signal \in {"none", "int", "kill"}
  /\ waiter \in Goroutine \cup {"stop", "notify", "cancel"}
  /\ killer \in Goroutine /\ timer \in Goroutine /\ assassin \in Goroutine
  /\ r0 \in {"nil", "error"} /\ result \in {"none", "nil", "error", "canceled"}
  /\ stops \in 0..1 /\ disposals \in 0..1

Init ==
  /\ ctx = "live" /\ processDone = "live"
  /\ limited \in BOOLEAN /\ lenient \in BOOLEAN
  /\ run = "idle" /\ process = "none" /\ signal = "none"
  /\ waiter = "none" /\ killer = "none" /\ assassin = "none" /\ timer = "none"
  /\ r0 = "nil" /\ result = "none" /\ stops = 0 /\ disposals = 0

-----------------------------------------------------------------------------
(* Run.                                                                      *)

Call ==
  /\ run = "idle"
  /\ run' = IF ctx = "done" THEN "ignored" ELSE "start"
  /\ UNCHANGED <<ctx, options, child, goroutines, processDone, outcome>>

(* The context was done: onStop, and Close has no case to cancel. *)
Ignore ==
  /\ run = "ignored"
  /\ run' = "wait" /\ result' = "canceled" /\ stops' = stops + 1
  /\ UNCHANGED <<ctx, options, child, goroutines, processDone, r0, disposals>>

(* The callbacks before and after the start never fail in this repository. *)
StartFails ==
  /\ run = "start"
  /\ run' = "leave" /\ result' = "error" /\ stops' = stops + 1
  /\ UNCHANGED <<ctx, options, child, goroutines, processDone, r0, disposals>>

Start ==
  /\ run = "start"
  /\ run' = "select" /\ process' = "running"
  /\ waiter' = "wait" /\ killer' = "wait" /\ timer' = IF limited THEN "wait" ELSE "done"
  /\ UNCHANGED <<ctx, options, signal, assassin, processDone, outcome>>

(* The value of r0 is read here; the process may still be running. *)
Select ==
  /\ run = "select" /\ "done" \in {ctx, processDone}
  /\ run' = "leave" /\ result' = r0
  /\ UNCHANGED <<ctx, options, child, goroutines, processDone, r0, stops, disposals>>

(* Close: cancel the case, wait for the three, dispose. *)
Leave ==
  /\ run = "leave"
  /\ run' = "wait" /\ ctx' = "done"
  /\ UNCHANGED <<options, child, goroutines, processDone, outcome>>

(* Mutant: the goroutine that waits for the process is not counted. *)
WaitGroupWithoutWaiter == {killer, timer}

WaitGroup == {waiter, killer, timer}

(* Mutant: Close calls onStop, too. *)
DisposeStopping ==
  /\ run = "wait" /\ WaitGroup \subseteq {"none", "done"}
  /\ run' = "returned" /\ disposals' = disposals + 1 /\ stops' = stops + 1
  /\ UNCHANGED <<ctx, options, child, goroutines, processDone, r0, result>>

Dispose ==
  /\ run = "wait" /\ WaitGroup \subseteq {"none", "done"}
  /\ run' = "returned" /\ disposals' = disposals + 1
  /\ UNCHANGED <<ctx, options, child, goroutines, processDone, r0, result, stops>>

-----------------------------------------------------------------------------
(* The goroutine that waits for the process.                                 *)

WaitProcess ==
  /\ waiter = "wait" /\ process \in {"exited", "failed"}
  /\ waiter' = "stop" /\ process' = "reaped"
  /\ r0' = IF process = "failed" /\ ~lenient THEN "error" ELSE r0
  /\ UNCHANGED <<ctx, options, run, signal, killer, assassin, timer, processDone, result,
                 stops, disposals>>

(* onStop may return an error, as that of FFprobe does. *)
Stop ==
  /\ waiter = "stop"
  /\ waiter' = "notify" /\ stops' = stops + 1
  /\ r0' \in {r0, "error"}
  /\ UNCHANGED <<ctx, options, run, child, killer, assassin, timer, processDone, result,
                 disposals>>

(* The deferred calls: processDoneCancel, then cancel. *)
Notify ==
  /\ waiter = "notify"
  /\ waiter' = "cancel" /\ processDone' = "done"
  /\ UNCHANGED <<ctx, options, run, child, killer, assassin, timer, outcome>>

CancelCase ==
  /\ waiter = "cancel"
  /\ waiter' = "done" /\ ctx' = "done"
  /\ UNCHANGED <<options, run, child, killer, assassin, timer, processDone, outcome>>

-----------------------------------------------------------------------------
(* Those that signal it.  A signal to a process that has exited is an error that
   nobody looks at.                                                          *)

Send(sig) ==
  signal' = IF process # "running" \/ signal = "kill" THEN signal ELSE sig

(* Mutant: a process that ignores SIGINT is left alone. *)
InterruptOnly ==
  /\ killer = "wait" /\ ctx = "done"
  /\ killer' = "done" /\ Send("int")
  /\ UNCHANGED <<ctx, options, run, process, waiter, assassin, timer, processDone, outcome>>

Interrupt ==
  /\ killer = "wait" /\ ctx = "done"
  /\ killer' = "done" /\ assassin' = "wait" /\ Send("int")
  /\ UNCHANGED <<ctx, options, run, process, waiter, timer, processDone, outcome>>

NothingToKill ==
  /\ killer = "wait" /\ processDone = "done"
  /\ killer' = "done"
  /\ UNCHANGED <<ctx, options, run, child, waiter, assassin, timer, processDone, outcome>>

Kill ==
  /\ assassin = "wait"
  /\ assassin' = "done"
  /\ IF processDone = "done" THEN UNCHANGED signal ELSE Send("kill")
  /\ UNCHANGED <<ctx, options, run, process, waiter, killer, timer, processDone, outcome>>

Expire ==
  /\ timer = "wait"
  /\ timer' = "done"
  /\ \/ ctx = "done" /\ UNCHANGED signal
     \/ Send("kill")
  /\ UNCHANGED <<ctx, options, run, process, waiter, killer, assassin, processDone, outcome>>

-----------------------------------------------------------------------------
(* The process, and the rest of the case.                                    *)

Exit ==
  /\ process = "running"
  /\ process' \in {"exited", "failed"}
  /\ UNCHANGED <<ctx, options, run, signal, goroutines, processDone, outcome>>

CaseEnds ==
  /\ ctx = "live" /\ ctx' = "done"
  /\ UNCHANGED <<options, run, child, goroutines, processDone, outcome>>

Runner == Ignore \/ StartFails \/ Start \/ Select \/ Leave \/ Dispose
Waiter == WaitProcess \/ Stop \/ Notify \/ CancelCase
Killer == Interrupt \/ NothingToKill

Next == Call \/ Runner \/ Waiter \/ Killer \/ Kill \/ Expire \/ Exit \/ CaseEnds

Spec == Init /\ [][Next]_vars

(* Goroutines run, timers expire and a killed process dies. *)
Fairness ==
  /\ WF_vars(Runner) /\ WF_vars(Waiter) /\ WF_vars(Killer) /\ WF_vars(Kill) /\ WF_vars(Expire)
  /\ WF_vars(signal = "kill" /\ Exit)

FairSpec == Spec /\ Fairness

-----------------------------------------------------------------------------
(* Properties.                                                               *)

(* "Always callback when run is called": when Run has returned, nothing that it
   started is left - no process, none of its three goroutines - and onStop and
   onDispose were called once each, whether the process exited, was killed, did
   not start or was not to be started; and the armed killer finds nobody.    *)
RunLeavesNothing ==
  run = "returned" =>
    /\ process \in {"none", "reaped"} /\ WaitGroup \subseteq {"none", "done"}
    /\ stops = 1 /\ disposals = 1
    /\ assassin = "wait" => processDone = "done"

(* Run with its goroutines does what its owner relies on: see ServicePromise. *)
self == "self"
Of(x) == [s \in {self} |-> x]
Promise == INSTANCE ServicePromise WITH
  Service <- {self}, Context <- {"case"}, CtxOf <- Of("case"),
  Below <- [c \in {"case"} |-> {"case"}],
  done <- IF ctx = "done" THEN {"case"} ELSE {},
  run <- Of(IF run \in {"idle", "returned"} THEN run ELSE "called"),
  process <- Of(IF stops > 0 THEN (IF process = "none" THEN "never" ELSE "gone")
                ELSE IF process = "none" THEN "none" ELSE "running"),
  r0 <- Of(IF stops > 0 THEN r0 ELSE "nil"), result <- Of(result)

KeepsPromise == Promise!PFairSpec

=============================================================================
