------------------------- MODULE BackendService_proof -------------------------
(***************************************************************************)
(* Proofs about the process runner of the black-box tests: the run of      *)
(* MCBackendService.cfg has no bound, so that TLC has checked the same     *)
(* states; the proof says why the code is right.                           *)
(***************************************************************************)
EXTENDS BackendService, TLAPS

\* Where Run has started nothing there is nothing to wait for, and it has called
\* onStop itself once it leaves; elsewhere there are all three goroutines.
Launched ==
  IF waiter = "none"
  THEN /\ killer = "none" /\ timer = "none" /\ assassin = "none" /\ process = "none"
       /\ run # "select"
       /\ stops = IF run \in {"leave", "wait", "returned"} THEN 1 ELSE 0
  ELSE /\ killer # "none" /\ timer # "none"
       /\ run \in {"select", "leave", "wait", "returned"}

\* How far the goroutine is that waits for the process, which alone reaps it,
\* calls onStop for it and tells the others.
Waiting ==
  /\ waiter = "wait" => process \in {"running", "exited", "failed"} /\ stops = 0
  /\ waiter = "stop" => process = "reaped" /\ stops = 0
  /\ waiter \in {"notify", "cancel", "done"} => process = "reaped" /\ stops = 1
  /\ waiter \in {"cancel", "done"} => processDone = "done"

\* Close, which Run defers, waits for the three and disposes last.
Closing ==
  /\ run = "returned" => WaitGroup \subseteq {"none", "done"} /\ disposals = 1
  /\ run # "returned" => disposals = 0

\* What Run has heard when it answers: that the case is over, or from onStop how
\* the process ended.
Answering ==
  /\ run \in {"idle", "ignored", "start", "select"} <=> result = "none"
  /\ run \in {"ignored", "wait", "returned"} => ctx = "done"
  /\ run = "leave" => ctx = "done" \/ stops = 1
  /\ waiter \in {"none", "wait"} => r0 = "nil"
  /\ processDone = "done" => waiter \in {"cancel", "done"}

BackendInv == TypeOK /\ Launched /\ Waiting /\ Closing /\ Answering

LEMMA BackendInit == Init => BackendInv
BY DEF Init, BackendInv, TypeOK, Goroutine, Launched, Waiting, Closing, Answering

LEMMA BackendStep == BackendInv /\ [Next]_vars => BackendInv'
<1> SUFFICES ASSUME BackendInv, [Next]_vars PROVE BackendInv'
  OBVIOUS
<1> USE DEF BackendInv, TypeOK, Goroutine, Launched, Waiting, Closing, Answering, WaitGroup,
        options, child, goroutines, outcome
<1>1. CASE Call \/ Ignore \/ StartFails
  BY <1>1 DEF Call, Ignore, StartFails
<1>2. CASE Start
  BY <1>2 DEF Start
<1>3. CASE Select \/ Leave \/ Dispose
  BY <1>3 DEF Select, Leave, Dispose
<1>4. CASE WaitProcess \/ Stop
  BY <1>4 DEF WaitProcess, Stop
<1>5. CASE Notify \/ CancelCase
  BY <1>5 DEF Notify, CancelCase
<1>6. CASE Interrupt \/ NothingToKill
  BY <1>6 DEF Interrupt, NothingToKill, Send
<1>7. CASE Kill \/ Expire
  BY <1>7 DEF Kill, Expire, Send
<1>8. CASE Exit \/ CaseEnds
  BY <1>8 DEF Exit, CaseEnds
<1>9. CASE UNCHANGED vars
  BY <1>9 DEF vars
<1>10. QED
  BY <1>1, <1>2, <1>3, <1>4, <1>5, <1>6, <1>7, <1>8, <1>9
     DEF Next, Runner, Waiter, Killer

LEMMA BackendInvariant == Spec => []BackendInv
BY BackendInit, BackendStep, PTL DEF Spec

\* The type invariant of Run, which bounds the calls of onStop and onDispose.
THEOREM TypeCorrect == Spec => []TypeOK
<1>1. BackendInv => TypeOK
  BY DEF BackendInv
<1>2. QED
  BY <1>1, BackendInvariant, PTL

\* "Always callback when run is called": Run returns with nothing left of what it
\* started, and both callbacks were called once.
THEOREM LeavesNothing == Spec => []RunLeavesNothing
<1>1. BackendInv => RunLeavesNothing
  BY DEF BackendInv, TypeOK, Goroutine, Launched, Waiting, Closing, WaitGroup, RunLeavesNothing
<1>2. QED
  BY <1>1, BackendInvariant, PTL

-----------------------------------------------------------------------------
(* Run implements ServicePromise.  A step of Run, of a goroutine or of the   *)
(* process is a step of the promise, or none: signals, exits and reaping are *)
(* not seen by the owner, who is told by onStop.                             *)

\* The state of Run as its owner has it, at one service.
PromisedRun == IF run \in {"idle", "returned"} THEN run ELSE "called"
PromisedProcess ==
  IF stops > 0 THEN (IF process = "none" THEN "never" ELSE "gone")
  ELSE IF process = "none" THEN "none" ELSE "running"
PromisedR0 == IF stops > 0 THEN r0 ELSE "nil"
PromisedDone == IF ctx = "done" THEN {"case"} ELSE {}

\* A function of one service changes as its value does.
LEMMA OfOne ==
  ASSUME NEW x, NEW y
  PROVE Of(x)[self] = x /\ [Of(x) EXCEPT ![self] = y] = Of(y)
BY DEF Of, self

\* The promise, read at the one service.
LEMMA Promised ==
  /\ Promise!CtxDone(self) <=> ctx = "done"
  /\ Promise!EndContext("case") <=> PromisedDone' = {"case"}
  /\ Promise!Told(self) <=> stops > 0
<1>1. Promise!CtxDone(self) <=> ctx = "done"
  BY OfOne DEF Promise!CtxDone
<1>2. Promise!EndContext("case") <=> PromisedDone' = {"case"}
  BY DEF Promise!EndContext, PromisedDone
<1>3. Promise!Told(self) <=> stops > 0
  BY OfOne DEF Promise!Told
<1> QED
  BY <1>1, <1>2, <1>3

\* What a step leaves alone, the promise has left alone.
promised == <<PromisedDone, PromisedRun, PromisedProcess, PromisedR0, result>>

LEMMA PromisedStutter == UNCHANGED promised => UNCHANGED Promise!promiseVars
BY DEF promised, PromisedDone, PromisedRun, PromisedProcess, PromisedR0, Promise!promiseVars

\* The steps of the promise, in the values of the one service.
LEMMA IsCalled ==
  ASSUME PromisedRun = "idle", PromisedRun' = "called",
         UNCHANGED <<PromisedDone, PromisedProcess, PromisedR0, result>>
  PROVE Promise!Called(self)
BY OfOne DEF Promise!Called, PromisedDone, PromisedRun, PromisedProcess, PromisedR0

LEMMA IsNotStarted ==
  ASSUME PromisedRun = "called", PromisedProcess = "none", PromisedProcess' = "never",
         result' = "error" \/ (ctx = "done" /\ result' = "canceled"),
         UNCHANGED <<PromisedDone, PromisedRun, PromisedR0>>
  PROVE Promise!NotStarted(self)
BY OfOne, Promised DEF Promise!NotStarted, PromisedDone, PromisedRun, PromisedProcess, PromisedR0

LEMMA IsStarted ==
  ASSUME PromisedRun = "called", PromisedProcess = "none", PromisedProcess' = "running",
         UNCHANGED <<PromisedDone, PromisedRun, PromisedR0, result>>
  PROVE Promise!Started(self)
BY OfOne DEF Promise!Started, PromisedDone, PromisedRun, PromisedProcess, PromisedR0

LEMMA IsGone ==
  ASSUME PromisedProcess = "running", PromisedProcess' = "gone", PromisedR0' \in {"nil", "error"},
         UNCHANGED <<PromisedDone, PromisedRun, result>>
  PROVE Promise!Gone(self)
BY OfOne DEF Promise!Gone, PromisedDone, PromisedRun, PromisedProcess, PromisedR0

LEMMA IsCancels ==
  ASSUME stops > 0, ctx # "done", ctx' = "done",
         UNCHANGED <<PromisedRun, PromisedProcess, PromisedR0, result>>
  PROVE Promise!Cancels(self)
BY OfOne, Promised
   DEF Promise!Cancels, Promise!EndContext, PromisedDone, PromisedRun, PromisedProcess, PromisedR0

LEMMA IsAnswers ==
  ASSUME PromisedRun = "called", PromisedProcess # "none", result = "none",
         stops > 0 => result' = PromisedR0,
         ~(stops > 0) => ctx = "done" /\ result' \in {"nil", "error"},
         UNCHANGED <<PromisedDone, PromisedRun, PromisedProcess, PromisedR0>>
  PROVE Promise!Answers(self)
BY OfOne, Promised DEF Promise!Answers, PromisedDone, PromisedRun, PromisedProcess, PromisedR0

LEMMA IsReturned ==
  ASSUME PromisedRun = "called", PromisedRun' = "returned",
         result # "none", stops > 0, ctx = "done",
         UNCHANGED <<PromisedDone, PromisedProcess, PromisedR0, result>>
  PROVE Promise!Returned(self)
BY OfOne, Promised DEF Promise!Returned, PromisedDone, PromisedRun, PromisedProcess, PromisedR0

LEMMA IsOthers ==
  ASSUME ctx' = "done",
         UNCHANGED <<PromisedRun, PromisedProcess, PromisedR0, result>>
  PROVE Promise!Others
BY DEF Promise!Others, Promise!EndContext, PromisedDone, PromisedRun, PromisedProcess, PromisedR0

\* Each step is one of these.
LEMMA PromiseStep ==
  ASSUME BackendInv, [Next]_vars
  PROVE  [Promise!PNext]_Promise!promiseVars
<1> DEFINE Kept == [Promise!PNext]_Promise!promiseVars
<1> USE DEF options, child, goroutines, outcome
<1>t. TypeOK /\ Launched /\ Waiting /\ Closing /\ Answering
  BY DEF BackendInv
<1>0. /\ Promise!Called(self) \/ Promise!PStep(self) \/ Promise!Others => Kept
      /\ UNCHANGED promised => Kept
  BY PromisedStutter DEF Promise!PNext
<1> SUFFICES Kept
  OBVIOUS
<1> HIDE DEF Kept
<1>1. CASE Call
  BY <1>1, <1>0, IsCalled, <1>t DEF Call, TypeOK, PromisedDone, PromisedRun, PromisedProcess,
      PromisedR0
<1>2. CASE Ignore \/ StartFails
  <2>1. stops = 0 /\ process = "none" /\ stops' = 1 /\ r0 = "nil"
    BY <1>2, <1>t DEF Ignore, StartFails, TypeOK, Launched, Answering
  <2>2. Promise!NotStarted(self)
    BY <1>2, <2>1, IsNotStarted, <1>t
    DEF Ignore, StartFails, Answering, PromisedDone, PromisedRun, PromisedProcess, PromisedR0
  <2> QED
    BY <2>2, <1>0 DEF Promise!PStep
<1>3. CASE Start
  <2>1. stops = 0 /\ process = "none"
    BY <1>3, <1>t DEF Start, TypeOK, Launched
  <2>2. Promise!Started(self)
    BY <1>3, <2>1, IsStarted
    DEF Start, PromisedDone, PromisedRun, PromisedProcess, PromisedR0
  <2> QED
    BY <2>2, <1>0 DEF Promise!PStep
<1>4. CASE Select
  <2>1. process # "none" /\ result = "none" /\ (~(stops > 0) => ctx = "done")
    BY <1>4, <1>t DEF Select, TypeOK, Goroutine, Launched, Waiting, Answering
  <2>2. Promise!Answers(self)
    BY <1>4, <2>1, IsAnswers, <1>t
    DEF Select, TypeOK, PromisedDone, PromisedRun, PromisedProcess, PromisedR0
  <2> QED
    BY <2>2, <1>0 DEF Promise!PStep
<1>5. CASE Leave \/ CancelCase
  <2>1. UNCHANGED <<PromisedRun, PromisedProcess, PromisedR0, result>>
    BY <1>5, <1>t DEF Leave, CancelCase, PromisedRun, PromisedProcess, PromisedR0
  <2>2. ctx # "done" => stops > 0
    BY <1>5, <1>t DEF Leave, CancelCase, TypeOK, Waiting, Answering
  <2>3. ctx' = "done"
    BY <1>5 DEF Leave, CancelCase
  <2>4. CASE ctx = "done"
    BY <2>1, <2>3, <2>4, <1>0 DEF promised, PromisedDone
  <2>5. CASE ctx # "done"
    <3>1. Promise!Cancels(self)
      BY <2>1, <2>2, <2>3, <2>5, IsCancels
    <3> QED
      BY <3>1, <1>0 DEF Promise!PStep
  <2> QED
    BY <2>4, <2>5
<1>6. CASE Dispose
  <2>1. result # "none" /\ stops > 0 /\ ctx = "done"
    BY <1>6, <1>t DEF Dispose, WaitGroup, TypeOK, Goroutine, Launched, Waiting, Answering
  <2>2. Promise!Returned(self)
    BY <1>6, <2>1, IsReturned DEF Dispose, PromisedDone, PromisedRun, PromisedProcess, PromisedR0
  <2> QED
    BY <2>2, <1>0 DEF Promise!PStep
<1>7. CASE WaitProcess
  BY <1>7, <1>t, <1>0 DEF WaitProcess, TypeOK, Waiting, promised, PromisedDone, PromisedRun,
      PromisedProcess, PromisedR0
<1>8. CASE Stop
  <2>1. stops = 0 /\ stops' = 1 /\ process = "reaped" /\ r0' \in {"nil", "error"}
    BY <1>8, <1>t DEF Stop, TypeOK, Waiting
  <2>2. Promise!Gone(self)
    BY <1>8, <2>1, IsGone DEF Stop, PromisedDone, PromisedRun, PromisedProcess, PromisedR0
  <2> QED
    BY <2>2, <1>0 DEF Promise!PStep
<1>9. CASE Notify \/ Interrupt \/ NothingToKill \/ Kill \/ Expire
  BY <1>9, <1>0 DEF Notify, Interrupt, NothingToKill, Kill, Expire, promised, PromisedDone,
    PromisedRun, PromisedProcess, PromisedR0
<1>10. CASE Exit
  BY <1>10, <1>0 DEF Exit, promised, PromisedDone, PromisedRun, PromisedProcess, PromisedR0
<1>11. CASE CaseEnds
  BY <1>11, <1>0, IsOthers DEF CaseEnds, PromisedRun, PromisedProcess, PromisedR0
<1>12. CASE UNCHANGED vars
  BY <1>12, <1>0 DEF vars, promised, PromisedDone, PromisedRun, PromisedProcess, PromisedR0
<1> QED
  BY <1>1, <1>2, <1>3, <1>4, <1>5, <1>6, <1>7, <1>8, <1>9, <1>10, <1>11, <1>12
     DEF Next, Runner, Waiter, Killer

\* Run does what its owner relies on, as far as it is a matter of safety: that it
\* gets on is a matter of its scheduling, and stays with the run.
THEOREM DoesItsPart == Spec => Promise!PSpec
<1>1. Init => Promise!PInit
  BY DEF Init, Promise!PInit, Of
<1>2. QED
  BY <1>1, PromiseStep, BackendInvariant, PTL DEF Spec, Promise!PSpec
=============================================================================
