-------------------------- MODULE BlackboxCase_proof --------------------------
(***************************************************************************)
(* The safety of a black-box test, however often FFprobe starts to record: *)
(* the file is not probed while it is recorded, and a test whose server or *)
(* FFprobe ended the case by a bad end fails.                              *)
(***************************************************************************)
EXTENDS BlackboxCase, TLAPS

processes == <<run, process, r0, result>>

\* What Run of a process has done by the time it is at each place; what it
\* answers before its context is done is how the process ended.
Running ==
  \A s \in Service :
    /\ run[s] = "idle" => process[s] = "none"
    /\ process[s] = "none" => result[s] = "none"
    /\ run[s] = "returned" => Told(s) /\ result[s] # "none"
    /\ process[s] # "gone" => r0[s] = "nil"
    /\ process[s] = "running" /\ ~CtxDone(s) => result[s] = "none"
    /\ process[s] = "gone" /\ ~CtxDone(s) => result[s] \in {"none", r0[s]}

\* Whose goroutine a process is run by.
Owned ==
  /\ run["srs"] # "idle" => srs = "run"
  /\ run["dvr"] # "idle" => ffprobe = "dvr"
  /\ run["probe"] # "idle" => ffprobe = "run"

\* Whoever ended the case knew how its process ended, and will say so.
CancelerKnows ==
  /\ canceler \in Service =>
       /\ canceler \in {"srs", "probe"} /\ "case" \in done /\ Told(canceler)
       /\ process[canceler] = "gone" => result[canceler] \in {"none", r0[canceler]}
  /\ test # "select" => "case" \in done
  /\ CrashReported

CaseInv == TypeOK /\ Running /\ Owned /\ CancelerKnows

-----------------------------------------------------------------------------
(* The steps of Next, by what they do to the processes.                     *)

\* A goroutine of the case or the world outside: no process is touched.
Beside ==
  \/ Detect \/ Watch \/ ProbeBegin \/ Look \/ Stat \/ Awake \/ ProbingTimeout
  \/ Write \/ Callback \/ SetFile \/ Hooks
  \/ Verify \/ GiveUp \/ CaseTimeout \/ Report
  \/ (SrsBegin /\ UNCHANGED promiseVars) \/ (Check /\ UNCHANGED promiseVars)

\* A process is called for.
Begins ==
  \/ SrsBegin /\ Called("srs") /\ srs' = "run" /\ UNCHANGED ffprobe
  \/ FFmpegBegin /\ UNCHANGED <<srs, ffprobe>>
  \/ Record
  \/ Check /\ Called("probe") /\ ffprobe' = "run"

\* Nothing else happens.
LEMMA Kinds ==
  ASSUME [Next]_vars
  PROVE  \/ Beside \/ Begins \/ Recorded
         \/ \E s \in Service : Runs(s, Ends(s) \/ Gone(s))
         \/ UNCHANGED vars
BY DEF Next, Progress, SrsClient, FFmpegClient, ProbeClient, TestStep, Beside, Begins, SrsBegin,
  Check, FFmpegBegin, clientVars, Runs, Goes

\* Nobody but a recording's end takes back a context, and that one is its own.
LEMMA BesideLeaves ==
  ASSUME TypeOK, Beside
  PROVE  UNCHANGED processes /\ done \subseteq done' /\ done' \subseteq Context
<1> USE CaseAssumption, ServiceAssumption
<1>1. "case" \in Context /\ "probing" \in Context /\ Below["case"] \subseteq Context
      /\ Below["probing"] \subseteq Context /\ done \subseteq Context
  BY DEF TypeOK, PTypeOK
<1>2. CASE UNCHANGED promiseVars
  BY <1>1, <1>2 DEF promiseVars, processes
<1>3. CASE Watch \/ ProbingTimeout \/ Verify \/ CaseTimeout
  BY <1>1, <1>3 DEF Watch, ProbingTimeout, Verify, CaseTimeout, EndContext, restOfPromiseVars,
      processes
<1>4. CASE Hooks
  BY <1>1, <1>4 DEF Hooks, HooksStep, ListenFails, Shutdown, Ping, HooksReturn, EndContext,
    restOfPromiseVars, processes
<1>5. CASE Callback
  BY <1>1, <1>5 DEF Callback, OnDvr, restOfPromiseVars, processes
<1> QED
  BY <1>2, <1>3, <1>4, <1>5 DEF Beside, Detect, ProbeBegin, Look, Stat, Awake, Write, SetFile,
    GiveUp, Report

\* A step of Run is the step of a process, and of nothing else but the context.
LEMMA RunsSteps ==
  ASSUME NEW s \in Service, Runs(s, Ends(s) \/ Gone(s))
  PROVE  NotStarted(s) \/ Started(s) \/ Gone(s) \/ Cancels(s) \/ Answers(s) \/ Returned(s)
BY DEF Runs, Ends

-----------------------------------------------------------------------------
(* Each part of the invariant.                                              *)

LEMMA CaseBegins == Init => CaseInv
<1> SUFFICES ASSUME Init PROVE CaseInv
  OBVIOUS
<1>1. TypeOK
  <2>1. PTypeOK
    BY DEF Init, PInit, PTypeOK
  <2>2. HooksTypeOK
    <3>1. hooks \in {"unused", "wait", "returned"} /\ listener \in {"serve", "done"}
      BY Zenon DEF Init, HooksInit
    <3>2. hooksReady \in BOOLEAN /\ hooksError \in BOOLEAN
      BY Zenon DEF Init, HooksInit
    <3>3. events = 0 /\ handed = 0
      BY Zenon DEF Init, HooksInit
    <3> QED
      BY <3>1, <3>2, <3>3 DEF HooksTypeOK
  <2>3. setter \in {"range", "done"}
    BY DEF Init
  <2>4. tries \in 0 .. MaxTries
    BY CaseAssumption DEF Init
  <2>5. {dvrBySrs, detected, file, probed, wrong} \subseteq BOOLEAN
    BY DEF Init
  <2>6. /\ srs \in {"await", "run", "nodir"}
        /\ ffprobe \in {"await", "loop", "dvr", "stat", "sleep", "check", "run", "ignored"}
        /\ canceler \in Service \cup {"nobody", "other", "timeout"}
        /\ test \in {"select", "wait", "returned"} /\ verdict \in {"none", "pass", "fail"}
    BY DEF Init
  <2> QED
    BY <2>1, <2>2, <2>3, <2>4, <2>5, <2>6 DEF TypeOK
<1>2. Running /\ Owned
  BY CaseAssumption DEF Init, PInit, Running, Owned, Told
<1>3. CancelerKnows
  BY CaseAssumption DEF Init, PInit, CancelerKnows, CrashReported
<1> QED
  BY <1>1, <1>2, <1>3 DEF CaseInv

\* The types of what a process is.
LEMMA ProcessTypes ==
  ASSUME TypeOK, [Next]_vars
  PROVE  PTypeOK'
<1> USE ServiceAssumption DEF PTypeOK
<1>1. PTypeOK
  BY DEF TypeOK
<1>0. {"srs", "ffmpeg", "dvr", "probe"} \subseteq Service
  BY CaseAssumption
<1>2. CASE Beside
  BY <1>1, <1>2, BesideLeaves DEF processes
<1>3. CASE Begins
  <2>1. PICK s \in Service : Called(s)
    BY <1>0, <1>3 DEF Begins, FFmpegBegin, Record
  <2> QED
    BY <1>1, <2>1 DEF Called
<1>4. CASE Recorded
  BY <1>0, <1>1, <1>4 DEF Recorded, NewProcess
<1>5. ASSUME NEW s \in Service, Runs(s, Ends(s) \/ Gone(s)) PROVE PTypeOK'
  <2>1. CtxOf[s] \in Context /\ Below[CtxOf[s]] \subseteq Context
    OBVIOUS
  <2>2. CASE NotStarted(s)
    <3>1. PICK answer \in {"canceled", "error"} : result' = [result EXCEPT ![s] = answer]
      BY <2>2 DEF NotStarted
    <3> QED
      BY <1>1, <2>2, <3>1 DEF NotStarted
  <2>6. CASE Started(s)
    BY <1>1, <2>6 DEF Started
  <2>7. CASE Gone(s)
    BY <1>1, <2>7 DEF Gone
  <2>3. CASE Cancels(s)
    BY <1>1, <2>1, <2>3 DEF Cancels, EndContext
  <2>4. CASE Answers(s)
    BY <1>1, <2>4 DEF Answers
  <2>5. CASE Returned(s)
    BY <1>1, <2>5 DEF Returned
  <2> QED
    BY <1>5, <2>2, <2>3, <2>4, <2>5, <2>6, <2>7, RunsSteps
<1>6. CASE UNCHANGED vars
  BY <1>1, <1>6 DEF vars, promiseVars
<1> QED
  BY <1>2, <1>3, <1>4, <1>5, <1>6, Kinds

\* The types of the rest.
LEMMA CaseTypes ==
  ASSUME TypeOK, [Next]_vars
  PROVE  TypeOK'
<1> USE CaseAssumption DEF TypeOK, HooksTypeOK
<1>1. PTypeOK'
  BY ProcessTypes
<1>2. CASE SrsBegin \/ Detect \/ FFmpegBegin \/ ProbeBegin \/ Look \/ Recorded \/ Stat \/ Awake
           \/ ProbingTimeout \/ Write \/ GiveUp \/ Report
  BY <1>1, <1>2 DEF SrsBegin, Detect, FFmpegBegin, ProbeBegin, Look, Recorded, Stat, Awake,
      ProbingTimeout,
    Write, GiveUp, Report, Goes, hookVars, clientVars, testVars, probeRest
<1>3. CASE Check
  BY <1>1, <1>3 DEF Check, Goes, hookVars, testVars, probeRest
<1>4. CASE Record
  BY <1>1, <1>4 DEF Record, Goes, hookVars, testVars
<1>5. CASE Callback \/ SetFile
  BY <1>1, <1>5 DEF Callback, OnDvr, SetFile, clientVars, testVars
<1>6. CASE Hooks
  BY <1>1, <1>6 DEF Hooks, HooksStep, ListenFails, Shutdown, Ping, HooksReturn, EndedBy,
      clientVars
<1>7. CASE Watch
  BY <1>1, <1>7 DEF Watch, EndedBy, hookVars, clientVars
<1>10. CASE Verify
  <2>1. wrong' \in BOOLEAN
    BY <1>10 DEF Verify
  <2> QED
    BY <1>1, <1>10, <2>1 DEF Verify, EndedBy, hookVars, clientVars
<1>11. CASE CaseTimeout
  BY <1>1, <1>11 DEF CaseTimeout, EndedBy, hookVars, clientVars
<1>8. ASSUME NEW s \in Service, Runs(s, Ends(s) \/ Gone(s)) PROVE TypeOK'
  BY <1>1, <1>8 DEF Runs, EndedBy, Parse, hookVars
<1>9. CASE UNCHANGED vars
  BY <1>1, <1>9 DEF vars, hookVars, clientVars, testVars
<1> QED
  <2>1. \/ \E s \in Service : Runs(s, Ends(s) \/ Gone(s))
        \/ ~ \E s \in Service : Runs(s, Ends(s)) \/ Runs(s, Gone(s))
    BY DEF Runs
  <2> QED
    BY <2>1, <1>2, <1>3, <1>4, <1>5, <1>6, <1>7, <1>8, <1>9, <1>10, <1>11 DEF Next, Progress,
      SrsClient, FFmpegClient, ProbeClient, TestStep

\* A new process is a recording, whose context alone it may take back.
LEMMA Rerecorded ==
  ASSUME TypeOK, Recorded
  PROVE  /\ \A s \in Service \ {"dvr"} :
              /\ run'[s] = run[s] /\ process'[s] = process[s]
              /\ r0'[s] = r0[s] /\ result'[s] = result[s]
              /\ CtxOf[s] \in done' <=> CtxOf[s] \in done
         /\ run'["dvr"] = "idle" /\ process'["dvr"] = "none"
         /\ r0'["dvr"] = "nil" /\ result'["dvr"] = "none"
         /\ done \ {"dvr"} \subseteq done'
<1>1. /\ "dvr" \in Service /\ PTypeOK
      /\ \A s \in Service \ {"dvr"} : CtxOf[s] # "dvr"
  BY CaseAssumption DEF TypeOK
<1> QED
  BY <1>1 DEF Recorded, NewProcess, PTypeOK

\* What changes when a step of Run is taken: one process, and nothing of the
\* clients; it ends the case only when its context is that of the case.
LEMMA RunsBeside ==
  ASSUME TypeOK, NEW s \in Service, Runs(s, Ends(s) \/ Gone(s))
  PROVE  /\ UNCHANGED <<srs, ffprobe, test, wrong, verdict, hooksError>>
         /\ done \subseteq done'
         /\ ~Cancels(s) => UNCHANGED <<done, canceler>>
         /\ "case" \in done => UNCHANGED canceler
         /\ "case" \notin done /\ "case" \in done' =>
              Cancels(s) /\ s \in {"srs", "probe"} /\ canceler' = s
         /\ "case" \notin done' => UNCHANGED canceler
<1>1. UNCHANGED <<srs, ffprobe, test, wrong, verdict, hooksError>>
      /\ EndedBy(IF s = "ffmpeg" THEN "other" ELSE s)
  BY DEF Runs, hookVars
<1>2. ~Cancels(s) => UNCHANGED done
  BY RunsSteps DEF NotStarted, Started, Gone, Answers, Returned
<1>3. Cancels(s) => done' = done \cup Below[CtxOf[s]]
  BY DEF Cancels, EndContext
<1>4. s \notin {"srs", "probe"} => "case" \notin Below[CtxOf[s]]
  BY CaseAssumption
<1>5. s \in {"srs", "probe"} => s # "ffmpeg"
  OBVIOUS
<1> QED
  BY <1>1, <1>2, <1>3, <1>4, <1>5 DEF EndedBy

\* Running is about processes and about contexts that stay done.
LEMMA RunningKept ==
  ASSUME TypeOK, Running, [Next]_vars
  PROVE  Running'
<1> USE DEF Running, Told, CtxDone
<1>1. PTypeOK /\ {"srs", "ffmpeg", "dvr", "probe"} \subseteq Service
  BY CaseAssumption DEF TypeOK
<1>2. ASSUME UNCHANGED processes, done \subseteq done' PROVE Running'
  BY <1>2 DEF processes
<1>3. CASE Begins
  <2>1. PICK s \in Service : Called(s)
    BY <1>1, <1>3 DEF Begins, FFmpegBegin, Record
  <2> QED
    BY <1>1, <2>1 DEF Called, PTypeOK
<1>4. CASE Recorded
  BY <1>4, Rerecorded
<1>5. ASSUME NEW s \in Service, Runs(s, Ends(s) \/ Gone(s)) PROVE Running'
  <2>1. CASE NotStarted(s)
    BY <1>1, <2>1 DEF NotStarted, PTypeOK
  <2>2. CASE Started(s)
    BY <1>1, <2>2 DEF Started, PTypeOK
  <2>3. CASE Gone(s)
    BY <1>1, <2>3 DEF Gone, PTypeOK
  <2>4. CASE Cancels(s)
    BY <1>2, <1>5, <2>4, RunsBeside DEF Cancels, processes
  <2>5. CASE Answers(s)
    BY <1>1, <2>5 DEF Answers, PTypeOK
  <2>6. CASE Returned(s)
    BY <1>1, <2>6 DEF Returned, PTypeOK
  <2> QED
    BY <1>5, <2>1, <2>2, <2>3, <2>4, <2>5, <2>6, RunsSteps
<1>6. CASE Beside
  BY <1>2, <1>6, BesideLeaves
<1>7. CASE UNCHANGED vars
  BY <1>2, <1>7 DEF vars, promiseVars, processes
<1> QED
  BY <1>3, <1>4, <1>5, <1>6, <1>7, Kinds

\* A process is begun and awaited by one goroutine, which waits there.
LEMMA OwnedKept ==
  ASSUME TypeOK, Owned, [Next]_vars
  PROVE  Owned'
<1> USE DEF Owned
<1>1. PTypeOK /\ {"srs", "ffmpeg", "dvr", "probe"} \subseteq Service
  BY CaseAssumption DEF TypeOK
<1>2. CASE SrsBegin /\ Called("srs") /\ srs' = "run" /\ UNCHANGED ffprobe
  BY <1>1, <1>2 DEF Called, PTypeOK
<1>3. CASE FFmpegBegin /\ UNCHANGED <<srs, ffprobe>>
  BY <1>1, <1>3 DEF FFmpegBegin, Called, PTypeOK
<1>4. CASE Record
  BY <1>1, <1>4 DEF Record, Goes, Called, PTypeOK
<1>5. CASE Check /\ Called("probe") /\ ffprobe' = "run"
  BY <1>1, <1>5 DEF Check, Goes, probeRest, Called, PTypeOK
<1>6. CASE Recorded
  BY <1>6, <1>1, Rerecorded DEF Recorded, Goes, probeRest
<1>7. ASSUME NEW s \in Service, Runs(s, Ends(s) \/ Gone(s)) PROVE Owned'
  <2>1. UNCHANGED <<srs, ffprobe>>
    BY <1>7, RunsBeside
  <2>2. CASE Returned(s)
    BY <1>1, <2>1, <2>2 DEF Returned, PTypeOK
  <2>3. CASE ~Returned(s)
    BY <1>7, <2>1, <2>3, RunsSteps DEF NotStarted, Started, Gone, Cancels, Answers
  <2> QED
    BY <2>2, <2>3
<1>8. CASE Beside
  <2>1. UNCHANGED run
    BY <1>8, BesideLeaves DEF processes
  <2>2. CASE SrsBegin \/ Check \/ ProbeBegin \/ Look \/ Stat \/ Awake
    BY <2>1, <2>2 DEF SrsBegin, Check, ProbeBegin, Look, Stat, Awake, Goes, probeRest
  <2>3. CASE UNCHANGED <<srs, ffprobe>>
    BY <2>1, <2>3
  <2> QED
    BY <1>8, <2>2, <2>3 DEF Beside, Detect, Watch, ProbingTimeout, Write, Callback, SetFile,
        Hooks,
      Verify, GiveUp, CaseTimeout, Report, clientVars
<1>9. CASE UNCHANGED vars
  BY <1>9 DEF vars, promiseVars, clientVars
<1> QED
  BY <1>2, <1>3, <1>4, <1>5, <1>6, <1>7, <1>8, <1>9, Kinds DEF Begins

\* Who ends the case is told how its process ended, and nobody else ends it.
LEMMA CancelerKept ==
  ASSUME CaseInv, [Next]_vars
  PROVE  CancelerKnows'
<1> USE DEF CancelerKnows, CrashReported, Told
<1>1. CancelerKnows /\ TypeOK /\ Running /\ Owned
  BY DEF CaseInv
<1>2. /\ {"srs", "ffmpeg", "dvr", "probe"} = Service
      /\ "nobody" \notin Service /\ "other" \notin Service /\ "timeout" \notin Service
  BY CaseAssumption
<1>3. ASSUME UNCHANGED <<canceler, test, verdict>>, "case" \in done => "case" \in done',
             \A s \in {"srs", "probe"} : /\ process'[s] = process[s] /\ r0'[s] = r0[s]
                                         /\ result'[s] = result[s]
      PROVE  CancelerKnows'
  BY <1>1, <1>3
<1>4. CASE Begins
  BY <1>1, <1>3, <1>4 DEF Begins, SrsBegin, FFmpegBegin, Record, Check, Called, testVars,
      probeRest
<1>5. CASE Recorded
  <2>1. UNCHANGED <<canceler, test, verdict>>
    BY <1>5 DEF Recorded, probeRest, testVars
  <2> QED
    BY <1>1, <1>2, <1>3, <1>5, <2>1, Rerecorded
<1>6. ASSUME NEW s \in Service, Runs(s, Ends(s) \/ Gone(s)) PROVE CancelerKnows'
  <2>0. UNCHANGED <<test, verdict>> /\ done \subseteq done'
    BY <1>1, <1>6, RunsBeside
  <2>1. CASE ~Cancels(s)
    <3>1. UNCHANGED <<canceler, done>>
      BY <1>1, <1>6, <2>1, RunsBeside
    <3>2. ASSUME canceler = s
          PROVE  ~(NotStarted(s) \/ Started(s) \/ Gone(s))
      BY <1>1, <3>2 DEF NotStarted, Started, Gone
    <3>3. /\ \A q \in Service \ {s} : process'[q] = process[q] /\ r0'[q] = r0[q] /\ result'[q] = result[q]
          /\ canceler = s => /\ process'[s] = process[s] /\ r0'[s] = r0[s]
                             /\ result'[s] \in {result[s], r0[s]}
      BY <1>1, <1>6, <2>1, <3>2, RunsSteps DEF NotStarted, Started, Gone, Answers, Returned,
          TypeOK, PTypeOK
    <3> QED
      BY <1>1, <1>2, <2>0, <3>1, <3>3
  <2>2. CASE Cancels(s)
    <3>1. UNCHANGED processes
      BY <2>2 DEF Cancels, processes
    <3>2. CASE UNCHANGED canceler
      BY <1>1, <1>3, <2>0, <3>1, <3>2 DEF processes
    <3>3. CASE canceler' = s /\ s \in {"srs", "probe"} /\ "case" \notin done /\ "case" \in done'
      <4>1. test = "select" /\ CtxOf[s] \notin done /\ Told(s)
        BY <1>1, <2>2, <3>3 DEF Cancels, CtxDone
      <4>2. process[s] = "gone" => result[s] \in {"none", r0[s]}
        BY <1>1, <4>1 DEF Running, CtxDone
      <4> QED
        BY <2>0, <3>1, <3>3, <4>1, <4>2 DEF processes
    <3> QED
      BY <1>1, <1>6, <2>2, <3>2, <3>3, RunsBeside
  <2> QED
    BY <2>1, <2>2
<1>7. CASE Beside
  <2>0. UNCHANGED processes /\ done \subseteq done'
    BY <1>1, <1>7, BesideLeaves
  <2>1. CASE UNCHANGED <<canceler, test, verdict>>
    BY <1>1, <1>3, <2>0, <2>1 DEF processes
  <2>2. CASE Watch \/ Hooks \/ Verify \/ CaseTimeout
    <3>1. (UNCHANGED verdict /\ test' # "returned") \/ UNCHANGED <<test, verdict>>
      BY <2>2 DEF Watch, Hooks, Verify, CaseTimeout
    <3>2. EndedBy("other") \/ EndedBy("timeout")
      BY <2>2 DEF Watch, Hooks, Verify, CaseTimeout
    <3>3. test' # test => "case" \in done'
      <4>1. Verify => done' = done \cup Below["case"]
        BY DEF Verify, EndContext
      <4>2. "case" \in Below["case"]
        BY CaseAssumption, ServiceAssumption
      <4> QED
        BY <2>2, <4>1, <4>2 DEF Watch, Hooks, CaseTimeout
    <3> QED
      BY <1>1, <1>2, <2>0, <3>1, <3>2, <3>3 DEF EndedBy, processes
  <2>3. CASE GiveUp
    BY <1>1, <2>0, <2>3 DEF GiveUp, processes
  <2>4. CASE Report
    <3>1. UNCHANGED <<processes, canceler, done>> /\ test = "wait" /\ AllReturned
          /\ verdict' = IF Failed THEN "fail" ELSE "pass"
      BY <2>0, <2>4 DEF Report, promiseVars
    <3>2. ASSUME canceler \in Service, r0[canceler] = "error"
          PROVE  verdict' = "fail"
      <4>1. canceler \in {"srs", "probe"} /\ process[canceler] = "gone" /\ run[canceler] # "idle"
        BY <1>1, <3>2 DEF Running
      <4>2. run[canceler] = "returned"
        BY <1>1, <3>1, <4>1 DEF Owned, AllReturned
      <4>3. result[canceler] = "error"
        BY <1>1, <3>2, <4>1, <4>2 DEF Running
      <4> QED
        BY <3>1, <4>1, <4>3 DEF Failed
    <3> QED
      BY <1>1, <3>1, <3>2 DEF processes
  <2> QED
    BY <1>7, <2>1, <2>2, <2>3, <2>4 DEF Beside, Detect, ProbeBegin, Look, Stat, Awake,
        ProbingTimeout,
      Write, Callback, SetFile, SrsBegin, Check, probeRest, testVars
<1>8. CASE UNCHANGED vars
  BY <1>1, <1>3, <1>8 DEF vars, promiseVars, testVars
<1> QED
  BY <1>4, <1>5, <1>6, <1>7, <1>8, Kinds

\* The invariant holds of a test from its beginning.
LEMMA CaseInvariant == Spec => []CaseInv
<1>1. CaseInv /\ [Next]_vars => CaseInv'
  BY CaseTypes, RunningKept, OwnedKept, CancelerKept DEF CaseInv
<1> QED
  BY <1>1, CaseBegins, PTL DEF Spec

-----------------------------------------------------------------------------
\* The type invariant of a black-box test.
THEOREM CaseTypeCorrect == Spec => []TypeOK
<1>1. CaseInv => TypeOK
  BY DEF CaseInv
<1> QED
  BY <1>1, CaseInvariant, PTL

\* FFprobe does not open the file before the process that records it is gone,
\* however often it recorded: doDVR returns behind its process.
THEOREM ProbedAfterRecording == Spec => []RecordedBeforeProbed
<1>1. CaseInv => RecordedBeforeProbed
  <2> SUFFICES ASSUME CaseInv PROVE RecordedBeforeProbed
    OBVIOUS
  <2>1. "dvr" \in Service /\ "probe" \in Service
    BY CaseAssumption
  <2> QED
    BY <2>1 DEF CaseInv, Running, Owned, RecordedBeforeProbed
<1> QED
  BY <1>1, CaseInvariant, PTL

\* A test does not pass when the server or FFprobe ended the case by a bad end.
THEOREM CrashesReported == Spec => []CrashReported
<1>1. CaseInv => CrashReported
  BY DEF CaseInv, CancelerKnows
<1> QED
  BY <1>1, CaseInvariant, PTL

-----------------------------------------------------------------------------
(* The case and its processes: what BackendService_proof shows that a Run    *)
(* does is all that a case relies on.                                        *)

\* FFprobe records again, with a process and a context in place of those of the
\* recording that has returned.
NewRecording ==
  /\ run["dvr"] = "returned" /\ NewProcess("dvr")
  /\ done' = IF "probing" \in done THEN done ELSE done \ {"dvr"}

\* Each step of a case, seen from its processes.
LEMMA CaseStepIsPromised ==
  ASSUME [Next]_vars
  PROVE  [PNext \/ NewRecording]_promiseVars
<1> DEFINE Allowed == [PNext \/ NewRecording]_promiseVars
<1> SUFFICES Allowed
  OBVIOUS
<1>0. /\ (\E s \in Service : Called(s) \/ PStep(s)) \/ Others \/ NewRecording => Allowed
      /\ UNCHANGED promiseVars => Allowed
  BY DEF PNext
<1> HIDE DEF Allowed
<1>s. {"srs", "ffmpeg", "dvr", "probe"} \subseteq Service /\ {"case", "probing"} \subseteq Context
  BY CaseAssumption
<1>1. CASE Begins
  <2>1. Called("srs") \/ Called("ffmpeg") \/ Called("dvr") \/ Called("probe")
    BY <1>1 DEF Begins, FFmpegBegin, Record
  <2> QED
    BY <2>1, <1>0, <1>s
<1>2. ASSUME NEW s \in Service, Runs(s, Ends(s) \/ Gone(s)) PROVE Allowed
  <2>1. PStep(s)
    BY <1>2, RunsSteps DEF PStep
  <2> QED
    BY <2>1, <1>0
<1>3. CASE Recorded
  BY <1>3, <1>0 DEF Recorded, NewRecording
<1>4. CASE Watch \/ ProbingTimeout \/ Verify \/ CaseTimeout
  <2>1. UNCHANGED restOfPromiseVars /\ (EndContext("case") \/ EndContext("probing"))
    BY <1>4 DEF Watch, ProbingTimeout, Verify, CaseTimeout
  <2> QED
    BY <2>1, <1>0, <1>s DEF Others, restOfPromiseVars
<1>5. CASE Hooks
  <2>1. UNCHANGED restOfPromiseVars /\ (EndContext("case") \/ UNCHANGED done)
    BY <1>5 DEF Hooks, HooksStep, ListenFails, Shutdown, Ping, HooksReturn
  <2> QED
    BY <2>1, <1>0, <1>s DEF Others, restOfPromiseVars, promiseVars
<1>6. CASE Callback
  BY <1>6, <1>0 DEF Callback, OnDvr, restOfPromiseVars, promiseVars
<1>7. CASE UNCHANGED promiseVars
  BY <1>7, <1>0
<1> QED
  BY <1>1, <1>2, <1>3, <1>4, <1>5, <1>6, <1>7, Kinds
  DEF Beside, Detect, ProbeBegin, Look, Stat, Awake, Write, SetFile, GiveUp, Report, vars

\* A case does nothing to its processes that ServicePromise does not allow, but that
\* a recording follows another.
THEOREM CaseUsesServices == Spec => PInit /\ [][PNext \/ NewRecording]_promiseVars
<1>1. Init => PInit
  BY DEF Init
<1> QED
  BY <1>1, CaseStepIsPromised, PTL DEF Spec

\* What a case relies on, of the processes that ServicePromise describes: inductive
\* with the types, since the answer of a running process is given only in a case
\* that is over, and no step takes back the context of a process that has answered.
Relied ==
  \A s \in Service :
    /\ run[s] = "idle" => process[s] = "none"
    /\ process[s] = "none" => result[s] = "none"
    /\ process[s] = "never" => result[s] \in {"canceled", "error"}
    /\ run[s] = "returned" => Told(s) /\ CtxDone(s) /\ result[s] # "none"
    /\ result[s] # "none" /\ ~CtxDone(s) /\ process[s] # "never" =>
         process[s] = "gone" /\ result[s] = r0[s]

\* A step of one process leaves what is relied on of the others.
LEMMA OthersRelied ==
  ASSUME Relied, NEW s \in Service, done \subseteq done',
         \A x \in Service \ {s} : /\ run'[x] = run[x] /\ process'[x] = process[x]
                                  /\ r0'[x] = r0[x] /\ result'[x] = result[x],
         /\ run'[s] = "idle" => process'[s] = "none"
         /\ process'[s] = "none" => result'[s] = "none"
         /\ process'[s] = "never" => result'[s] \in {"canceled", "error"}
         /\ run'[s] = "returned" =>
              process'[s] \in {"gone", "never"} /\ CtxOf[s] \in done' /\ result'[s] # "none"
         /\ result'[s] # "none" /\ CtxOf[s] \notin done' /\ process'[s] # "never" =>
              process'[s] = "gone" /\ result'[s] = r0'[s]
  PROVE  Relied'
BY DEF Relied, Told, CtxDone

\* The steps that ServicePromise allows, and a new recording, keep it.
LEMMA ReliedStep ==
  ASSUME PTypeOK, Relied, PNext \/ NewRecording
  PROVE  PTypeOK' /\ Relied'
<1> USE ServiceAssumption
<1>t. /\ run \in [Service -> {"idle", "called", "returned"}]
      /\ process \in [Service -> {"none", "running", "gone", "never"}]
      /\ r0 \in [Service -> {"nil", "error"}]
      /\ result \in [Service -> {"none", "nil", "error", "canceled"}] /\ done \subseteq Context
  BY DEF PTypeOK
<1>1. CASE Others
  <2>1. done \subseteq done' /\ done' \subseteq Context /\ UNCHANGED processes
    BY <1>1, <1>t DEF Others, EndContext, processes
  <2> QED BY <1>t, <2>1 DEF PTypeOK, Relied, Told, CtxDone, processes
<1>2. ASSUME NEW s \in Service, Called(s) PROVE PTypeOK' /\ Relied'
  <2>1. PTypeOK'
    BY <1>2, <1>t DEF Called, PTypeOK
  <2>2. Relied'
    BY <1>2, <1>t, OthersRelied DEF Called, Relied, Told, CtxDone
  <2> QED BY <2>1, <2>2
<1>3. ASSUME NEW s \in Service, NotStarted(s) PROVE PTypeOK' /\ Relied'
  <2>0. PICK answer \in {"canceled", "error"} : result' = [result EXCEPT ![s] = answer]
    BY <1>3 DEF NotStarted
  <2>1. PTypeOK'
    BY <1>3, <1>t, <2>0 DEF NotStarted, PTypeOK
  <2>2. Relied'
    BY <1>3, <1>t, <2>0, OthersRelied DEF NotStarted, Relied, Told, CtxDone
  <2> QED BY <2>1, <2>2
<1>4. ASSUME NEW s \in Service, Started(s) PROVE PTypeOK' /\ Relied'
  <2>1. PTypeOK'
    BY <1>4, <1>t DEF Started, PTypeOK
  <2>2. Relied'
    BY <1>4, <1>t, OthersRelied DEF Started, Relied, Told, CtxDone
  <2> QED BY <2>1, <2>2
<1>5. ASSUME NEW s \in Service, Gone(s) PROVE PTypeOK' /\ Relied'
  <2>0. PICK err \in {"nil", "error"} : r0' = [r0 EXCEPT ![s] = err]
    BY <1>5 DEF Gone
  <2>1. PTypeOK'
    BY <1>5, <1>t, <2>0 DEF Gone, PTypeOK
  <2>2. Relied'
    BY <1>5, <1>t, <2>0, OthersRelied DEF Gone, Relied, Told, CtxDone
  <2> QED BY <2>1, <2>2
<1>6. ASSUME NEW s \in Service, Cancels(s) PROVE PTypeOK' /\ Relied'
  <2>1. done \subseteq done' /\ done' \subseteq Context /\ UNCHANGED processes
    BY <1>6, <1>t DEF Cancels, EndContext, processes
  <2> QED BY <1>t, <2>1 DEF PTypeOK, Relied, Told, CtxDone, processes
<1>7. ASSUME NEW s \in Service, Answers(s) PROVE PTypeOK' /\ Relied'
  <2>0. PICK err \in {"nil", "error"} : /\ result' = [result EXCEPT ![s] = err]
                                        /\ ~CtxDone(s) => Told(s) /\ err = r0[s]
    BY <1>7, <1>t DEF Answers, Told
  <2>1. PTypeOK'
    BY <1>7, <1>t, <2>0 DEF Answers, PTypeOK
  <2>2. Relied'
    BY <1>7, <1>t, <2>0, OthersRelied DEF Answers, Relied, Told, CtxDone
  <2> QED BY <2>1, <2>2
<1>8. ASSUME NEW s \in Service, Returned(s) PROVE PTypeOK' /\ Relied'
  <2>1. PTypeOK'
    BY <1>8, <1>t DEF Returned, PTypeOK
  <2>2. Relied'
    BY <1>8, <1>t, OthersRelied DEF Returned, Relied, Told, CtxDone
  <2> QED BY <2>1, <2>2
<1>9. CASE NewRecording
  <2>1. PTypeOK'
    BY <1>9, <1>t DEF NewRecording, NewProcess, PTypeOK
  <2>2. \A s \in Service : s # "dvr" => (CtxDone(s) => CtxDone(s)')
    BY <1>9, CaseAssumption DEF NewRecording, CtxDone
  <2>3. Relied'
    BY <1>9, <1>t, <2>2 DEF NewRecording, NewProcess, Relied, Told, CtxDone
  <2> QED BY <2>1, <2>3
<1> QED
  BY <1>1, <1>2, <1>3, <1>4, <1>5, <1>6, <1>7, <1>8, <1>9 DEF PNext, PStep

\* What ServicePromise gives to the owner of processes, however many and with
\* whatever contexts.
THEOREM PromiseRelies == PSpec => []OwnerRelies
<1>1. PInit => PTypeOK /\ Relied
  BY DEF PInit, PTypeOK, Relied, Told
<1>2. PTypeOK /\ Relied /\ [PNext]_promiseVars => (PTypeOK /\ Relied)'
  BY ReliedStep DEF PTypeOK, Relied, Told, CtxDone, promiseVars
<1>3. PTypeOK /\ Relied => OwnerRelies
  BY DEF PTypeOK, Relied, OwnerRelies, Told
<1> QED
  BY <1>1, <1>2, <1>3, PTL DEF PSpec

\* And to a test of four processes, however often FFprobe records: its processes are
\* gone when their Run returns, and what Run answers before the case is over is how
\* they ended (blackbox/util.go).
THEOREM CaseRelies == Spec => []OwnerRelies
<1>1. PInit => PTypeOK /\ Relied
  BY DEF PInit, PTypeOK, Relied, Told
<1>2. PTypeOK /\ Relied /\ [PNext \/ NewRecording]_promiseVars => (PTypeOK /\ Relied)'
  BY ReliedStep DEF PTypeOK, Relied, Told, CtxDone, promiseVars
<1>3. PTypeOK /\ Relied => OwnerRelies
  BY DEF PTypeOK, Relied, OwnerRelies, Told
<1> QED
  BY <1>1, <1>2, <1>3, CaseUsesServices, PTL
=============================================================================
