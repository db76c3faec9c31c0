---------------------------- MODULE BlackboxCase ----------------------------
(* One black-box test, as blackbox/hevc_test.go and dvr_test.go write them, with
   the clients of blackbox/util.go: a server, an FFmpeg that publishes, and an
   FFprobe that records the stream to a file and verifies it.  When dvrBySrs,
   the server records, and tells the hooks service of the file.              *)
EXTENDS HooksService

CONSTANT MaxTries   \* bound: how often FFprobe starts to record

(* FFmpeg and FFprobe have contexts below that of the case, each recording one
   below that of FFprobe.                                                    *)
ASSUME CaseAssumption ==
  /\ MaxTries \in Nat
  /\ Service = {"srs", "ffmpeg", "dvr", "probe"}
  /\ Context = {"case", "ffmpeg", "probing", "dvr"}
  /\ CtxOf = [s \in Service |-> IF s \in {"ffmpeg", "dvr"} THEN s ELSE "case"]
  /\ \A c \in Context \ {"case"} : "case" \notin Below[c]

VARIABLES
  dvrBySrs,   \* which kind of test this is
  srs,        \* the goroutine that runs the server
  ffprobe,    \* the goroutine that runs FFprobe
  detected,   \* whether the API of the server has answered
  tries,      \* recordings started
  file,       \* whether the recorded file is known and large enough
  probed,     \* doneCtx of FFprobe
  setter,     \* the goroutine of the test that reads the events of the hooks
  canceler,   \* who has ended the context of the case
  test,       \* where the test is
  wrong,      \* whether a check of the probed stream failed
  verdict     \* what the test reports

clientVars == <<dvrBySrs, srs, ffprobe, detected, tries, file, probed, setter>>
testVars == <<canceler, test, wrong, verdict>>
restOfPromiseVars == <<run, process, r0, result>>
probeRest == <<hookVars, dvrBySrs, srs, detected, tries, file, probed,
               setter, testVars>>
vars == <<promiseVars, hookVars, clientVars, testVars>>

TypeOK ==
  /\ PTypeOK /\ HooksTypeOK
  /\ srs \in {"await", "run", "nodir"}
  /\ ffprobe \in {"await", "loop", "dvr", "stat", "sleep", "check", "run", "ignored"}
  /\ setter \in {"range", "done"} /\ tries \in 0..MaxTries
  /\ {dvrBySrs, detected, file, probed, wrong} \subseteq BOOLEAN
  /\ canceler \in Service \cup {"nobody", "other", "timeout"}
  /\ test \in {"select", "wait", "returned"} /\ verdict \in {"none", "pass", "fail"}

Init ==
  /\ PInit
  /\ dvrBySrs \in BOOLEAN
  /\ HooksInit(dvrBySrs)
  /\ setter = IF dvrBySrs THEN "range" ELSE "done"
  /\ srs = "await" /\ ffprobe = "await"
  /\ detected = FALSE
  /\ tries = 0 /\ file = FALSE /\ probed = FALSE
  /\ canceler = "nobody" /\ test = "select" /\ wrong = FALSE /\ verdict = "none"

(* The first who ends the case decides what the others know of it. *)
EndedBy(who) == canceler' = IF "case" \in done' \ done THEN who ELSE canceler

(* A new process in place of one that has returned. *)
NewProcess(s) ==
  /\ run' = [run EXCEPT ![s] = "idle"] /\ process' = [process EXCEPT ![s] = "none"]
  /\ r0' = [r0 EXCEPT ![s] = "nil"] /\ result' = [result EXCEPT ![s] = "none"]

-----------------------------------------------------------------------------
(* The server and its client.  When the directory cannot be made, its Run returns
   before the process exists, and with it all that could end readyCtx.       *)
SrsBegin ==
  /\ srs = "await" /\ (dvrBySrs => hooksReady)
  /\ \/ srs' = "run" /\ Called("srs")
     \/ srs' = "nodir" /\ UNCHANGED promiseVars
  /\ UNCHANGED <<hookVars, dvrBySrs, ffprobe, detected, tries, file, probed, setter, testVars>>

(* A goroutine polls the API until it answers or the case is done. *)
Detect ==
  /\ process["srs"] = "running" /\ ~detected
  /\ detected' = TRUE
  /\ UNCHANGED <<promiseVars, hookVars, dvrBySrs, srs, ffprobe, tries, file, probed, setter,
                 testVars>>

(* readyCtx of the server: its API answered, or its onStop was called. *)
SrsReady == detected \/ Told("srs")

-----------------------------------------------------------------------------
(* FFmpeg.  Its context is below that of the case, and a watcher takes the case
   down with it, unless the test keeps the case.                             *)
FFmpegBegin ==
  /\ SrsReady /\ Called("ffmpeg")
  /\ UNCHANGED <<hookVars, clientVars, testVars>>

Watch ==
  /\ ~dvrBySrs
  /\ run["ffmpeg"] # "idle" /\ "ffmpeg" \in done /\ "case" \notin done
  /\ EndContext("case") /\ EndedBy("other")
  /\ UNCHANGED <<restOfPromiseVars, hookVars, clientVars, test, wrong, verdict>>

-----------------------------------------------------------------------------
(* FFprobe: record until there is a file or the time is over, then probe. *)
Goes(from, to) == ffprobe = from /\ ffprobe' = to

ProbeBegin ==
  /\ SrsReady /\ Goes("await", "loop")
  /\ UNCHANGED <<promiseVars, probeRest>>

(* doDVR.  Its result is ignored, and the next recording has a context and a
   process of its own.                                                       *)
Record ==
  /\ ~dvrBySrs /\ "probing" \notin done
  /\ tries < MaxTries /\ tries' = tries + 1
  /\ Goes("loop", "dvr") /\ Called("dvr")
  /\ UNCHANGED <<hookVars, dvrBySrs, srs, detected, file, probed, setter,
                 testVars>>

(* When another records, the loop only looks for the file. *)
Look ==
  /\ dvrBySrs /\ "probing" \notin done
  /\ file /\ Goes("loop", "check")
  /\ UNCHANGED <<promiseVars, probeRest>>

(* Mutant: the next look does not wait for doDVR. *)
RecordedUnwaited ==
  /\ Goes("dvr", "stat")
  /\ UNCHANGED <<promiseVars, probeRest>>

Recorded ==
  /\ run["dvr"] = "returned" /\ Goes("dvr", "stat")
  /\ NewProcess("dvr") /\ done' = IF "probing" \in done THEN done ELSE done \ {"dvr"}
  /\ UNCHANGED probeRest

Stat ==
  /\ Goes("stat", IF file THEN "check" ELSE "sleep")
  /\ UNCHANGED <<promiseVars, probeRest>>

Awake ==
  /\ \/ Goes("sleep", "loop")
     \/ "probing" \in done /\ Goes("loop", "check")
  /\ UNCHANGED <<promiseVars, probeRest>>

(* doProbe, unless the case is over. *)
Check ==
  /\ IF "case" \in done THEN Goes("check", "ignored") /\ UNCHANGED promiseVars
     ELSE Goes("check", "run") /\ Called("probe")
  /\ UNCHANGED probeRest

ProbingTimeout ==
  /\ ffprobe \in {"loop", "dvr", "stat", "sleep"} /\ "probing" \notin done
  /\ EndContext("probing")
  /\ UNCHANGED <<restOfPromiseVars, hookVars, clientVars, testVars>>

-----------------------------------------------------------------------------
(* What the processes and the server do. *)
Write ==
  /\ process["dvr"] = "running" /\ ~file /\ file' = TRUE
  /\ UNCHANGED <<promiseVars, hookVars, dvrBySrs, srs, ffprobe, detected, tries,
                 probed, setter, testVars>>

(* The server tells of the file when the publisher has left. *)
Callback ==
  /\ process["srs"] = "running" /\ process["ffmpeg"] = "gone"
  /\ OnDvr
  /\ UNCHANGED <<restOfPromiseVars, clientVars, testVars>>

(* The goroutine that ranges over the events of the hooks. *)
SetFile ==
  /\ setter = "range"
  /\ \/ events = 1 /\ events' = 0 /\ file' \in BOOLEAN /\ UNCHANGED setter
     \/ events = 0 /\ Closed /\ setter' = "done" /\ UNCHANGED <<events, file>>
  /\ UNCHANGED <<promiseVars, hooks, listener, hooksReady, hooksError, handed,
                 dvrBySrs, srs, ffprobe, detected, tries, probed, testVars>>

-----------------------------------------------------------------------------
(* The test. *)
Verify ==
  /\ test = "select" /\ probed
  /\ test' = "wait"
  /\ wrong' \in IF file THEN BOOLEAN ELSE {TRUE}
  /\ EndContext("case") /\ EndedBy("other")
  /\ UNCHANGED <<restOfPromiseVars, hookVars, clientVars, verdict>>

GiveUp ==
  /\ test = "select" /\ "case" \in done
  /\ test' = "wait"
  /\ UNCHANGED <<promiseVars, hookVars, clientVars, canceler, wrong, verdict>>

CaseTimeout ==
  /\ "case" \notin done
  /\ EndContext("case") /\ EndedBy("timeout")
  /\ UNCHANGED <<restOfPromiseVars, hookVars, clientVars, test, wrong, verdict>>

AllReturned ==
  /\ srs = "run" => run["srs"] = "returned"
  /\ run["ffmpeg"] = "returned"
  /\ ffprobe \in {"ignored", "run"} /\ (ffprobe = "run" => run["probe"] = "returned")
  /\ hooks \in {"unused", "returned"} /\ setter = "done"

(* Mutant: the error of the server is not among those that are filtered. *)
FailedButServer ==
  \/ canceler = "timeout" \/ wrong \/ hooksError
  \/ srs = "nodir"
  \/ \E s \in {"ffmpeg", "probe"} : result[s] = "error"

(* filterTestError: a canceled case is no error, a case out of time is one. *)
Failed ==
  \/ canceler = "timeout" \/ wrong \/ hooksError
  \/ srs = "nodir"
  \/ \E s \in {"srs", "ffmpeg", "probe"} : result[s] = "error"

Report ==
  /\ test = "wait" /\ AllReturned
  /\ test' = "returned" /\ verdict' = IF Failed THEN "fail" ELSE "pass"
  /\ UNCHANGED <<promiseVars, hookVars, clientVars, canceler, wrong>>

-----------------------------------------------------------------------------
(* onStop of FFprobe parses what the process has written; doneCtx, or an error. *)
Parse == probed' \in BOOLEAN /\ (~probed' => r0'["probe"] = "error")

(* A step of Run of a service.  The exit status of FFmpeg is ignored, and so is
   all that a recording returns.                                             *)
Runs(s, step) ==
  /\ step /\ EndedBy(IF s = "ffmpeg" THEN "other" ELSE s)
  /\ \A f \in {"ffmpeg", "dvr"} :
       r0'[f] = "nil" /\ (result'[f] = "error" => process'[f] = "never")
  /\ IF process["probe"] = "running" /\ process'["probe"] = "gone"
     THEN Parse ELSE UNCHANGED probed
  /\ UNCHANGED <<hookVars, dvrBySrs, srs, ffprobe, detected, tries, file,
                 setter, test, wrong, verdict>>
Hooks ==
  /\ HooksStep /\ EndedBy("other")
  /\ UNCHANGED <<restOfPromiseVars, clientVars, test, wrong, verdict>>
SrsClient == SrsBegin \/ Detect
FFmpegClient == FFmpegBegin \/ Watch
ProbeClient == ProbeBegin \/ Record \/ Look \/ Recorded \/ Stat \/ Awake \/ Check
TestStep == Verify \/ GiveUp \/ Report

(* Steps that goroutines and timers take sooner or later.  A killed process dies;
   but no process exits, no stream is recorded and no hook called for sure.  *)
Progress ==
  \/ \E s \in Service : Runs(s, Ends(s))
  \/ Hooks \/ SetFile \/ SrsClient \/ FFmpegClient \/ ProbeClient
  \/ ProbingTimeout \/ CaseTimeout \/ TestStep

Next ==
  \/ Progress \/ Write \/ Callback
  \/ \E s \in Service : Runs(s, Gone(s))

Spec == Init /\ [][Next]_vars

(* Every run of a case is finite, so that one condition serves them all. *)
FairSpec == Spec /\ WF_vars(Progress)

-----------------------------------------------------------------------------
(* Properties. *)

(* A process whose bad end ends the case fails the test: its error is recorded
   before anybody can learn that it is gone.                                 *)
CrashReported ==
  test = "returned" /\ canceler \in Service /\ r0[canceler] = "error" => verdict = "fail"

(* The file is not probed while it is recorded: doDVR returns when its process
   is gone, whoever ended it.                                                *)
RecordedBeforeProbed == process["probe"] = "running" => process["dvr"] # "running"

(* A test ends, with all its processes, in all cases but one: a server without a
   directory leaves the clients waiting for readyCtx, which no timeout ends. *)
CaseEnds == <>(test = "returned" \/ srs = "nodir")
=============================================================================
