----------------------------- MODULE RpcPromise -----------------------------
(***************************************************************************)
(* What a caller of the Janus signaling API may rely on, without sessions, *)
(* HTTP exchanges, polling or channels: a request is begun at most once,   *)
(* the server decides it at most once, and the call succeeds only after a  *)
(* decision its operation accepts.  A call may fail at any time.           *)
(***************************************************************************)
CONSTANTS
  Tid,              \* the transaction ids, one per call
  Verdict,          \* what the server may decide
  Accepts(_, _)     \* Accepts(t, v): call t reports success on decision v

VARIABLES
  status,           \* [Tid -> Status]
  decided           \* [Tid -> Verdict or "none"]

Status == {"idle", "pending", "ok", "failed"}

PTypeOK ==
  /\ status \in [Tid -> Status]
  /\ decided \in [Tid -> Verdict \cup {"none"}]

PInit ==
  /\ status = [t \in Tid |-> "idle"]
  /\ decided = [t \in Tid |-> "none"]

PBegin(t) ==
  /\ status[t] = "idle"
  /\ status' = [status EXCEPT ![t] = "pending"]
  /\ UNCHANGED decided

\* The server may decide a request whose caller has already given up.
PDecide(t, v) ==
  /\ status[t] # "idle" /\ decided[t] = "none"
  /\ decided' = [decided EXCEPT ![t] = v]
  /\ UNCHANGED status

PSucceed(t) ==
  /\ status[t] = "pending"
  /\ decided[t] # "none" /\ Accepts(t, decided[t])
  /\ status' = [status EXCEPT ![t] = "ok"]
  /\ UNCHANGED decided

PFail(t) ==
  /\ status[t] = "pending"
  /\ status' = [status EXCEPT ![t] = "failed"]
  /\ UNCHANGED decided

PNext ==
  \E t \in Tid :
    \/ PBegin(t) \/ PSucceed(t) \/ PFail(t)
    \/ \E v \in Verdict : PDecide(t, v)

PSpec == PInit /\ [][PNext]_<<status, decided>>
=============================================================================
