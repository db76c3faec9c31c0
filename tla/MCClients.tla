------------------------------ MODULE MCClients ------------------------------
(***************************************************************************)
(* One run for clients that never meet: a WebRTC publisher of a benchmark, *)
(* and the RTMP and HTTP-FLV clients of a regression test.                 *)
(***************************************************************************)
EXTENDS RtcPublish, RtmpTest

\* The client of this behaviour.
VARIABLE client

clientVars == <<client, vars, rtmpVars>>

\* The one that does not run begins in one way.
ClientsInit ==
  /\ client \in {"webrtc", "rtmp"}
  /\ Init /\ (client # "webrtc" => program = "srs" /\ ~cap)
  /\ RtmpInit /\ (client # "rtmp" => kind = "rtmp")

ClientsNext ==
  /\ UNCHANGED client
  /\ \/ client = "webrtc" /\ Next /\ UNCHANGED rtmpVars
     \/ client = "rtmp" /\ RtmpNext /\ UNCHANGED vars

\* Each is scheduled when it is there.
ClientsSpec ==
  /\ ClientsInit /\ [][ClientsNext]_clientVars
  /\ client = "webrtc" => Fairness
  /\ client = "rtmp" => RtmpFairness
=============================================================================
