------------------------------- MODULE MCHelpers -------------------------------
(***************************************************************************)
(* One run for the parts that carry bytes and never meet: the media of a   *)
(* GB28181 device, with its file reader and its writer, the UDP proxy and  *)
(* the TCP proxy.  Each behaviour is one of one part, and the others stay  *)
(* as they begin.                                                          *)
(***************************************************************************)
EXTENDS PsMux, H265Reader, PsWriter, UdpProxy, TcpProxy, SequencesExt

\* The part of this behaviour.
VARIABLE part

partVars == <<part, vars, h265Vars, psVars, udpVars, tcpVars>>

\* NALs of a trailing slice, two slices with zeros in them, and an SEI.
MCNal == {<<0, 1, 2>>, <<38, 1, 0, 0, 3, 1>>, <<40, 1, 0, 1>>, <<78, 1, 128>>}
MCUnit == [code : {3, 4}, data : MCNal]

Bytes(units) ==
  FlattenSeq([k \in DOMAIN units |->
    [i \in 1 .. units[k].code |-> IF i = units[k].code THEN 1 ELSE 0] \o units[k].data])

\* The file of some NALs, each behind its start code.
Written(units) ==
  LET before(k) == Len(Bytes(SubSeq(units, 1, k - 1)))
  IN  [bytes |-> Bytes(units),
       nal |-> [k \in DOMAIN units |-> [from |-> before(k) + units[k].code + 1,
                                        to |-> before(k + 1)]]]

\* Up to three NALs; and files that are none, the last two from their first NAL
\* and from their second on.
MCFile ==
  {Written(units) : units \in
    UNION {[1 .. n -> MCUnit] : n \in 0 .. 3} \cup
    {<<[code |-> 3, data |-> <<>>]>>, <<[code |-> 2, data |-> <<>>]>>,
     <<[code |-> 2, data |-> <<38, 1, 38>>]>>,
     <<[code |-> 3, data |-> <<38>>], [code |-> 3, data |-> <<>>], [code |-> 3, data |-> <<38>>]>>}}

\* What does not run begins in one way; the servers are alike, so the first
\* caller may have any of them.
PartsInit ==
  /\ part \in {"mux", "reader", "writer", "udp", "tcp"}
  /\ Init /\ PsInit /\ TcpInit
  /\ H265Init /\ (part # "reader" => file = Written(<<>>))
  /\ UdpInit
  /\ LET any == CHOOSE s \in Server : TRUE
     IN  IF part = "udp" THEN target[CHOOSE w \in Caller : TRUE] = any
         ELSE target = [w \in Caller |-> any]

PartsNext ==
  /\ UNCHANGED part
  /\ \/ part = "mux" /\ Next /\ UNCHANGED <<h265Vars, psVars, udpVars, tcpVars>>
     \/ part = "reader" /\ H265Next /\ UNCHANGED <<vars, psVars, udpVars, tcpVars>>
     \/ part = "writer" /\ PsNext /\ UNCHANGED <<vars, h265Vars, udpVars, tcpVars>>
     \/ part = "udp" /\ UdpNext /\ UNCHANGED <<vars, h265Vars, psVars, tcpVars>>
     \/ part = "tcp" /\ TcpNext /\ UNCHANGED <<vars, h265Vars, psVars, udpVars>>

\* What does not run enables nothing: the fairness of the others asks nothing.
PartsSpec ==
  /\ PartsInit /\ [][PartsNext]_partVars
  /\ UdpFairness /\ TcpFairness
=============================================================================
