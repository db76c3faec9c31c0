------------------------------- MODULE PsWriter -------------------------------
(***************************************************************************)
(* How the frames of a GB28181 device become packets on a connection       *)
(* (gb28181/ps.go): WriteVideo cuts a NAL into PES packets, WriteAudio     *)
(* makes one of an ADTS frame, and WritePacksOverRTP sends each in an RTP  *)
(* packet with its length before it.  Which frames make a pack is in       *)
(* PsMux; the headers of a pack, all of fixed lengths, are left out.       *)
(***************************************************************************)
EXTENDS Integers, Sequences

CONSTANTS
  ideaPesLength,  \* 1400
  Peeked,         \* what AACReader asks its file for: 7 + 1024
  Nalu,           \* the lengths of NALs
  Adts,           \* the lengths of ADTS frames
  Field,          \* 2^16, for lengths
  SeqField,       \* 2^16, for sequence numbers
  MaxWritten      \* bound: the frames written

\* The fixed parts of a PES packet after its length, before its payload, and of
\* an RTP packet.
pesAfterLength == 13
pesHeader == 19
rtpHeader == 12

ASSUME PsAssumption ==
  /\ ideaPesLength \in Nat \ {0} /\ Peeked \in Nat /\ MaxWritten \in Nat
  /\ Nalu \subseteq Nat /\ Adts \subseteq Nat \ {0}
  /\ Field \in Nat /\ SeqField \in Nat \ {0}
  /\ ideaPesLength + pesHeader + rtpHeader < Field /\ Peeked + pesHeader + rtpHeader < Field

VARIABLES
  writer,   \* "mux", "send", "half" when the length of a packet is written, "failed"
  frameOf,  \* the lengths of the frames written so far, as they are in PES packets
  pes,      \* the PES packets of them
  seq,      \* of PSClient
  onWire    \* the RTP packets sent; the k-th is for the k-th PES packet

psVars == <<writer, frameOf, pes, seq, onWire>>

Least(a, b) == IF a <= b THEN a ELSE b

\* A piece of the n-th frame, with the length that utilUpdatePesPacketLength
\* puts in its header.
Piece(n, from, size) ==
  [frame |-> n, from |-> from, size |-> size, length |-> (size + pesAfterLength) % Field]

PsInit == writer = "mux" /\ frameOf = <<>> /\ pes = <<>> /\ seq = 0 /\ onWire = <<>>

-----------------------------------------------------------------------------
(* PSPackStream.                                                            *)

\* Mutant: the loop ends when less than a whole PES packet is left.
CutWhole(n, length) ==
  [k \in 1 .. length \div ideaPesLength |->
     LET i == (k - 1) * ideaPesLength IN Piece(n, i, Least(ideaPesLength, length - i))]

\* for i := 0; i < len(annexb); i += v.ideaPesLength
Cut(n, length) ==
  [k \in 1 .. (length + ideaPesLength - 1) \div ideaPesLength |->
     LET i == (k - 1) * ideaPesLength IN Piece(n, i, Least(ideaPesLength, length - i))]

WriteFrame(pieces, length) ==
  /\ frameOf' = Append(frameOf, length) /\ pes' = pes \o pieces
  /\ UNCHANGED <<writer, seq, onWire>>

\* A NAL, with a start code of four bytes before it.
MuxVideo(n) ==
  /\ writer = "mux" /\ Len(frameOf) < MaxWritten
  /\ WriteFrame(Cut(Len(frameOf) + 1, n + 4), n + 4)

\* NextADTSFrame and WriteAudio: a frame that is longer than what was peeked
\* does not decode, and its end ends the device.
MuxAudio(n) ==
  /\ writer = "mux" /\ Len(frameOf) < MaxWritten /\ n <= Peeked
  /\ WriteFrame(<<Piece(Len(frameOf) + 1, 0, n)>>, n)

AdtsFails(n) ==
  /\ writer = "mux" /\ n > Peeked
  /\ writer' = "failed"
  /\ UNCHANGED <<frameOf, pes, seq, onWire>>

-----------------------------------------------------------------------------
(* WritePacksOverRTP, over the PES packets of the pack.                     *)

WritePacks ==
  /\ writer = "mux" /\ Len(onWire) < Len(pes)
  /\ writer' = "send"
  /\ UNCHANGED <<frameOf, pes, seq, onWire>>

\* The PES packet whose turn it is.
NextPiece == pes[Len(onWire) + 1]

WriteLength ==
  /\ writer = "send" /\ Len(onWire) < Len(pes)
  /\ writer' = "half" /\ seq' = (seq + 1) % SeqField
  /\ UNCHANGED <<frameOf, pes, onWire>>

WritePayload ==
  LET size == NextPiece.size + pesHeader + rtpHeader
  IN  /\ writer = "half"
      /\ writer' = "send"
      /\ onWire' = Append(onWire, [seq |-> seq, announced |-> size % Field, size |-> size])
      /\ UNCHANGED <<frameOf, pes, seq>>

WritePacksReturns ==
  /\ writer = "send" /\ Len(onWire) = Len(pes)
  /\ writer' = "mux"
  /\ UNCHANGED <<frameOf, pes, seq, onWire>>

\* Either write fails: Ingest returns and closes the connection.
WritePacksFails ==
  /\ writer \in {"send", "half"} /\ Len(onWire) < Len(pes)
  /\ writer' = "failed"
  /\ UNCHANGED <<frameOf, pes, seq, onWire>>

-----------------------------------------------------------------------------

PsNext ==
  \/ \E n \in Nalu : MuxVideo(n)
  \/ \E n \in Adts : MuxAudio(n) \/ AdtsFails(n)
  \/ WritePacks \/ WriteLength \/ WritePayload \/ WritePacksReturns \/ WritePacksFails

PsSpec == PsInit /\ [][PsNext]_psVars

-----------------------------------------------------------------------------
(* Properties.                                                              *)

PsTypeOK ==
  /\ writer \in {"mux", "send", "half", "failed"}
  /\ frameOf \in Seq(Nat)
  /\ pes \in Seq([frame : Nat, from : Nat, size : Nat, length : Nat])
  /\ seq \in 0 .. SeqField - 1
  /\ onWire \in Seq([seq : Nat, announced : Nat, size : Nat])

\* q is the first piece of the frame after p's, which p ends, or p's next piece.
Continues(p, q) ==
  \/ q.frame = p.frame /\ q.from = p.from + p.size
  \/ q.frame = p.frame + 1 /\ q.from = 0 /\ p.from + p.size = frameOf[p.frame]

\* The pieces are the frames, whole and in order, none empty.
FramesWhole ==
  /\ \A k \in DOMAIN pes : pes[k].size > 0
  /\ \A k \in DOMAIN pes : k > 1 => Continues(pes[k - 1], pes[k])
  /\ pes = <<>> => frameOf = <<>>
  /\ pes # <<>> => pes[1].frame = 1 /\ pes[1].from = 0
  /\ pes # <<>> =>
       LET last == pes[Len(pes)]
       IN  last.frame = Len(frameOf) /\ last.from + last.size = frameOf[last.frame]

\* No length is cut off by its 16 bits: every PES packet, and every RTP packet
\* on the connection, is as long as the field before it says, so the server
\* finds the next one.
LengthsHold ==
  /\ \A k \in DOMAIN pes : pes[k].length = pes[k].size + pesAfterLength
  /\ \A k \in DOMAIN onWire :
       /\ onWire[k].announced = onWire[k].size
       /\ k <= Len(pes) /\ onWire[k].size = pes[k].size + pesHeader + rtpHeader

\* What is on the wire are the frames, piece by piece and in order, each as long
\* as the two lengths in front of it say, with consecutive sequence numbers,
\* whatever the sizes of the frames and wherever the connection fails: so the
\* server can put them together and miss none.
ServerCanRead ==
  /\ FramesWhole /\ LengthsHold
  /\ \A k \in DOMAIN onWire : onWire[k].seq = k % SeqField
=============================================================================
