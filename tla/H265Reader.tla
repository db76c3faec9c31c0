------------------------------ MODULE H265Reader ------------------------------
(***************************************************************************)
(* The reader of H.265 files (gb28181/h265reader.go): a scanner that knows *)
(* a NAL by the start code after it, passes over SEI, and gives the caller *)
(* one NAL a call until the file is at its end.  A file is its bytes; from *)
(* where to where its NALs reach, only whoever wrote it knows.             *)
(***************************************************************************)
EXTENDS Integers, Sequences

CONSTANT File  \* the files

Byte == 0 .. 255

ASSUME FileAssumption ==
  \A f \in File : f.bytes \in Seq(Byte) /\ f.nal \in Seq([from : Nat, to : Nat])

VARIABLES
  file,       \* the file
  taken,      \* how many of its bytes have been read
  nalBuffer,
  countOfConsecutiveZeroBytes,
  nalPrefixParsed,
  nals,       \* what NextNAL has returned
  scanner     \* "scan", or how NextNAL has ended the reading

h265Vars == <<file, taken, nalBuffer, countOfConsecutiveZeroBytes, nalPrefixParsed, nals, scanner>>

H265TypeOK ==
  /\ file.bytes \in Seq(Byte) /\ file.nal \in Seq([from : Nat, to : Nat])
  /\ taken \in 0 .. Len(file.bytes) /\ nalBuffer \in Seq(Byte)
  /\ countOfConsecutiveZeroBytes \in Nat /\ nalPrefixParsed \in BOOLEAN
  /\ nals \in Seq(Seq(Byte)) /\ scanner \in {"scan", "eof", "error", "panic"}

\* (firstByte & 0x7E) >> 1; SEI and SEI suffix.
UnitType(nal) == (nal[1] % 128) \div 2
IsSei(nal) == UnitType(nal) \in {39, 40}

H265Init ==
  /\ file \in File /\ taken = 0
  /\ nalBuffer = <<>> /\ countOfConsecutiveZeroBytes = 0 /\ nalPrefixParsed = FALSE
  /\ nals = <<>> /\ scanner = "scan"

-----------------------------------------------------------------------------

Stops(how) ==
  /\ scanner' = how
  /\ UNCHANGED <<file, taken, nalBuffer, countOfConsecutiveZeroBytes, nalPrefixParsed, nals>>

Left == Len(file.bytes) - taken
StartCode(n) == \A i \in 1 .. n : file.bytes[taken + i] = IF i = n THEN 1 ELSE 0

\* bitStreamStartsWithH265Prefix. Of four bytes with a start code of three the
\* last begins the NAL; it is not looked at as processByte would.
ParsePrefix ==
  /\ scanner = "scan" /\ ~nalPrefixParsed /\ Left >= 4
  /\ \/ StartCode(3) /\ nalBuffer' = <<file.bytes[taken + 4]>>
     \/ StartCode(4) /\ UNCHANGED nalBuffer
  /\ nalPrefixParsed' = TRUE /\ taken' = taken + 4
  /\ UNCHANGED <<file, countOfConsecutiveZeroBytes, nals, scanner>>

NoPrefix ==
  /\ scanner = "scan" /\ ~nalPrefixParsed
  /\ \/ Left = 0 /\ Stops("eof")
     \/ Left = 3 /\ StartCode(3) /\ Stops("eof")
     \/ Left \in {1, 2} /\ Stops("error")
     \/ Left >= 3 /\ ~StartCode(3) /\ (Left = 3 \/ ~StartCode(4)) /\ Stops("error")

Reading == scanner = "scan" /\ nalPrefixParsed /\ Left > 0
readByte == file.bytes[taken + 1]
EndsNal == readByte = 1 /\ countOfConsecutiveZeroBytes >= 2

\* processByte, when no start code ends here.
ReadByte ==
  /\ Reading /\ ~EndsNal
  /\ taken' = taken + 1 /\ nalBuffer' = Append(nalBuffer, readByte)
  /\ countOfConsecutiveZeroBytes' =
       IF readByte = 0 THEN countOfConsecutiveZeroBytes + 1 ELSE 0
  /\ UNCHANGED <<file, nalPrefixParsed, nals, scanner>>

\* Mutant: a start code has two zeros.
TwoZeros == SubSeq(nalBuffer, 1, Len(nalBuffer) - 2)

\* The buffer without the zeros of the start code; of more than three the
\* first ones stay.
WithoutCode ==
  SubSeq(nalBuffer, 1, Len(nalBuffer) - (IF countOfConsecutiveZeroBytes > 2 THEN 3 ELSE 2))

\* SEI is dropped, and the loop goes on.
FindNal ==
  /\ Reading /\ EndsNal /\ WithoutCode # <<>>
  /\ nals' = IF IsSei(WithoutCode) THEN nals ELSE Append(nals, WithoutCode)
  /\ taken' = taken + 1 /\ nalBuffer' = <<>> /\ countOfConsecutiveZeroBytes' = 0
  /\ UNCHANGED <<file, nalPrefixParsed, scanner>>

\* parseHeader of a NAL without bytes.
EmptyNal == Reading /\ EndsNal /\ WithoutCode = <<>> /\ Stops("panic")

\* What the end of the file leaves in the buffer is returned, whatever it is.
LastNal ==
  /\ scanner = "scan" /\ nalPrefixParsed /\ Left = 0 /\ nalBuffer # <<>>
  /\ nals' = Append(nals, nalBuffer) /\ nalBuffer' = <<>>
  /\ UNCHANGED <<file, taken, countOfConsecutiveZeroBytes, nalPrefixParsed, scanner>>

EndOfFile ==
  /\ scanner = "scan" /\ nalPrefixParsed /\ Left = 0 /\ nalBuffer = <<>>
  /\ Stops("eof")

H265Next == ParsePrefix \/ NoPrefix \/ ReadByte \/ FindNal \/ EmptyNal \/ LastNal \/ EndOfFile

H265Spec == H265Init /\ [][H265Next]_h265Vars

-----------------------------------------------------------------------------
(* Properties.                                                              *)

NalAt(f, k) == SubSeq(f.bytes, f.nal[k].from, f.nal[k].to)
EndOf(f, k) == IF k = 0 THEN 0 ELSE f.nal[k].to

\* What an encoder writes: each NAL behind a start code of three or four bytes;
\* no NAL is empty, ends in a zero or holds a start code; and nothing follows.
WellFormedFile(f) ==
  /\ \A k \in DOMAIN f.nal :
       LET from == f.nal[k].from
           to == f.nal[k].to
       IN  /\ from - EndOf(f, k - 1) \in {4, 5} /\ from <= to /\ to <= Len(f.bytes)
           /\ f.bytes[from - 1] = 1
           /\ \A i \in EndOf(f, k - 1) + 1 .. from - 2 : f.bytes[i] = 0
           /\ f.bytes[to] # 0
           /\ \A i \in from .. to - 2 :
                ~(f.bytes[i] = 0 /\ f.bytes[i + 1] = 0 /\ f.bytes[i + 2] = 1)
  /\ EndOf(f, Len(f.nal)) = Len(f.bytes)

\* These NALs of the file, in their order, and no others.
Lists(f, seq, some) ==
  \E g \in [DOMAIN seq -> some] :
    /\ \A i, j \in DOMAIN seq : i < j => g[i] < g[j]
    /\ \A k \in some : \E i \in DOMAIN seq : g[i] = k
    /\ \A i \in DOMAIN seq : seq[i] = NalAt(f, g[i])

\* A file of NALs is read as its NALs, in their order and to the last byte, but
\* for the SEI that another NAL follows, whatever start codes are before them and
\* whatever zeros are in them; and nothing of it makes the reader fail.
ReadsNals ==
  WellFormedFile(file) =>
    /\ scanner \in {"scan", "eof"}
    /\ scanner = "eof" =>
         Lists(file, nals,
               {k \in DOMAIN file.nal : k = Len(file.nal) \/ ~IsSei(NalAt(file, k))})
=============================================================================
