---------------------------- MODULE Helpers_proof ----------------------------
(***************************************************************************)
(* Theorems about the parts that carry bytes.  Of the media of a GB28181   *)
(* device: how audio and video are interleaved, for every rate and for     *)
(* files of any length, and how their frames are written, for frames of    *)
(* any length.  Of its file reader: every NAL of a file is found, for any  *)
(* bytes in the NALs and any number of them.  Of the proxies, for any      *)
(* callers, servers, clients, sockets and connections: a server knows a    *)
(* client of a worker by one address, Close has waited for everything of a *)
(* running worker it came to, and an end of a TCP connection that shuts    *)
(* its half has all that it sent passed on.                                *)
(***************************************************************************)
EXTENDS PsMux, H265Reader, PsWriter, UdpProxy, TcpProxy, SequenceTheorems, TLAPS

-----------------------------------------------------------------------------
(* Rounded quotients.  The rates are Pos.                                   *)

Pos == Nat \ {0}

\* A quotient is the whole number of divisors that fit.
LEMMA DivBounds ==
  ASSUME NEW x \in Nat, NEW d \in Pos
  PROVE x \div d \in Nat /\ d * (x \div d) <= x /\ x < d * (x \div d) + d
BY Z3 DEF Pos

\* d q <= x is what bounds a quotient from below.
LEMMA ProductMono ==
  ASSUME NEW d \in Pos, NEW p \in Int, NEW q \in Int, p <= q
  PROVE d * p <= d * q
BY Z3 DEF Pos

\* A later time is not earlier in ticks.
LEMMA DivMono ==
  ASSUME NEW x \in Nat, NEW y \in Nat, NEW d \in Pos, x <= y
  PROVE x \div d <= y \div d
<1> DEFINE p == x \div d  q == y \div d
<1>1. p \in Nat /\ q \in Nat /\ d * p <= x /\ y < d * q + d
  BY DivBounds
<1>2. CASE q + 1 <= p
  <2>1. d * (q + 1) <= d * p BY <1>1, <1>2, ProductMono
  <2>2. d * (q + 1) = d * q + d BY <1>1, Z3 DEF Pos
  <2> HIDE DEF p, q
  <2> QED BY <1>1, <2>1, <2>2, Z3 DEF Pos
<1>3. CASE p <= q BY <1>3
<1> QED
  <2> HIDE DEF p, q
  <2> QED BY <1>1, <1>2, <1>3 DEF p, q

\* The ticks of a sum, up to one.
LEMMA DivSum ==
  ASSUME NEW x \in Nat, NEW y \in Nat, NEW d \in Pos
  PROVE (x + y) \div d <= x \div d + y \div d + 1
<1> DEFINE p == x \div d  q == y \div d  s == (x + y) \div d
<1>1. p \in Nat /\ q \in Nat /\ s \in Nat
  BY DivBounds
<1>2. x < d * p + d /\ y < d * q + d /\ d * s <= x + y
  BY DivBounds
<1> HIDE DEF p, q, s
<1>3. CASE p + q + 2 <= s
  <2>1. d * (p + q + 2) <= d * s BY <1>1, <1>3, ProductMono
  <2>2. d * (p + q + 2) = d * p + d * q + d + d BY <1>1, Z3 DEF Pos
  <2>3. d * p \in Nat /\ d * q \in Nat /\ d * s \in Nat BY <1>1, Z3 DEF Pos
  <2> QED BY <1>2, <2>1, <2>2, <2>3, Z3 DEF Pos
<1>4. CASE s <= p + q + 1 BY <1>4 DEF p, q, s
<1> QED BY <1>1, <1>3, <1>4

\* Crosswise multiplication: the time y/e is not later than x/d.
LEMMA NotLate ==
  ASSUME NEW x \in Nat, NEW y \in Nat, NEW d \in Pos, NEW e \in Pos,
         y \div e <= x \div d
  PROVE y * d < x * e + d * e
<1> DEFINE p == x \div d  q == y \div e
<1>1. p \in Nat /\ q \in Nat /\ q <= p /\ d * p <= x /\ y < e * q + e
  BY DivBounds
<1> HIDE DEF p, q
<1>2. y + 1 <= e * (p + 1)
  <2>1. e * q <= e * p BY <1>1, ProductMono
  <2>2. e * (p + 1) = e * p + e /\ e * p \in Nat /\ e * q \in Nat BY <1>1, Z3 DEF Pos
  <2> QED BY <1>1, <2>1, <2>2, Z3 DEF Pos
<1>3. d * (y + 1) <= d * (e * (p + 1))
  <2>1. e * (p + 1) \in Int BY <1>1, Z3 DEF Pos
  <2> QED BY <1>2, <2>1, ProductMono
<1>4. e * (d * p) <= e * x
  <2>1. d * p \in Int BY <1>1, Z3 DEF Pos
  <2> QED BY <1>1, <2>1, ProductMono
<1>5. d * (e * (p + 1)) = e * (d * p) + d * e BY <1>1, Z3 DEF Pos
<1>6. d * (y + 1) = y * d + d /\ y * d \in Nat /\ e * x = x * e /\ x * e \in Nat
  BY Z3 DEF Pos
<1>7. d * e \in Nat /\ e * (d * p) \in Nat BY <1>1, Z3 DEF Pos
<1> QED BY <1>3, <1>4, <1>5, <1>6, <1>7, Z3 DEF Pos

\* A time that is late by less than z/e and one tick.
LEMMA LateBy ==
  ASSUME NEW x \in Nat, NEW y \in Nat, NEW z \in Nat, NEW d \in Pos, NEW e \in Pos,
         (y - z) * d < x * e + d * e
  PROVE y \div e <= x \div d + z \div e + 2
<1> DEFINE p == x \div d  q == y \div e  r == z \div e
<1>1. p \in Nat /\ q \in Nat /\ r \in Nat
  BY DivBounds
<1>2. x < d * p + d /\ e * q <= y /\ z < e * r + e
  BY DivBounds
<1> HIDE DEF p, q, r
<1>3. CASE p + r + 3 <= q
  <2>1. e * (p + r + 3) <= e * q BY <1>1, <1>3, ProductMono
  <2>2. e * (p + r + 3) = e * p + e * r + e + e + e BY <1>1, Z3 DEF Pos
  <2>3. e * p \in Nat /\ e * r \in Nat /\ e * q \in Nat /\ d * p \in Nat BY <1>1, Z3 DEF Pos
  <2>4. e * p + e + e <= y - z BY <1>2, <2>1, <2>2, <2>3, Z3 DEF Pos
  <2>5. d * (e * p + e + e) <= d * (y - z) BY <2>3, <2>4, ProductMono DEF Pos
  <2>6. e * x <= e * (d * p + d) BY <1>2, <2>3, ProductMono DEF Pos
  <2>7. d * (e * p + e + e) = e * (d * p + d) + d * e BY <1>1, Z3 DEF Pos
  <2>8. d * (y - z) = (y - z) * d /\ e * x = x * e BY Z3 DEF Pos
  <2>9. (y - z) * d \in Int /\ x * e \in Int /\ d * e \in Int /\ e * (d * p + d) \in Int
    BY <1>1, Z3 DEF Pos
  <2> QED BY <2>5, <2>6, <2>7, <2>8, <2>9, Z3
<1>4. CASE q <= p + r + 2 BY <1>4 DEF p, q, r
<1> QED BY <1>1, <1>3, <1>4

\* Adding z to both sides, when d is the slower rate.
LEMMA CatchUp ==
  ASSUME NEW x \in Nat, NEW y \in Nat, NEW z \in Nat, NEW d \in Pos, NEW e \in Pos,
         d <= e, (y - z) * d < x * e + d * e
  PROVE y * d < (x + z) * e + d * e
<1>1. z * d <= z * e
  <2>1. CASE z = 0 BY <2>1, Z3 DEF Pos
  <2>2. CASE z # 0 BY <2>2, ProductMono DEF Pos
  <2> QED BY <2>1, <2>2
<1>2. (y - z) * d = y * d - z * d /\ (x + z) * e = x * e + z * e BY Z3 DEF Pos
<1>3. y * d \in Int /\ z * d \in Int /\ x * e \in Int /\ z * e \in Int /\ d * e \in Int
  BY Z3 DEF Pos
<1> QED BY <1>1, <1>2, <1>3, Z3

\* A frame that lasts a tick or more is a later time in ticks.
LEMMA DivStep ==
  ASSUME NEW x \in Nat, NEW y \in Nat, NEW d \in Pos, d <= y
  PROVE  x \div d < (x + y) \div d
<1> DEFINE p == x \div d  q == (x + y) \div d
<1>1. p \in Nat /\ q \in Nat /\ d * p <= x /\ x + y < d * q + d
  BY DivBounds
<1> HIDE DEF p, q
<1>2. CASE q <= p
  <2>1. d * q <= d * p /\ d * q \in Nat /\ d * p \in Nat
    BY <1>1, <1>2, ProductMono, Z3 DEF Pos
  <2> QED
    BY <1>1, <2>1, Z3 DEF Pos
<1>3. CASE p < q
  BY <1>3 DEF p, q
<1> QED
  BY <1>1, <1>2, <1>3

-----------------------------------------------------------------------------

\* The sampling rates are positive numbers (what -fps allows).
LEMMA Rates ==
  /\ videoSampleRate \in Pos /\ audioSampleRate \in Pos /\ clockRate \in Nat
  /\ \A n \in Nat : clockRate * n \in Nat /\ (clockRate * n) \div videoSampleRate \in Nat
                    /\ (clockRate * n) \div audioSampleRate \in Nat
<1>1. videoSampleRate \in Pos
  <2>1. fps \in Pos /\ fps <= 1024 * 1000 /\ 1024 * 1000 \in Nat
    BY RatesAssumption, Z3 DEF Pos
  <2>2. videoSampleRate \in Nat /\ 1024 * 1000 < fps * videoSampleRate + fps
    BY <2>1, DivBounds, Z3 DEF videoSampleRate
  <2>3. videoSampleRate # 0
    BY <2>1, <2>2, Z3 DEF Pos
  <2> QED BY <2>2, <2>3 DEF Pos
<1>2. audioSampleRate \in Pos /\ clockRate \in Nat
  BY RatesAssumption DEF Pos
<1>3. \A n \in Nat : clockRate * n \in Nat
  BY <1>2, Z3
<1> QED BY <1>1, <1>2, <1>3, DivBounds

\* What writeH264 and writeH265 append is packets.
LEMMA WriteTyped ==
  ASSUME TypeOK, NEW given \in Seq(Nal), WriteVideo(given)
  PROVE avcSamples' \in Nat /\ pack' \in Seq(Packet) /\ hasVideo' \in BOOLEAN /\ main' = "audio"
<1>1. avcSamples' \in Nat /\ videoDTS' \in Nat
  <2>1. avcSamples' = avcSamples + 1024 /\ avcSamples \in Nat
    BY DEF WriteVideo, TypeOK
  <2>2. avcSamples' \in Nat BY <2>1, Z3
  <2>3. videoDTS' = (clockRate * avcSamples') \div videoSampleRate
    BY DEF videoDTS, videoSampleRate
  <2> QED BY <2>2, <2>3, Rates
<1> DEFINE
  header == IF \E i \in DOMAIN given : given[i] = "parameter"
              THEN <<"pack", "system", "map">> ELSE <<"pack">>
  types == header \o given
  packets == [i \in DOMAIN types |-> [t |-> types[i], dts |-> videoDTS']]
<1>2. header \in Seq(PacketType) /\ given \in Seq(PacketType)
  <2>1. <<"pack">> \in Seq(PacketType) /\ <<"pack", "system", "map">> \in Seq(PacketType)
    BY DEF PacketType
  <2>2. given \in Seq(PacketType)
    <3>1. \A i \in 1 .. Len(given) : given[i] \in PacketType BY DEF PacketType
    <3> QED BY <3>1, Z3
  <2> QED BY <2>1, <2>2
<1>3. types \in Seq(PacketType)
  BY <1>2
<1>4. packets \in Seq(Packet)
  <2> HIDE DEF types
  <2>1. DOMAIN types = 1 .. Len(types) /\ Len(types) \in Nat BY <1>3
  <2>2. \A i \in 1 .. Len(types) : [t |-> types[i], dts |-> videoDTS'] \in Packet
    BY <1>1, <1>3 DEF Packet
  <2> QED BY <2>1, <2>2
<1>5. pack' = pack \o packets
  BY DEF WriteVideo
<1>6. pack \in Seq(Packet) BY DEF TypeOK
<1>7. pack' \in Seq(Packet)
  <2> HIDE DEF packets
  <2> QED BY <1>4, <1>5, <1>6
<1> QED BY <1>1, <1>7 DEF WriteVideo, TypeOK

\* The type invariant of the media (PSIngester.Ingest).
THEOREM TypeCorrect == Spec => []TypeOK
<1>0. <<>> \in Seq(Packet) /\ <<>> \in Seq(Nal)
  OBVIOUS
<1>1. ASSUME Init PROVE TypeOK
  <2>1. frames \in Seq(Nal) /\ pack \in Seq(Packet) /\ sent \in Seq(Packet)
    BY <1>0, <1>1, Zenon DEF Init
  <2> QED BY <1>1, <2>1 DEF Init, TypeOK
<1>2. ASSUME TypeOK, [Next]_vars PROVE TypeOK'
  <2> USE <1>2 DEF TypeOK
  <2>1. CASE Cancel \/ Connect \/ Fails \/ LoopEnds
    BY <2>1 DEF Cancel, Connect, Fails, LoopEnds
  <2>2. CASE Loop BY <1>0, <2>2 DEF Loop
  <2>3. CASE ReadParameterSet BY <2>3 DEF ReadParameterSet, Nal
  <2>4. CASE ReadFrame
    <3>1. frames' \in Seq(Nal) BY <2>4 DEF ReadFrame, Nal
    <3>2. WriteVideo(frames') /\ UNCHANGED <<ctx, aacSamples, sent>> BY <2>4 DEF ReadFrame
    <3>3. avcSamples' \in Nat /\ pack' \in Seq(Packet) /\ hasVideo' \in BOOLEAN /\ main' = "audio"
      BY <3>1, <3>2, WriteTyped
    <3> QED BY <3>1, <3>2, <3>3
  <2>5. CASE ReadCanceled
    <3>1. WriteVideo(frames) /\ UNCHANGED <<ctx, aacSamples, frames, sent>>
      BY <2>5 DEF ReadCanceled
    <3>2. avcSamples' \in Nat /\ pack' \in Seq(Packet) /\ hasVideo' \in BOOLEAN /\ main' = "audio"
      BY <3>1, WriteTyped
    <3> QED BY <3>1, <3>2
  <2>6. CASE WriteAudio
    <3>1. aacSamples' \in Nat BY <2>6 DEF WriteAudio
    <3>2. audioDTS' \in Nat BY <3>1, Rates DEF audioDTS
    <3>3. [t |-> "audio", dts |-> audioDTS'] \in Packet BY <3>2 DEF Packet, PacketType
    <3> QED BY <2>6, <3>1, <3>3 DEF WriteAudio
  <2>7. CASE Send \/ SendFails \/ Wait BY <1>0, <2>7 DEF Send, SendFails, Wait
  <2>8. CASE UNCHANGED vars BY <2>8 DEF vars
  <2> QED BY <2>1, <2>2, <2>3, <2>4, <2>5, <2>6, <2>7, <2>8 DEF Next
<1> QED BY <1>1, <1>2, PTL DEF Spec

-----------------------------------------------------------------------------
(* The clocks.  What bounds the video is its last time: before a frame is  *)
(* read it is not later than the audio.  What bounds the audio is that it  *)
(* is behind the video but for one frame whenever the loop turns, compared *)
(* exactly: rounded times that agree may be a tick apart, and such ticks   *)
(* would add up.                                                           *)

videoTime == clockRate * avcSamples
audioTime == clockRate * aacSamples
frameTime == clockRate * 1024

\* The audio is less than a tick later than the video, without its last n.
Behind(n) ==
  (audioTime - n) * videoSampleRate
    < videoTime * audioSampleRate + videoSampleRate * audioSampleRate

VideoBounded ==
  /\ videoDTS <= audioDTS + frameTime \div videoSampleRate + 1
  /\ main = "connect" \/ main = "nals" => videoDTS <= audioDTS
  /\ main = "loop" => hasVideo \/ ctx = "done" \/ videoDTS <= audioDTS
  /\ main \in {"audio", "send"} => hasVideo \/ ctx = "done"
  /\ main \in {"connect", "nals"} => ~hasVideo

AudioBounded ==
  videoSampleRate <= audioSampleRate =>
    /\ Behind(frameTime)
    /\ main = "audio" \/ (main = "loop" /\ hasVideo) => Behind(0)

\* What one frame adds to the two times.
LEMMA Times ==
  ASSUME TypeOK
  PROVE /\ videoTime \in Nat /\ audioTime \in Nat /\ frameTime \in Nat
        /\ videoDTS = videoTime \div videoSampleRate /\ videoDTS \in Nat
        /\ audioDTS = audioTime \div audioSampleRate /\ audioDTS \in Nat
        /\ clockRate * (avcSamples + 1024) = videoTime + frameTime
        /\ clockRate * (aacSamples + 1024) = audioTime + frameTime
<1>1. avcSamples \in Nat /\ aacSamples \in Nat BY DEF TypeOK
<1>2. clockRate * 1024 \in Nat BY Rates
<1>3. clockRate * (avcSamples + 1024) = clockRate * avcSamples + clockRate * 1024
  BY <1>1, Rates, Z3
<1>4. clockRate * (aacSamples + 1024) = clockRate * aacSamples + clockRate * 1024
  BY <1>1, Rates, Z3
<1> QED
  BY <1>1, <1>2, <1>3, <1>4, Rates DEF videoTime, audioTime, frameTime, videoDTS, audioDTS

\* Audio that is not late is not late without its last frame.
LEMMA BehindMore == ASSUME TypeOK, Behind(0) PROVE Behind(frameTime)
<1> DEFINE d == videoSampleRate
<1>1. d \in Pos /\ audioTime \in Nat /\ frameTime \in Nat BY Rates, Times
<1>2. d * (audioTime - frameTime) <= d * (audioTime - 0)
  BY <1>1, ProductMono
<1>3. videoTime * audioSampleRate + videoSampleRate * audioSampleRate \in Int
  BY Rates, Times, Z3 DEF Pos
<1> HIDE DEF d
<1>4. (audioTime - frameTime) * d <= (audioTime - 0) * d
  BY <1>1, <1>2, Z3 DEF Pos
<1>5. (audioTime - frameTime) * d \in Int /\ (audioTime - 0) * d \in Int
  BY <1>1, Z3 DEF Pos
<1> QED BY <1>3, <1>4, <1>5, Z3 DEF Behind, d

\* A step that reads nothing leaves the clocks alone.
LEMMA SameTimes ==
  ASSUME UNCHANGED <<avcSamples, aacSamples>>
  PROVE /\ videoDTS' = videoDTS /\ audioDTS' = audioDTS
        /\ videoSampleRate' = videoSampleRate /\ audioSampleRate' = audioSampleRate
        /\ frameTime' = frameTime
        /\ Behind(0)' <=> Behind(0)
        /\ Behind(frameTime)' <=> Behind(frameTime)
BY DEF videoDTS, audioDTS, videoSampleRate, frameTime, Behind, videoTime, audioTime

\* writeH264 or writeH265: the video was not ahead, and a frame is added to it.
LEMMA VideoFrameBounded ==
  ASSUME TypeOK, TypeOK', VideoBounded, AudioBounded, main = "nals", NEW given, WriteVideo(given),
         UNCHANGED aacSamples, hasVideo' \/ ctx' = "done"
  PROVE VideoBounded' /\ AudioBounded'
<1>1. avcSamples' = avcSamples + 1024 /\ main' = "audio" BY DEF WriteVideo
<1>2. videoTime' = videoTime + frameTime /\ audioTime' = audioTime
  BY <1>1, Times DEF videoTime, audioTime
<1>3. videoSampleRate' = videoSampleRate /\ frameTime' = frameTime
  BY DEF videoSampleRate, frameTime
<1>4. videoDTS' = (videoTime + frameTime) \div videoSampleRate /\ audioDTS' = audioDTS
  BY <1>2, <1>3 DEF videoDTS, audioDTS, videoTime, audioTime
<1>5. videoDTS' <= videoDTS + frameTime \div videoSampleRate + 1
  BY <1>4, DivSum, Rates, Times
<1>6. videoDTS <= audioDTS BY DEF VideoBounded
<1>7. frameTime \div videoSampleRate \in Nat /\ videoDTS \in Nat /\ audioDTS \in Nat /\ videoDTS' \in Nat
  BY <1>4, DivBounds, Rates, Times
<1>8. VideoBounded'
  <2>1. videoDTS' <= audioDTS' + frameTime \div videoSampleRate + 1
    BY <1>4, <1>5, <1>6, <1>7
  <2> QED BY <1>1, <1>3, <2>1 DEF VideoBounded
<1>9. ASSUME videoSampleRate <= audioSampleRate PROVE Behind(0)' /\ Behind(frameTime)'
  <2>1. (audioTime - frameTime) * videoSampleRate
          < videoTime * audioSampleRate + videoSampleRate * audioSampleRate
    BY <1>9 DEF AudioBounded, Behind
  <2>2. audioTime * videoSampleRate
          < (videoTime + frameTime) * audioSampleRate + videoSampleRate * audioSampleRate
    <3>1. /\ videoTime \in Nat /\ audioTime \in Nat /\ frameTime \in Nat
          /\ videoSampleRate \in Pos /\ audioSampleRate \in Pos
      BY Rates, Times
    <3> QED BY <1>9, <2>1, <3>1, CatchUp, Zenon
  <2>3. Behind(0)'
    BY <1>2, <1>3, <2>2, Times DEF Behind
  <2>4. Behind(frameTime)'
    BY <2>3, BehindMore, PTL
  <2> QED BY <2>3, <2>4
<1>10. AudioBounded'
  BY <1>3, <1>9, <1>1 DEF AudioBounded
<1> QED BY <1>8, <1>10

\* NextADTSFrame and WriteAudio: the audio was not ahead, if it must not be.
LEMMA AudioFrameBounded ==
  ASSUME TypeOK, TypeOK', VideoBounded, AudioBounded, WriteAudio
  PROVE VideoBounded' /\ AudioBounded'
<1>1. /\ aacSamples' = aacSamples + 1024 /\ main = "audio" /\ main' = "send"
      /\ UNCHANGED <<ctx, avcSamples, hasVideo>>
  BY DEF WriteAudio
<1>2. audioTime' = audioTime + frameTime /\ videoTime' = videoTime
  BY <1>1, Times DEF videoTime, audioTime
<1>3. videoSampleRate' = videoSampleRate /\ frameTime' = frameTime
  BY DEF videoSampleRate, frameTime
<1>4. audioDTS' = (audioTime + frameTime) \div audioSampleRate /\ videoDTS' = videoDTS
  BY <1>1, <1>2 DEF videoDTS, audioDTS, videoTime, audioTime, videoSampleRate
<1>5. audioDTS <= audioDTS'
  <2>1. audioTime <= audioTime + frameTime /\ audioTime + frameTime \in Nat BY Times
  <2> QED BY <1>4, <2>1, DivMono, Rates, Times
<1>6. VideoBounded'
  <2>1. frameTime \div videoSampleRate \in Nat /\ videoDTS \in Nat /\ audioDTS \in Nat /\ audioDTS' \in Nat
    BY <1>4, DivBounds, Rates, Times
  <2>2. videoDTS' <= audioDTS' + frameTime \div videoSampleRate + 1
    BY <1>4, <1>5, <2>1 DEF VideoBounded
  <2> QED BY <1>1, <1>3, <2>2 DEF VideoBounded
<1>7. AudioBounded'
  <2>1. Behind(0) => Behind(frameTime)'
    <3>1. (audioTime + frameTime) - frameTime = audioTime - 0 BY Times
    <3>2. audioTime' - frameTime' = audioTime - 0 BY <1>2, <1>3, <3>1, Zenon
    <3>3. audioSampleRate' = audioSampleRate OBVIOUS
    <3> QED BY <1>2, <1>3, <3>2, <3>3, Zenon DEF Behind
  <2> QED BY <1>1, <1>3, <2>1 DEF AudioBounded
<1> QED BY <1>6, <1>7

\* The turn of the loop without a pack to send: the audio is not later.
LEMMA WaitBounded ==
  ASSUME TypeOK, VideoBounded, AudioBounded, Wait
  PROVE VideoBounded' /\ AudioBounded'
<1>1. /\ main = "send" /\ main' = "loop" /\ ~(hasVideo /\ videoDTS < audioDTS)
      /\ UNCHANGED <<ctx, avcSamples, aacSamples, hasVideo>>
  BY DEF Wait
<1>2. hasVideo => Behind(0)
  <2> SUFFICES ASSUME hasVideo PROVE Behind(0)
    OBVIOUS
  <2>1. audioTime \div audioSampleRate <= videoTime \div videoSampleRate
    BY <1>1, Times
  <2>2. /\ videoTime \in Nat /\ audioTime \in Nat
        /\ videoSampleRate \in Pos /\ audioSampleRate \in Pos
    BY Rates, Times
  <2>3. audioTime * videoSampleRate
          < videoTime * audioSampleRate + videoSampleRate * audioSampleRate
    BY <2>1, <2>2, NotLate, Zenon
  <2> QED BY <2>2, <2>3 DEF Behind
<1> QED BY <1>1, <1>2, SameTimes DEF VideoBounded, AudioBounded

\* Every step of Ingest keeps the two clocks together.
LEMMA BoundedStep ==
  ASSUME TypeOK, TypeOK', VideoBounded, AudioBounded, [Next]_vars
  PROVE VideoBounded' /\ AudioBounded'
<1>1. CASE Cancel \/ Connect \/ Fails \/ LoopEnds
  BY <1>1, SameTimes DEF Cancel, Connect, Fails, LoopEnds, VideoBounded, AudioBounded
<1>2. CASE Loop
  BY <1>2, SameTimes DEF Loop, VideoBounded, AudioBounded
<1>3. CASE ReadParameterSet
  BY <1>3, SameTimes DEF ReadParameterSet, VideoBounded, AudioBounded
<1>4. CASE ReadFrame
  <2>1. frames' # <<>> BY <1>4 DEF ReadFrame, TypeOK
  <2>2. hasVideo' BY <1>4, <2>1 DEF ReadFrame, WriteVideo
  <2> QED BY <1>4, <2>2, VideoFrameBounded DEF ReadFrame
<1>5. CASE ReadCanceled
  BY <1>5, VideoFrameBounded DEF ReadCanceled
<1>6. CASE WriteAudio BY <1>6, AudioFrameBounded
<1>7. CASE Send
  <2>1. videoDTS \in Nat /\ audioDTS \in Nat BY Times
  <2> QED BY <1>7, <2>1, SameTimes DEF Send, VideoBounded, AudioBounded
<1>8. CASE SendFails
  BY <1>8, SameTimes DEF SendFails, VideoBounded, AudioBounded
<1>9. CASE Wait BY <1>9, WaitBounded
<1>10. CASE UNCHANGED vars
  BY <1>10, SameTimes DEF vars, VideoBounded, AudioBounded
<1> QED BY <1>1, <1>2, <1>3, <1>4, <1>5, <1>6, <1>7, <1>8, <1>9, <1>10 DEF Next

\* The bounds hold from the beginning.
LEMMA ClocksInvariant == Spec => [](TypeOK /\ VideoBounded /\ AudioBounded)
<1>1. ASSUME Init PROVE VideoBounded /\ AudioBounded
  <2>1. avcSamples = 0 /\ aacSamples = 0 /\ main = "connect" /\ ~hasVideo
    BY <1>1 DEF Init
  <2>2. videoTime = 0 /\ audioTime = 0
    BY <2>1, Rates, Z3 DEF videoTime, audioTime
  <2>3. \A d \in Pos : 0 \div d = 0
    BY DivBounds, Z3 DEF Pos
  <2>4. videoDTS = 0 /\ audioDTS = 0
    BY <2>2, <2>3, Rates DEF videoDTS, audioDTS, videoTime, audioTime
  <2>5. frameTime \div videoSampleRate \in Nat /\ frameTime \in Nat
    BY DivBounds, Rates DEF frameTime
  <2>6. VideoBounded
    BY <2>1, <2>4, <2>5 DEF VideoBounded
  <2>7. Behind(frameTime)
    BY <2>2, <2>5, Rates, Z3 DEF Behind, Pos
  <2> QED BY <2>1, <2>6, <2>7 DEF AudioBounded
<1>2. TypeOK /\ TypeOK' /\ VideoBounded /\ AudioBounded /\ [Next]_vars
        => VideoBounded' /\ AudioBounded'
  BY BoundedStep
<1> QED BY <1>1, <1>2, TypeCorrect, PTL DEF Spec

\* Neither clock runs away from the other, for any rates, except that a
\* video whose frames are shorter than those of the audio falls behind.
THEOREM ClocksTogether == Spec => []LeadBounded
<1>1. ASSUME TypeOK, VideoBounded, AudioBounded PROVE LeadBounded
  <2>1. /\ videoTime \in Nat /\ audioTime \in Nat /\ frameTime \in Nat
        /\ videoSampleRate \in Pos /\ audioSampleRate \in Pos
    BY <1>1, Rates, Times
  <2>2. ASSUME videoSampleRate <= audioSampleRate
        PROVE audioTime \div audioSampleRate
                <= videoTime \div videoSampleRate + frameTime \div audioSampleRate + 2
    <3>1. (audioTime - frameTime) * videoSampleRate
            < videoTime * audioSampleRate + videoSampleRate * audioSampleRate
      BY <1>1, <2>2 DEF AudioBounded, Behind
    <3> QED BY <2>1, <3>1, LateBy, Zenon
  <2> QED BY <1>1, <2>2, Times DEF LeadBounded, VideoBounded, frameTime
<1> QED BY <1>1, ClocksInvariant, PTL

-----------------------------------------------------------------------------
(* Packs.  The one that is open has the time of the last frame of video, and *)
(* is followed by none before it is sent.                                    *)

\* So a frame more is later.
LEMMA LaterFrames ==
  ASSUME TypeOK
  PROVE  /\ avcSamples' = avcSamples + 1024 => videoDTS < videoDTS' /\ videoDTS' \in Nat
         /\ aacSamples' = aacSamples + 1024 => audioDTS < audioDTS' /\ audioDTS' \in Nat
<1>1. videoSampleRate <= frameTime /\ audioSampleRate <= frameTime
  BY TicksAssumption DEF frameTime
<1>2. videoTime \div videoSampleRate < (videoTime + frameTime) \div videoSampleRate
  BY <1>1, DivStep, Rates, Times
<1>3. audioTime \div audioSampleRate < (audioTime + frameTime) \div audioSampleRate
  BY <1>1, DivStep, Rates, Times
<1>4. ASSUME avcSamples' = avcSamples + 1024 PROVE videoDTS < videoDTS' /\ videoDTS' \in Nat
  <2>1. videoDTS' = (videoTime + frameTime) \div videoSampleRate
    BY <1>4, Times DEF videoDTS, videoSampleRate
  <2> QED
    BY <2>1, <1>2, Times, Rates, DivBounds
<1>5. ASSUME aacSamples' = aacSamples + 1024 PROVE audioDTS < audioDTS' /\ audioDTS' \in Nat
  <2>1. audioDTS' = (audioTime + frameTime) \div audioSampleRate
    BY <1>5, Times DEF audioDTS
  <2> QED
    BY <2>1, <1>3, Times, Rates, DivBounds
<1> QED
  BY <1>4, <1>5

\* The packets of a pack.
LEMMA PacketTyped ==
  ASSUME NEW p \in Seq(Packet)
  PROVE  /\ \A i \in 1 .. Len(p) : p[i].dts \in Nat
         /\ p # <<>> => 1 \in 1 .. Len(p)
         /\ Heard(p) = {i \in 1 .. Len(p) : p[i].t = "audio"}
         /\ Len(p) \in Nat
<1>1. \A i \in 1 .. Len(p) : p[i] \in Packet
  OBVIOUS
<1> QED
  BY <1>1 DEF Packet, Heard

\* While a pack is open.
Opened == main \in {"audio", "send"} \/ (main = "loop" /\ hasVideo)

\* Ingest begins each pack with the video of a frame, and adds audio to it.
PackShape ==
  /\ \/ main \in {"connect", "nals"}
     \/ main = "loop" /\ ~hasVideo /\ ctx = "live"
     => pack = <<>>
  /\ Opened =>
       \E n \in 1 .. Len(pack) :
         Visual(pack, n) /\ \A i \in n + 1 .. Len(pack) : pack[i].t = "audio"
  /\ main = "nals" => \A i \in DOMAIN frames : frames[i] = "parameter"

\* The video of a pack has the time of the last frame, and its audio is not later
\* while the pack waits for more.
PackTimes ==
  /\ Opened => pack[1].dts = videoDTS
  /\ Opened /\ main # "send" => \A i \in Heard(pack) : pack[i].dts <= videoDTS
  /\ main = "send" =>
       /\ Len(pack) \in Heard(pack) /\ pack[Len(pack)].dts = audioDTS
       /\ \A i \in Heard(pack) : i # Len(pack) => pack[i].dts <= videoDTS
  /\ \A i \in Heard(pack) : pack[i].dts <= audioDTS
  /\ Ordered(pack)

\* All that was sent is earlier.
AfterSent ==
  /\ \A i \in Heard(sent) : sent[i].dts <= audioDTS
  /\ LaterHeard(sent, pack)
  /\ sent # <<>> => sent[1].dts <= videoDTS
  /\ sent # <<>> /\ Opened => sent[1].dts < videoDTS

\* The inductive invariant of a pack.
PackInv == PackShape /\ PackTimes /\ AfterSent

\* writeH264 and writeH265, for parameter sets with or without a frame after them:
\* the packets of a new pack, at one time.
LEMMA VideoPacked ==
  ASSUME TypeOK, pack = <<>>, NEW given \in Seq(Nal), WriteVideo(given),
         \A i \in 1 .. Len(given) : i # Len(given) => given[i] = "parameter",
         ctx' = "done" \/ (given # <<>> /\ given[Len(given)] = "frame")
  PROVE  /\ Len(pack') >= 1 /\ Visual(pack, Len(pack))'
         /\ \A i \in 1 .. Len(pack') : pack'[i].dts = videoDTS'
<1> DEFINE
  full == \E i \in DOMAIN given : given[i] = "parameter"
  header == IF full THEN <<"pack", "system", "map">> ELSE <<"pack">>
  h == IF full THEN 3 ELSE 1
  types == header \o given
  packets == [i \in DOMAIN types |-> [t |-> types[i], dts |-> videoDTS']]
<1>1. /\ h \in {1, 3} /\ header \in Seq(PacketType) /\ Len(header) = h
      /\ header[1] = "pack" /\ (h = 3 => header[2] = "system" /\ header[3] = "map")
  <2>1. <<"pack">> \in Seq(PacketType) /\ <<"pack", "system", "map">> \in Seq(PacketType)
    BY DEF PacketType
  <2> HIDE DEF full
  <2> QED
    BY <2>1
<1>2. given \in Seq(PacketType)
  <2>1. \A i \in 1 .. Len(given) : given[i] \in PacketType
    BY DEF PacketType
  <2> QED
    BY <2>1, Z3
<1>3. /\ types \in Seq(PacketType) /\ Len(types) = h + Len(given)
      /\ \A i \in 1 .. Len(types) : types[i] = IF i <= h THEN header[i] ELSE given[i - h]
  <2> HIDE DEF header, h
  <2> QED
    BY <1>1, <1>2
<1>4. /\ packets \in Seq([t : PacketType, dts : {videoDTS'}]) /\ Len(packets) = h + Len(given)
      /\ \A i \in 1 .. Len(packets) :
           packets[i].dts = videoDTS' /\ packets[i].t = IF i <= h THEN header[i] ELSE given[i - h]
  <2> HIDE DEF types, header, h
  <2> QED
    BY <1>1, <1>3
<1>5. pack' = packets
  <2>1. pack' = <<>> \o packets
    BY DEF WriteVideo
  <2> HIDE DEF packets
  <2> QED
    BY <2>1, <1>4
<1>6. /\ Len(pack') = h + Len(given)
      /\ \A i \in 1 .. Len(pack') :
           pack'[i].dts = videoDTS' /\ pack'[i].t = IF i <= h THEN header[i] ELSE given[i - h]
  <2> HIDE DEF packets, header, h
  <2> QED
    BY <1>4, <1>5
<1>7. /\ \A i \in 1 .. Len(given) : given[i] \in {"parameter", "frame"}
      /\ \A i \in 1 .. Len(given) : given[i] = "frame" => i = Len(given)
  BY DEF Nal
<1>8. full <=> \E i \in 1 .. Len(given) : given[i] = "parameter"
  OBVIOUS
<1>0. Len(given) \in Nat
  BY DEF Nal
<1> HIDE DEF packets, types
<1>9. ASSUME NEW i \in 1 .. Len(pack')
      PROVE  /\ pack'[i].t # "audio" /\ pack'[i].dts = pack'[1].dts
             /\ pack'[i].t = "pack" <=> i = 1
             /\ pack'[i].t = "map" <=> i = 3 /\ h = 3
             /\ pack'[i].t = "frame" => i = Len(pack')
             /\ pack'[i].t = "parameter" <=> i > h /\ given[i - h] = "parameter"
  <2> HIDE DEF h, header, full
  <2>1. i \in 1 .. h + Len(given) /\ Len(given) \in Nat
    BY <1>6 DEF Nal
  <2>2. CASE i <= h
    <3>1. pack'[i].t = header[i] /\ pack'[i].dts = videoDTS' /\ pack'[1].dts = videoDTS'
      BY <1>1, <1>6, <2>1, <2>2
    <3>2. i = 1 \/ (h = 3 /\ i = 2) \/ (h = 3 /\ i = 3)
      BY <1>1, <2>1, <2>2
    <3> QED
      BY <1>1, <2>2, <3>1, <3>2
  <2>3. CASE i > h
    <3>1. i - h \in 1 .. Len(given) /\ i # 1 /\ ~(i = 3 /\ h = 3) /\ pack'[i].t = given[i - h]
      BY <1>1, <1>6, <2>1, <2>3
    <3>2. given[i - h] = "frame" => i = Len(pack')
      BY <1>1, <1>6, <1>7, <2>1, <3>1
    <3>3. pack'[i].dts = pack'[1].dts
      BY <1>1, <1>6, <2>1
    <3> QED
      BY <1>7, <2>3, <3>1, <3>2, <3>3
  <2> QED
    BY <1>1, <2>1, <2>2, <2>3
<1>10. (\E i \in 1 .. Len(pack') : pack'[i].t = "map")
         <=> (\E i \in 1 .. Len(pack') : pack'[i].t = "parameter")
  <2>1. CASE full
    <3>1. PICK i \in 1 .. Len(given) : given[i] = "parameter"
      BY <1>8, <2>1
    <3>2. h = 3 /\ h + i \in 1 .. Len(pack') /\ 3 \in 1 .. Len(pack') /\ (h + i) - h = i /\ h + i > h
      BY <1>6, <2>1
    <3> HIDE DEF h, full
    <3> QED
      BY <1>9, <3>1, <3>2
  <2>2. CASE ~full
    <3>1. h = 1 /\ \A i \in 1 .. Len(given) : given[i] # "parameter"
      BY <1>8, <2>2
    <3> HIDE DEF h, full
    <3>2. ASSUME NEW i \in 1 .. Len(pack') PROVE pack'[i].t # "map"
      BY <1>9, <3>1
    <3>3. ASSUME NEW i \in 1 .. Len(pack') PROVE pack'[i].t # "parameter"
      <4>1. i \in 1 .. h + Len(given) /\ (i > h => i - h \in 1 .. Len(given))
        BY <1>6, <3>1, <1>0
      <4>2. pack'[i].t = "parameter" => i > h /\ given[i - h] = "parameter"
        BY <1>9
      <4> QED
        BY <3>1, <4>1, <4>2
    <3> QED
      BY <3>2, <3>3
  <2> QED
    BY <2>1, <2>2
<1>11. ctx' = "done" \/ \E i \in 1 .. Len(pack') : pack'[i].t = "frame"
  <2> HIDE DEF h, header, full
  <2> SUFFICES ASSUME given # <<>>, given[Len(given)] = "frame"
               PROVE  \E i \in 1 .. Len(pack') : pack'[i].t = "frame"
    OBVIOUS
  <2>1. Len(given) \in Nat \ {0}
    BY DEF Nal
  <2> QED
    BY <1>1, <1>6, <2>1
<1> HIDE DEF h, header, full
<1>12. Visual(pack, Len(pack))'
  BY <1>9, <1>10, <1>11 DEF Visual
<1> QED
  BY <1>1, <1>6, <1>12

\* Steps that leave the packs and the clocks alone.
LEMMA PacksKept ==
  ASSUME PackInv, UNCHANGED <<avcSamples, aacSamples, pack, hasVideo, sent>>,
         TypeOK, TypeOK', ctx = "done" => ctx' = "done",
         \/ UNCHANGED <<main, frames>>
         \/ main = "connect" /\ main' = "loop" /\ ~hasVideo /\ UNCHANGED frames
         \/ main' = "returned"
         \/ main = "loop" /\ ctx = "live" /\ main' = (IF hasVideo THEN "audio" ELSE "nals") /\ frames' = <<>>
  PROVE  PackInv'
<1>1. videoDTS' = videoDTS /\ audioDTS' = audioDTS
  BY SameTimes
<1>2. Opened' => Opened /\ ~(main' = "send" /\ main # "send") /\ ~(main = "send" /\ main' # "send")
  BY DEF Opened
<1>3. \A n : Visual(pack, n) => Visual(pack, n)'
  BY DEF Visual
<1>4. PackShape'
  <2>1. Opened' => \E n \in 1 .. Len(pack') :
          Visual(pack, n)' /\ \A i \in n + 1 .. Len(pack') : pack'[i].t = "audio"
    BY <1>2, <1>3 DEF PackInv, PackShape
  <2>2. main' = "nals" => \A i \in DOMAIN frames' : frames'[i] = "parameter"
    BY DEF PackInv, PackShape
  <2>3. \/ main' \in {"connect", "nals"}
        \/ main' = "loop" /\ ~hasVideo' /\ ctx' = "live"
        => pack' = <<>>
    BY DEF PackInv, PackShape, TypeOK
  <2> QED
    BY <2>1, <2>2, <2>3 DEF PackShape
<1>5. PackTimes'
  BY <1>1, <1>2 DEF PackInv, PackTimes, Heard, Ordered
<1>6. AfterSent'
  BY <1>1, <1>2 DEF PackInv, AfterSent, Heard, LaterHeard
<1> QED
  BY <1>4, <1>5, <1>6 DEF PackInv

\* A new pack, later than the last.
LEMMA VideoKept ==
  ASSUME TypeOK, TypeOK', PackInv, main = "nals", NEW given \in Seq(Nal), WriteVideo(given),
         \A i \in 1 .. Len(given) : i # Len(given) => given[i] = "parameter",
         ctx' = "done" \/ (given # <<>> /\ given[Len(given)] = "frame"),
         UNCHANGED <<ctx, aacSamples, sent>>
  PROVE  PackInv'
<1>1. pack = <<>>
  BY DEF PackInv, PackShape
<1>2. /\ Len(pack') >= 1 /\ Visual(pack, Len(pack))'
      /\ \A i \in 1 .. Len(pack') : pack'[i].dts = videoDTS'
  BY <1>1, VideoPacked
<1>3. pack' \in Seq(Packet) /\ main' = "audio" /\ sent \in Seq(Packet)
  BY WriteTyped DEF TypeOK
<1>4. /\ videoDTS < videoDTS' /\ videoDTS' \in Nat /\ videoDTS \in Nat
      /\ audioDTS' = audioDTS /\ audioDTS \in Nat
  BY LaterFrames, Times DEF WriteVideo, audioDTS
<1>5. Heard(pack') = {}
  <2>1. \A i \in 1 .. Len(pack') : pack'[i].t # "audio"
    BY <1>2 DEF Visual
  <2> QED
    BY <1>3, <2>1 DEF Heard
<1>6. PackShape'
  BY <1>2, <1>3 DEF PackShape
<1>7. PackTimes'
  BY <1>2, <1>3, <1>5 DEF PackTimes, Opened, Ordered, Heard
<1>8. AfterSent'
  <2>1. sent # <<>> => sent[1].dts \in Nat
    BY <1>3, PacketTyped
  <2> QED
    BY <1>3, <1>4, <1>5, <2>1 DEF PackInv, AfterSent, LaterHeard, Heard
<1> QED
  BY <1>6, <1>7, <1>8 DEF PackInv

\* A frame of audio at the end of the pack, later than all before it.
LEMMA AudioKept ==
  ASSUME TypeOK, TypeOK', PackInv, WriteAudio
  PROVE  PackInv'
<1>1. /\ pack \in Seq(Packet) /\ pack' \in Seq(Packet) /\ Len(pack') = Len(pack) + 1 /\ Len(pack) \in Nat
      /\ \A i \in 1 .. Len(pack) : pack'[i] = pack[i]
      /\ pack'[Len(pack) + 1].t = "audio" /\ pack'[Len(pack) + 1].dts = audioDTS'
  BY DEF WriteAudio, TypeOK
<1>2. main = "audio" /\ main' = "send" /\ Opened /\ Opened' /\ UNCHANGED <<ctx, sent, hasVideo>>
  BY DEF WriteAudio, Opened
<1>3. /\ audioDTS < audioDTS' /\ audioDTS' \in Nat /\ audioDTS \in Nat
      /\ videoDTS' = videoDTS /\ videoDTS \in Nat
  BY LaterFrames, Times DEF WriteAudio, videoDTS, videoSampleRate
<1>4. PICK n \in 1 .. Len(pack) :
        Visual(pack, n) /\ \A i \in n + 1 .. Len(pack) : pack[i].t = "audio"
  BY <1>2 DEF PackInv, PackShape
<1>5. Visual(pack, n)' /\ n \in 1 .. Len(pack')
  <2>1. \A i \in 1 .. n : pack'[i] = pack[i]
    BY <1>1, <1>4
  <2>2. 1 \in 1 .. n /\ n \in 1 .. Len(pack')
    BY <1>1, <1>4
  <2>3. Visual(pack, n)'
    <3>1. \A i \in 1 .. n : pack'[i].t # "audio" /\ pack'[i].dts = pack'[1].dts
                             /\ (pack'[i].t = "pack" <=> i = 1)
      BY <1>4, <2>1, <2>2 DEF Visual
    <3>2. \A i, j \in 1 .. n : pack'[i].t = pack'[j].t /\ pack'[i].t \in {"map", "frame"} => i = j
      BY <1>4, <2>1 DEF Visual
    <3>3. (\E i \in 1 .. n : pack'[i].t = "map") <=> (\E i \in 1 .. n : pack'[i].t = "parameter")
      BY <1>4, <2>1 DEF Visual
    <3>4. ctx' = "done" \/ \E i \in 1 .. n : pack'[i].t = "frame"
      BY <1>2, <1>4, <2>1 DEF Visual
    <3> QED
      BY <3>1, <3>2, <3>3, <3>4 DEF Visual
  <2> QED
    BY <2>2, <2>3
<1>6. \A i \in n + 1 .. Len(pack') : pack'[i].t = "audio"
  BY <1>1, <1>4
<1>7. PackShape'
  BY <1>2, <1>5, <1>6 DEF PackShape
<1>8. Heard(pack') = Heard(pack) \cup {Len(pack) + 1} /\ Heard(pack) \subseteq 1 .. Len(pack)
  BY <1>1 DEF Heard
<1>9. \A i \in Heard(pack) : pack[i].dts \in Nat /\ pack'[i] = pack[i] /\ pack[i].dts < audioDTS'
  BY <1>1, <1>3, <1>8, PacketTyped DEF PackInv, PackTimes
<1>10. PackTimes'
  <2>1. pack'[1] = pack[1]
    BY <1>1, <1>4
  <2>2. Ordered(pack')
    BY <1>1, <1>8, <1>9 DEF PackInv, PackTimes, Ordered
  <2>3. \A i \in Heard(pack') : i # Len(pack') => pack'[i].dts <= videoDTS'
    BY <1>1, <1>2, <1>3, <1>8, <1>9 DEF PackInv, PackTimes
  <2>4. \A i \in Heard(pack') : pack'[i].dts <= audioDTS'
    BY <1>1, <1>3, <1>8, <1>9
  <2> QED
    BY <1>1, <1>2, <1>3, <1>8, <2>1, <2>2, <2>3, <2>4 DEF PackInv, PackTimes, Ordered, Heard
<1>11. AfterSent'
  <2>1. \A i \in Heard(sent) : sent[i].dts \in Nat /\ sent[i].dts <= audioDTS
    BY PacketTyped DEF PackInv, AfterSent, TypeOK
  <2>2. LaterHeard(sent, pack')
    BY <1>1, <1>3, <1>8, <1>9, <2>1 DEF PackInv, AfterSent, LaterHeard
  <2>3. \A i \in Heard(sent) : sent[i].dts <= audioDTS'
    BY <1>3, <2>1
  <2> QED
    BY <1>2, <1>3, <2>2, <2>3 DEF PackInv, AfterSent, Heard, LaterHeard
<1> QED
  BY <1>7, <1>10, <1>11 DEF PackInv

\* A pack that is sent ends with the first audio that is later than its video.
LEMMA SentWell ==
  ASSUME TypeOK, PackInv, Send
  PROVE  /\ WellFormed(pack) /\ Ordered(pack) /\ LaterHeard(sent, pack)
         /\ sent # <<>> => sent[1].dts < pack[1].dts
<1>1. main = "send" /\ Opened /\ videoDTS < audioDTS /\ pack \in Seq(Packet)
  BY DEF Send, Opened, TypeOK
<1>2. PICK n \in 1 .. Len(pack) :
        Visual(pack, n) /\ \A i \in n + 1 .. Len(pack) : pack[i].t = "audio"
  BY <1>1 DEF PackInv, PackShape
<1>3. /\ pack[1].dts = videoDTS /\ pack[Len(pack)].dts = audioDTS /\ pack[Len(pack)].t = "audio"
      /\ \A i \in Heard(pack) : i # Len(pack) => pack[i].dts <= videoDTS
  BY <1>1 DEF PackInv, PackTimes, Heard
<1>4. n \in 1 .. Len(pack) - 1
  BY <1>1, <1>2, <1>3 DEF Visual
<1>5. ASSUME NEW i \in n + 1 .. Len(pack)
      PROVE  pack[i].t = "audio" /\ (pack[i].dts > pack[1].dts <=> i = Len(pack))
  <2>0. i \in 1 .. Len(pack)
    BY <1>1, PacketTyped
  <2>1. i \in Heard(pack) /\ pack[i].dts \in Nat /\ videoDTS \in Nat /\ audioDTS \in Nat
    BY <1>1, <1>2, <2>0, Times, PacketTyped
  <2> QED
    BY <1>1, <1>2, <1>3, <2>1
<1>6. WellFormed(pack)
  BY <1>2, <1>4, <1>5 DEF WellFormed
<1> QED
  BY <1>1, <1>3, <1>6 DEF PackInv, PackTimes, AfterSent

\* Send begins again.
LEMMA SendKept ==
  ASSUME TypeOK, PackInv, Send
  PROVE  PackInv'
<1>1. /\ main = "send" /\ Opened /\ main' = "loop" /\ ~hasVideo' /\ pack' = <<>> /\ sent' = pack
      /\ UNCHANGED <<avcSamples, aacSamples, ctx>> /\ pack \in Seq(Packet)
  BY DEF Send, Opened, TypeOK
<1>2. videoDTS' = videoDTS /\ audioDTS' = audioDTS /\ videoDTS \in Nat
  BY <1>1, SameTimes, Times
<1>3. Heard(<<>>) = {}
  BY DEF Heard
<1>4. PackShape'
  BY <1>1 DEF PackShape, Opened
<1>5. PackTimes'
  BY <1>1, <1>3 DEF PackTimes, Opened, Ordered
<1>6. AfterSent'
  BY <1>1, <1>2, <1>3 DEF PackInv, PackTimes, AfterSent, Opened, LaterHeard
<1> QED
  BY <1>4, <1>5, <1>6 DEF PackInv

\* The loop goes on with a pack that is not to be sent yet.
LEMMA WaitKept ==
  ASSUME TypeOK, PackInv, VideoBounded, Wait
  PROVE  PackInv'
<1>1. /\ main = "send" /\ main' = "loop" /\ Opened /\ UNCHANGED <<ctx, avcSamples, aacSamples, pack, hasVideo, sent>>
      /\ hasVideo => audioDTS <= videoDTS
      /\ hasVideo \/ ctx = "done"
  BY Times DEF Wait, Opened, VideoBounded
<1>2. videoDTS' = videoDTS /\ audioDTS' = audioDTS /\ videoDTS \in Nat /\ audioDTS \in Nat
  BY <1>1, SameTimes, Times
<1>3. PackShape'
  BY <1>1 DEF PackInv, PackShape, Opened, Visual
<1>4. PackTimes'
  BY <1>1, <1>2 DEF PackInv, PackTimes, Opened, Heard, Ordered
<1>5. AfterSent'
  BY <1>1, <1>2 DEF PackInv, AfterSent, Opened, Heard, LaterHeard
<1> QED
  BY <1>3, <1>4, <1>5 DEF PackInv

\* Every step of Ingest.
LEMMA PackStep ==
  ASSUME TypeOK, TypeOK', VideoBounded, PackInv, [Next]_vars
  PROVE  PackInv'
<1>1. CASE Cancel \/ Connect \/ Fails \/ LoopEnds \/ Loop \/ SendFails
  BY <1>1, PacksKept
  DEF Cancel, Connect, Fails, LoopEnds, Loop, SendFails, VideoBounded
<1>2. CASE ReadParameterSet
  <2>1. /\ UNCHANGED <<ctx, main, avcSamples, aacSamples, pack, hasVideo, sent>> /\ main = "nals"
        /\ frames' = Append(frames, "parameter") /\ frames \in Seq(Nal)
    BY <1>2 DEF ReadParameterSet, TypeOK
  <2>2. videoDTS' = videoDTS /\ audioDTS' = audioDTS
    BY <2>1, SameTimes
  <2>3. \A i \in DOMAIN frames' : frames'[i] = "parameter"
    BY <2>1 DEF PackInv, PackShape
  <2>4. PackShape'
    BY <2>1, <2>3 DEF PackInv, PackShape, Opened
  <2>5. PackTimes' /\ AfterSent'
    BY <2>1, <2>2 DEF PackInv, PackTimes, AfterSent, Opened, Heard, Ordered, LaterHeard
  <2> QED
    BY <2>4, <2>5 DEF PackInv
<1>3. CASE ReadFrame
  <2>1. /\ main = "nals" /\ frames' = Append(frames, "frame") /\ frames \in Seq(Nal)
        /\ WriteVideo(frames') /\ UNCHANGED <<ctx, aacSamples, sent>> /\ frames' \in Seq(Nal)
    BY <1>3 DEF ReadFrame, TypeOK
  <2>2. /\ \A i \in 1 .. Len(frames') : i # Len(frames') => frames'[i] = "parameter"
        /\ frames' # <<>> /\ frames'[Len(frames')] = "frame"
    BY <2>1 DEF PackInv, PackShape
  <2> QED
    BY <2>1, <2>2, VideoKept
<1>4. CASE ReadCanceled
  <2>1. /\ main = "nals" /\ ctx = "done" /\ frames \in Seq(Nal)
        /\ WriteVideo(frames) /\ UNCHANGED <<ctx, aacSamples, sent>>
    BY <1>4 DEF ReadCanceled, TypeOK
  <2>2. \A i \in 1 .. Len(frames) : i # Len(frames) => frames[i] = "parameter"
    BY <2>1 DEF PackInv, PackShape
  <2> QED
    BY <2>1, <2>2, VideoKept
<1>5. CASE WriteAudio
  BY <1>5, AudioKept
<1>6. CASE Send
  BY <1>6, SendKept
<1>7. CASE Wait
  BY <1>7, WaitKept
<1>8. CASE UNCHANGED vars
  BY <1>8, PacksKept DEF vars
<1> QED
  BY <1>1, <1>2, <1>3, <1>4, <1>5, <1>6, <1>7, <1>8 DEF Next

\* The media from its beginning.
LEMMA PackInvariant == Spec => [](TypeOK /\ PackInv)
<1>1. ASSUME Init PROVE PackInv
  <2>1. main = "connect" /\ pack = <<>> /\ sent = <<>> /\ Heard(<<>>) = {}
    BY <1>1 DEF Init, Heard
  <2> QED
    BY <2>1 DEF PackInv, PackShape, PackTimes, AfterSent, Opened, Ordered, LaterHeard
<1>2. TypeOK /\ TypeOK' /\ VideoBounded /\ PackInv /\ [Next]_vars => PackInv'
  BY PackStep
<1> QED
  BY <1>1, <1>2, ClocksInvariant, PTL DEF Spec

\* Every pack that is sent is well formed, and later in video and in audio than the
\* one before, for any rates of which a frame lasts a tick.
THEOREM PacksInOrder == Spec => SentInOrder
<1>1. ASSUME TypeOK, PackInv, [Next]_vars, sent' # sent
      PROVE  /\ WellFormed(sent') /\ Ordered(sent') /\ LaterHeard(sent, sent')
             /\ sent # <<>> => sent[1].dts < sent'[1].dts
  <2>1. Send
    BY <1>1 DEF Next, vars, Cancel, Connect, Fails, LoopEnds, Loop, ReadParameterSet, ReadFrame,
      ReadCanceled, WriteAudio, SendFails, Wait
  <2>2. sent' = pack
    BY <2>1 DEF Send
  <2> QED
    BY <1>1, <2>1, <2>2, SentWell
<1>2. TypeOK /\ PackInv /\ [Next]_vars =>
        [sent' # sent =>
           /\ WellFormed(sent') /\ Ordered(sent') /\ LaterHeard(sent, sent')
           /\ sent # <<>> => sent[1].dts < sent'[1].dts]_vars
  BY <1>1
<1> QED
  BY <1>2, PackInvariant, PTL DEF Spec, SentInOrder

-----------------------------------------------------------------------------
(* What the device writes on its connection (PsWriter).                     *)

\* Counting on is the same before and after a remainder is taken.
LEMMA ModSuccessor ==
  ASSUME NEW k \in Nat, NEW m \in Nat \ {0}
  PROVE  ((k % m) + 1) % m = (k + 1) % m
<1> DEFINE q == k \div m
           r == k % m
<1>1. q \in Int /\ r \in Int /\ k = m * q + r /\ 0 <= r /\ r < m
  BY SMT
<1> HIDE DEF q, r
<1>2. (m * q + r + 1) % m = (r + 1) % m
  BY <1>1, Z3
<1>3. k + 1 = m * q + r + 1
  BY <1>1
<1> QED BY <1>2, <1>3 DEF r

\* The number of PES packets of a frame.
Count(length) == (length + ideaPesLength - 1) \div ideaPesLength

Pes == [frame : Nat, from : Nat, size : Nat, length : Nat]
Rtp == [seq : Nat, announced : Nat, size : Nat]

\* The count is the least number of whole packets that hold the frame.
LEMMA CountBounds ==
  ASSUME NEW length \in Nat \ {0}
  PROVE  /\ Count(length) \in Nat \ {0}
         /\ Count(length) * ideaPesLength >= length
         /\ (Count(length) - 1) * ideaPesLength < length
<1> DEFINE L == ideaPesLength
           C == Count(length)
<1>1. L \in Nat /\ L > 0
  BY PsAssumption
<1>2. C \in Int /\ C * L <= length + L - 1 /\ length + L - 1 < C * L + L
  BY <1>1, Z3 DEF Count
<1>3. C > 0
  BY <1>1, <1>2, Z3
<1>4. (C - 1) * L = C * L - L
  BY <1>1, <1>2, Z3
<1> QED BY <1>1, <1>2, <1>3, <1>4

\* The k-th piece of a frame.
IsPiece(p, n, length, k) ==
  /\ p.frame = n /\ p.from = (k - 1) * ideaPesLength
  /\ p.size \in 1 .. ideaPesLength /\ p.length = p.size + pesAfterLength
  /\ k < Count(length) => p.from + p.size = k * ideaPesLength
  /\ k = Count(length) => p.from + p.size = length

\* The pieces of a frame, one after the other, none empty, and the last ends it.
LEMMA CutPieces ==
  ASSUME NEW n \in Nat, NEW length \in Nat \ {0}
  PROVE  /\ Cut(n, length) \in Seq(Pes) /\ Len(Cut(n, length)) = Count(length)
         /\ Count(length) \in Nat \ {0}
         /\ \A k \in 1 .. Count(length) : IsPiece(Cut(n, length)[k], n, length, k)
<1> DEFINE L == ideaPesLength
           C == Count(length)
<1>1. L \in Nat /\ L > 0 /\ Field \in Nat /\ L + 31 < Field
  BY PsAssumption DEF pesHeader, rtpHeader
<1>2. C \in Nat /\ C > 0 /\ C * L >= length /\ (C - 1) * L < length
  BY CountBounds
<1>3. ASSUME NEW k \in 1 .. C
      PROVE  /\ (k - 1) * L \in Nat /\ (k - 1) * L < length
             /\ k * L = (k - 1) * L + L
             /\ k < C => k * L < length
  <2>1. (k - 1) * L <= (C - 1) * L /\ (k - 1) * L \in Nat
    BY <1>1, <1>2, Z3
  <2>2. k * L = (k - 1) * L + L
    BY <1>1, <1>2, Z3
  <2>3. k < C => k * L <= (C - 1) * L
    BY <1>1, <1>2, Z3
  <2>4. (k - 1) * L < length
    BY <2>1, <1>1, <1>2, Z3
  <2>5. k < C => k * L < length
    BY <2>3, <1>1, <1>2, Z3
  <2> QED BY <2>1, <2>2, <2>4, <2>5
<1>4. Cut(n, length) = [k \in 1 .. C |-> Piece(n, (k - 1) * L, Least(L, length - (k - 1) * L))]
  BY DEF Cut, Count
<1>5. ASSUME NEW k \in 1 .. C
      PROVE  LET s == Least(L, length - (k - 1) * L)
             IN  /\ s \in 1 .. L /\ (s + 13) % Field = s + 13
                 /\ k < C => s = L
                 /\ k = C => (k - 1) * L + s = length
  <2> DEFINE f == (k - 1) * L
  <2>1. f \in Nat /\ f < length /\ k * L = f + L /\ (k < C => k * L < length)
    BY <1>3
  <2>2. k = C => f + L >= length
    BY <2>1, <1>2
  <2> HIDE DEF f
  <2>3. Least(L, length - f) \in 1 .. L /\ (k < C => Least(L, length - f) = L)
        /\ (k = C => f + Least(L, length - f) = length)
    BY <2>1, <2>2, <1>1 DEF Least
  <2>4. \A s \in 1 .. L : (s + 13) % Field = s + 13
    BY <1>1
  <2> QED BY <2>3, <2>4 DEF f
<1> HIDE DEF C, L
<1>6. ASSUME NEW k \in 1 .. C
      PROVE  LET p == Cut(n, length)[k]
             IN  /\ p \in Pes
                 /\ p.frame = n /\ p.from = (k - 1) * L
                 /\ p.size \in 1 .. L /\ p.length = p.size + pesAfterLength
                 /\ k < C => p.from + p.size = k * L
                 /\ k = C => p.from + p.size = length
  <2> DEFINE s == Least(L, length - (k - 1) * L)
             f == (k - 1) * L
  <2>1. Cut(n, length)[k] = [frame |-> n, from |-> f, size |-> s, length |-> (s + pesAfterLength) % Field]
    BY <1>4 DEF Piece
  <2>2. s \in 1 .. L /\ (s + 13) % Field = s + 13 /\ (k < C => s = L) /\ (k = C => f + s = length)
    BY <1>5
  <2>3. f \in Nat /\ k * L = f + L
    BY <1>3
  <2> HIDE DEF s, f
  <2>4. s \in Nat /\ s + 13 \in Nat
    BY <2>2, <1>1
  <2>5. k < C => f + s = k * L
    BY <2>2, <2>3
  <2> QED BY <2>1, <2>2, <2>3, <2>4, <2>5 DEF Pes, pesAfterLength, f
<1>7. Cut(n, length) \in Seq(Pes) /\ Len(Cut(n, length)) = C
  <2>1. Cut(n, length) \in [1 .. C -> Pes]
    BY <1>4, <1>6
  <2> QED BY <1>2, <2>1
<1> QED BY <1>2, <1>6, <1>7 DEF C, L, IsPiece

\* What the pieces of the m-th frame are, whichever way it was cut.
Fits(pieces, m, length) ==
  /\ pieces \in Seq(Pes) /\ Len(pieces) > 0 /\ pieces[1].from = 0
  /\ pieces[Len(pieces)].from + pieces[Len(pieces)].size = length
  /\ \A k \in 1 .. Len(pieces) :
       /\ pieces[k].frame = m /\ pieces[k].size > 0
       /\ pieces[k].size + pesHeader + rtpHeader < Field
       /\ pieces[k].length = pieces[k].size + pesAfterLength
       /\ k > 1 => pieces[k].from = pieces[k - 1].from + pieces[k - 1].size

\* A NAL fits, since it is cut.
LEMMA VideoFits ==
  ASSUME NEW m \in Nat, NEW length \in Nat \ {0}
  PROVE  Fits(Cut(m, length), m, length)
<1> DEFINE p == Cut(m, length)
           C == Count(length)
<1>1. C \in Nat /\ C > 0 /\ p \in Seq(Pes) /\ Len(p) = C
  BY CutPieces
<1>2. ASSUME NEW k \in 1 .. C
      PROVE  /\ p[k].frame = m /\ p[k].from = (k - 1) * ideaPesLength
             /\ p[k].size \in 1 .. ideaPesLength /\ p[k].length = p[k].size + pesAfterLength
             /\ k < C => p[k].from + p[k].size = k * ideaPesLength
             /\ k = C => p[k].from + p[k].size = length
  <2>1. \A i \in 1 .. C : IsPiece(p[i], m, length, i)
    BY CutPieces, Zenon
  <2>2. IsPiece(p[k], m, length, k)
    BY <2>1
  <2> HIDE DEF p
  <2> QED BY <2>2 DEF IsPiece, C
<1> HIDE DEF p, C
<1>3. p[1].from = 0
  BY <1>1, <1>2, PsAssumption
<1>4. \A k \in 1 .. C : p[k].size > 0 /\ p[k].size + pesHeader + rtpHeader < Field
  BY <1>2, PsAssumption DEF pesHeader, rtpHeader
<1>5. ASSUME NEW k \in 1 .. C, k > 1 PROVE p[k].from = p[k - 1].from + p[k - 1].size
  <2>1. k - 1 \in 1 .. C /\ k - 1 < C
    BY <1>1, <1>5
  <2> QED BY <2>1, <1>2
<1>6. p[C].from + p[C].size = length
  BY <1>1, <1>2
<1>7. \A k \in 1 .. C : p[k].frame = m /\ p[k].length = p[k].size + pesAfterLength
  BY <1>2
<1>8. Fits(p, m, length)
  BY <1>1, <1>3, <1>4, <1>5, <1>6, <1>7 DEF Fits
<1> QED BY <1>8 DEF p

\* An ADTS frame is one piece, small enough for its lengths.
LEMMA AudioFits ==
  ASSUME NEW m \in Nat, NEW length \in Nat \ {0}, length <= Peeked
  PROVE  Fits(<<Piece(m, 0, length)>>, m, length)
<1>1. Field \in Nat /\ length + 31 < Field
  BY PsAssumption DEF pesHeader, rtpHeader
<1>2. (length + 13) % Field = length + 13
  BY <1>1
<1> QED BY <1>1, <1>2 DEF Fits, Piece, Pes, pesHeader, rtpHeader, pesAfterLength

\* The types, and how far the connection is.
Sending ==
  /\ writer \in {"mux", "send", "half", "failed"}
  /\ frameOf \in Seq(Nat) /\ pes \in Seq(Pes) /\ onWire \in Seq(Rtp)
  /\ seq \in 0 .. SeqField - 1
  /\ Len(onWire) <= Len(pes)
  /\ writer = "half" => Len(onWire) < Len(pes)
  /\ writer = "half" => seq = (Len(onWire) + 1) % SeqField
  /\ writer \in {"mux", "send"} => seq = Len(onWire) % SeqField

\* The pieces are of frames there are, and small.
Small ==
  \A k \in 1 .. Len(pes) :
    pes[k].frame \in 1 .. Len(frameOf) /\ pes[k].size + pesHeader + rtpHeader < Field

PsInv == Sending /\ Small /\ ServerCanRead

\* A frame that fits goes into the pack behind the others.
LEMMA FrameWritten ==
  ASSUME PsInv, writer = "mux", NEW pieces, NEW length \in Nat,
         Fits(pieces, Len(frameOf) + 1, length), WriteFrame(pieces, length)
  PROVE  PsInv'
<1> DEFINE m == Len(frameOf) + 1
           N == Len(pes)
           C == Len(pieces)
<1>1. /\ frameOf \in Seq(Nat) /\ pes \in Seq(Pes) /\ pieces \in Seq(Pes)
      /\ N \in Nat /\ C \in Nat /\ C > 0 /\ Len(frameOf) \in Nat
  BY DEF PsInv, Sending, Fits
<1>2. /\ frameOf' \in Seq(Nat) /\ Len(frameOf') = m /\ frameOf'[m] = length
      /\ \A k \in 1 .. Len(frameOf) : frameOf'[k] = frameOf[k]
  BY <1>1 DEF WriteFrame
<1>3. /\ pes' \in Seq(Pes) /\ Len(pes') = N + C
      /\ \A k \in 1 .. N : pes'[k] = pes[k]
      /\ \A k \in 1 .. C : pes'[N + k] = pieces[k]
  <2>1. pes' = pes \o pieces
    BY DEF WriteFrame
  <2> QED BY <1>1, <2>1
<1>4. UNCHANGED <<writer, seq, onWire>>
  BY DEF WriteFrame
<1>14. FramesWhole /\ LengthsHold /\ DOMAIN pes = 1 .. N
  <2>1. FramesWhole /\ LengthsHold
    BY DEF PsInv, ServerCanRead
  <2>2. DOMAIN pes = 1 .. N
    BY <1>1
  <2> QED BY <2>1, <2>2
<1>16. pes = <<>> => frameOf = <<>>
  BY <1>14 DEF FramesWhole
<1>15. \A k \in 1 .. N : k > 1 => Continues(pes[k - 1], pes[k])
  BY <1>14, Zenon DEF FramesWhole
<1>5. Sending'
  BY <1>1, <1>2, <1>3, <1>4 DEF PsInv, Sending
<1>6. ASSUME NEW k \in 1 .. N + C
      PROVE  k \in 1 .. N \/ (k - N \in 1 .. C /\ pes'[k] = pieces[k - N])
  <2>1. CASE k > N
    <3>1. k - N \in 1 .. C /\ N + (k - N) = k
      BY <1>1, <2>1
    <3> QED BY <3>1, <1>3
  <2> QED BY <1>1, <2>1
<1>7. ASSUME NEW k \in 1 .. N + C
      PROVE  /\ pes'[k].frame \in 1 .. m /\ pes'[k].size > 0
             /\ pes'[k].size + pesHeader + rtpHeader < Field
             /\ pes'[k].length = pes'[k].size + pesAfterLength
  <2>1. CASE k \in 1 .. N
    <3>1. pes'[k] = pes[k] /\ pes[k].frame \in 1 .. Len(frameOf) /\ pes[k].size > 0
      BY <2>1, <1>1, <1>3 DEF PsInv, Small, ServerCanRead, FramesWhole
    <3>2. pes[k].size + pesHeader + rtpHeader < Field /\ pes[k].length = pes[k].size + pesAfterLength
      BY <2>1, <1>1 DEF PsInv, Small, ServerCanRead, LengthsHold
    <3>3. \A i \in 1 .. Len(frameOf) : i \in 1 .. m
      BY <1>1
    <3> QED BY <3>1, <3>2, <3>3
  <2>2. CASE k - N \in 1 .. C /\ pes'[k] = pieces[k - N]
    <3>1. pieces[k - N].frame = m /\ m \in 1 .. m
      BY <2>2, <1>1 DEF Fits
    <3> QED BY <2>2, <3>1 DEF Fits
  <2> QED BY <1>6, <2>1, <2>2
<1>8. ASSUME NEW k \in 1 .. N + C, k > 1 PROVE Continues(pes[k - 1], pes[k])'
  <2>1. CASE k \in 1 .. N
    <3>1. k - 1 \in 1 .. N /\ pes'[k] = pes[k] /\ pes'[k - 1] = pes[k - 1]
      BY <2>1, <1>1, <1>3, <1>8
    <3>2. Continues(pes[k - 1], pes[k])
      BY <2>1, <1>8, <1>15, Zenon
    <3>3. frameOf'[pes[k - 1].frame] = frameOf[pes[k - 1].frame]
      BY <3>1, <1>2 DEF PsInv, Small
    <3> QED BY <3>1, <3>2, <3>3 DEF Continues
  <2>2. CASE k = N + 1
    <3>1. pes'[k] = pieces[1] /\ pieces[1].frame = m /\ pieces[1].from = 0
      BY <2>2, <1>1, <1>3 DEF Fits
    <3>2. pes'[k - 1] = pes[N] /\ N \in 1 .. N /\ pes # <<>>
      BY <2>2, <1>1, <1>3, <1>8
    <3>3. pes[N].frame = Len(frameOf) /\ pes[N].from + pes[N].size = frameOf[pes[N].frame]
      BY <3>2 DEF PsInv, ServerCanRead, FramesWhole
    <3>4. frameOf'[pes[N].frame] = frameOf[pes[N].frame]
      BY <3>2, <1>2 DEF PsInv, Small
    <3> QED BY <3>1, <3>2, <3>3, <3>4 DEF Continues
  <2>3. CASE k > N + 1
    <3>1. k - N \in 1 .. C /\ k - N > 1 /\ k - N - 1 \in 1 .. C /\ (k - 1) - N = k - N - 1
      BY <2>3, <1>1
    <3>2. pes'[k] = pieces[k - N]
      BY <2>3, <1>6, <1>1
    <3>3. k - 1 \in 1 .. N + C /\ k - 1 \notin 1 .. N
      BY <2>3, <1>1
    <3>4. pes'[k - 1] = pieces[k - N - 1]
      BY <3>1, <3>3, <1>6
    <3>5. /\ pieces[k - N].frame = m /\ pieces[k - N - 1].frame = m
          /\ pieces[k - N].from = pieces[k - N - 1].from + pieces[k - N - 1].size
      BY <3>1 DEF Fits
    <3> QED BY <3>2, <3>4, <3>5 DEF Continues
  <2>4. k \in 1 .. N \/ k = N + 1 \/ k > N + 1
    BY <1>1
  <2> QED BY <2>1, <2>2, <2>3, <2>4, Zenon
<1>9. pes'[1].frame = 1 /\ pes'[1].from = 0
  <2>1. CASE N = 0
    <3>1. pes = <<>>
      BY <2>1, <1>1
    <3>2. frameOf = <<>>
      BY <3>1, <1>16, Zenon
    <3> QED BY <2>1, <3>2, <1>1, <1>3 DEF Fits
  <2>2. CASE N > 0
    <3>1. pes # <<>> /\ pes'[1] = pes[1]
      BY <2>2, <1>1, <1>3
    <3> QED BY <3>1 DEF PsInv, ServerCanRead, FramesWhole
  <2> QED BY <1>1, <2>1, <2>2
<1>10. pes'[N + C].frame = m /\ pes'[N + C].from + pes'[N + C].size = frameOf'[m]
  <2>1. pes'[N + C] = pieces[C] /\ C \in 1 .. C
    BY <1>1, <1>3
  <2>2. pieces[C].frame = m /\ pieces[C].from + pieces[C].size = length
    BY <2>1 DEF Fits
  <2> QED BY <2>1, <2>2, <1>2
<1>11. FramesWhole'
  <2>1. DOMAIN pes' = 1 .. N + C /\ pes' # <<>> /\ N + C \in 1 .. N + C
    BY <1>1, <1>3
  <2>2. \A k \in DOMAIN pes' : pes'[k].size > 0
    BY <2>1, <1>7
  <2>3. \A k \in DOMAIN pes' : k > 1 => Continues(pes[k - 1], pes[k])'
    BY <2>1, <1>8
  <2> QED BY <1>2, <1>3, <1>9, <1>10, <2>1, <2>2, <2>3 DEF FramesWhole
<1>12. LengthsHold'
  <2>1. DOMAIN pes' = 1 .. N + C
    BY <1>1, <1>3
  <2>2. \A k \in DOMAIN onWire : k \in 1 .. N /\ k <= N + C /\ pes'[k] = pes[k]
    <3>1. onWire \in Seq(Rtp)
      BY DEF PsInv, Sending
    <3>2. \A k \in DOMAIN onWire : k <= N /\ k \in Nat /\ k >= 1
      BY <1>14, <3>1 DEF LengthsHold
    <3> QED BY <3>2, <1>1, <1>3
  <2> QED BY <1>3, <1>4, <1>7, <1>14, <2>1, <2>2 DEF LengthsHold
<1>13. Small'
  BY <1>2, <1>3, <1>7 DEF Small
<1> QED BY <1>4, <1>5, <1>11, <1>12, <1>13 DEF PsInv, ServerCanRead

\* Nothing of the frames changes while they are sent.
LEMMA FramesKept ==
  ASSUME PsInv, UNCHANGED <<frameOf, pes>>
  PROVE  FramesWhole' /\ Small' /\ \A k \in DOMAIN pes' : pes'[k].length = pes'[k].size + pesAfterLength
<1>1. FramesWhole /\ Small /\ LengthsHold
  BY DEF PsInv, ServerCanRead
<1>2. FramesWhole'
  BY <1>1 DEF FramesWhole, Continues
<1>3. Small'
  BY <1>1 DEF Small
<1> QED BY <1>1, <1>2, <1>3 DEF LengthsHold

\* Steps that put nothing on the connection.
LEMMA NothingSent ==
  ASSUME PsInv, UNCHANGED <<frameOf, pes, onWire>>, Sending'
  PROVE  PsInv'
<1>1. LengthsHold /\ \A k \in DOMAIN onWire : onWire[k].seq = k % SeqField
  BY DEF PsInv, ServerCanRead
<1>2. LengthsHold'
  BY <1>1 DEF LengthsHold
<1>3. \A k \in DOMAIN onWire' : onWire'[k].seq = k % SeqField
  BY <1>1
<1> QED BY <1>2, <1>3, FramesKept DEF PsInv, ServerCanRead

\* A packet that is written whole has the number and the length it should.
LEMMA PayloadSent == ASSUME PsInv, WritePayload PROVE PsInv'
<1> DEFINE K == Len(onWire) + 1
           size == NextPiece.size + pesHeader + rtpHeader
           written == [seq |-> seq, announced |-> size % Field, size |-> size]
<1>1. /\ onWire \in Seq(Rtp) /\ pes \in Seq(Pes) /\ Len(onWire) \in Nat
      /\ K \in 1 .. Len(pes) /\ seq = K % SeqField /\ seq \in 0 .. SeqField - 1
  BY DEF PsInv, Sending, WritePayload
<1>2. UNCHANGED <<frameOf, pes, seq>> /\ onWire' = Append(onWire, written) /\ writer' = "send"
  BY DEF WritePayload
<1>3. pes[K] \in Pes /\ size = pes[K].size + pesHeader + rtpHeader /\ size < Field
  <2>1. pes[K] \in Pes
    BY <1>1
  <2>2. Small
    BY DEF PsInv
  <2>3. pes[K].size + pesHeader + rtpHeader < Field
    BY <1>1, <2>2 DEF Small
  <2> QED BY <2>1, <2>3 DEF NextPiece
<1>4. size \in Nat /\ size % Field = size
  <2>1. pes[K].size \in Nat
    BY <1>3 DEF Pes
  <2> HIDE DEF size
  <2>2. size \in Nat
    BY <2>1, <1>3 DEF pesHeader, rtpHeader
  <2>3. size < Field /\ Field \in Nat
    BY <1>3, PsAssumption
  <2> QED BY <2>2, <2>3, Z3
<1> HIDE DEF size
<1>5. written \in Rtp
  BY <1>1, <1>4, PsAssumption DEF Rtp
<1> HIDE DEF written
<1>6. /\ onWire' \in Seq(Rtp) /\ Len(onWire') = K /\ onWire'[K] = written
      /\ DOMAIN onWire' = 1 .. K
      /\ \A k \in 1 .. K : k # K => k \in DOMAIN onWire /\ onWire'[k] = onWire[k]
  BY <1>1, <1>2, <1>5
<1>7. Sending'
  BY <1>1, <1>2, <1>6, PsAssumption DEF PsInv, Sending
<1>8. LengthsHold /\ \A k \in DOMAIN onWire : onWire[k].seq = k % SeqField
  BY DEF PsInv, ServerCanRead
<1>9. written.seq = K % SeqField /\ written.announced = size /\ written.size = size
  BY <1>1, <1>4 DEF written
<1>10. \A k \in DOMAIN onWire' : onWire'[k].seq = k % SeqField
  BY <1>6, <1>8, <1>9
<1>11. \A k \in DOMAIN onWire' :
        /\ onWire'[k].announced = onWire'[k].size
        /\ k <= Len(pes') /\ onWire'[k].size = pes'[k].size + pesHeader + rtpHeader
  <2> TAKE k \in DOMAIN onWire'
  <2>1. CASE k = K
    BY <2>1, <1>1, <1>2, <1>3, <1>6, <1>9
  <2>2. CASE k # K
    <3>1. k \in DOMAIN onWire /\ onWire'[k] = onWire[k]
      BY <2>2, <1>6
    <3> QED BY <3>1, <1>2, <1>8 DEF LengthsHold
  <2> QED BY <2>1, <2>2
<1>12. LengthsHold'
  BY <1>2, <1>11, FramesKept DEF LengthsHold
<1> QED BY <1>2, <1>7, <1>10, <1>12, FramesKept DEF PsInv, ServerCanRead

\* Every step keeps the invariant.
LEMMA WriterInductive == PsInv /\ [PsNext]_psVars => PsInv'
<1> SUFFICES ASSUME PsInv, [PsNext]_psVars PROVE PsInv'
  OBVIOUS
<1>1. ASSUME NEW n \in Nalu, MuxVideo(n) PROVE PsInv'
  <2>1. n + 4 \in Nat \ {0} /\ Len(frameOf) + 1 \in Nat
    BY PsAssumption DEF PsInv, Sending
  <2>2. Fits(Cut(Len(frameOf) + 1, n + 4), Len(frameOf) + 1, n + 4)
    BY <2>1, VideoFits
  <2> QED BY <1>1, <2>1, <2>2, FrameWritten DEF MuxVideo
<1>2. ASSUME NEW n \in Adts, MuxAudio(n) PROVE PsInv'
  <2>1. n \in Nat \ {0} /\ Len(frameOf) + 1 \in Nat /\ n <= Peeked
    BY <1>2, PsAssumption DEF PsInv, Sending, MuxAudio
  <2>2. Fits(<<Piece(Len(frameOf) + 1, 0, n)>>, Len(frameOf) + 1, n)
    BY <2>1, AudioFits
  <2> QED BY <1>2, <2>1, <2>2, FrameWritten DEF MuxAudio
<1>3. CASE (\E n \in Adts : AdtsFails(n)) \/ WritePacks \/ WriteLength \/ WritePacksReturns \/ WritePacksFails
  <2>1. UNCHANGED <<frameOf, pes, onWire>>
    <3>1. CASE \E n \in Adts : AdtsFails(n)
      BY <3>1 DEF AdtsFails
    <3>2. CASE WritePacks
      BY <3>2 DEF WritePacks
    <3>3. CASE WriteLength
      BY <3>3 DEF WriteLength
    <3>4. CASE WritePacksReturns
      BY <3>4 DEF WritePacksReturns
    <3>5. CASE WritePacksFails
      BY <3>5 DEF WritePacksFails
    <3> QED BY <1>3, <3>1, <3>2, <3>3, <3>4, <3>5
  <2>2. CASE \E n \in Adts : AdtsFails(n)
    <3>1. Sending'
      BY <2>2 DEF AdtsFails, PsInv, Sending
    <3> QED BY <3>1, <2>1, NothingSent
  <2>3. CASE WritePacks
    <3>1. Sending'
      BY <2>3 DEF WritePacks, PsInv, Sending
    <3> QED BY <3>1, <2>1, NothingSent
  <2>4. CASE WriteLength
    <3>1. Len(onWire) \in Nat /\ seq = Len(onWire) % SeqField /\ SeqField \in Nat \ {0}
      BY <2>4, PsAssumption DEF WriteLength, PsInv, Sending
    <3>2. ((Len(onWire) % SeqField) + 1) % SeqField = (Len(onWire) + 1) % SeqField
      BY <3>1, ModSuccessor
    <3>3. (Len(onWire) + 1) % SeqField \in 0 .. SeqField - 1
      BY <3>1
    <3>4. Sending'
      BY <2>4, <3>1, <3>2, <3>3 DEF WriteLength, PsInv, Sending
    <3> QED BY <3>4, <2>1, NothingSent
  <2>5. CASE WritePacksReturns
    <3>1. Sending'
      BY <2>5 DEF WritePacksReturns, PsInv, Sending
    <3> QED BY <3>1, <2>1, NothingSent
  <2>6. CASE WritePacksFails
    <3>1. Sending'
      BY <2>6 DEF WritePacksFails, PsInv, Sending
    <3> QED BY <3>1, <2>1, NothingSent
  <2> QED BY <1>3, <2>2, <2>3, <2>4, <2>5, <2>6
<1>4. CASE WritePayload
  BY <1>4, PayloadSent
<1>5. CASE UNCHANGED psVars
  <2>1. UNCHANGED <<frameOf, pes, onWire>> /\ Sending'
    BY <1>5 DEF psVars, PsInv, Sending
  <2> QED BY <2>1, NothingSent
<1> QED BY <1>1, <1>2, <1>3, <1>4, <1>5 DEF PsNext

\* The invariant of the writer.
LEMMA WriterInvariant == PsSpec => []PsInv
<1>1. PsInit => PsInv
  <2> SUFFICES ASSUME PsInit PROVE PsInv
    OBVIOUS
  <2>1. Len(onWire) = 0 /\ Len(pes) = 0 /\ 0 % SeqField = 0
    BY PsAssumption DEF PsInit
  <2>2. Sending
    BY <2>1, PsAssumption DEF PsInit, Sending
  <2>3. Small /\ ServerCanRead
    BY <2>1 DEF PsInit, Small, ServerCanRead, FramesWhole, LengthsHold
  <2> QED BY <2>2, <2>3 DEF PsInv
<1> QED BY <1>1, WriterInductive, PTL DEF PsSpec

\* The type invariant of the writer, with numbers of the width of their field.
THEOREM WriterTypeCorrect == PsSpec => []PsTypeOK
<1>1. PsInv => PsTypeOK
  BY DEF PsInv, Sending, PsTypeOK, Pes, Rtp
<1> QED BY <1>1, WriterInvariant, PTL

\* The server can read what the device writes, for frames of any length and any
\* number of them, as long as the pieces and what the audio reader sees fit into
\* sixteen bits with their headers.
THEOREM ReadableForever == PsSpec => []ServerCanRead
<1>1. PsInv => ServerCanRead
  BY DEF PsInv
<1> QED BY <1>1, WriterInvariant, PTL

-----------------------------------------------------------------------------
(* The UDP proxy.                                                           *)
(* What makes the properties inductive.                                     *)

\* A packet that is dealt with has a sender; Close waits for a worker.
Held ==
  /\ \A w \in Caller : reader[w] \in {"find", "write"} => packet[w] \in Client
  /\ close = "wait" => awaited \in Caller

\* A worker that was waited for is not set up a second time.
StoppedReturned == \A w \in stopped : proxy[w] = "returned"

\* The type invariant of the proxy, with what its readers and Close hold on to.
Typed == UdpTypeOK /\ Held

\* The steps of Next, one by one.
LEMMA Steps ==
  ASSUME UdpNext
  PROVE  \/ \E w \in Caller : Load(w) \/ Store(w) \/ Setup(w) \/ SetupFails(w)
         \/ \E w \in Caller : (\E c \in Client : Read(w, c)) \/ ReadFails(w) \/ Reuse(w)
         \/ \E w \in Caller : DialFails(w) \/ Write(w) \/ WriteFails(w) \/ CloseVnet(w)
         \/ \E w \in Caller, i \in Socket : Dial(w, i)
         \/ \E i \in Socket : EchoFails(i) \/ CloseReal(i)
         \/ CloseBegins \/ Waited \/ CloseReturns
         \/ \E s \in Server : Visit(s)
  BY DEF UdpNext, ProxyStep, ReaderStep, EndpointStep, CloseStep

\* A type-correct state is followed by one, whoever takes the step.
LEMMA TypedInductive == Typed /\ [UdpNext]_udpVars => Typed'
<1> SUFFICES ASSUME Typed, [UdpNext]_udpVars PROVE Typed'
  OBVIOUS
<1> USE UdpAssumption
<1> USE DEF Typed, UdpTypeOK, Held, Proxying, SocketState, ReaderState, EchoState
<1>1. CASE \E w \in Caller : Load(w) \/ Store(w) \/ Setup(w) \/ SetupFails(w)
  <2> PICK w \in Caller : Load(w) \/ Store(w) \/ Setup(w) \/ SetupFails(w)
    BY <1>1
  <2>1. CASE Load(w)
    BY <2>1 DEF Load, sockets, closer
  <2>2. CASE Store(w)
    BY <2>2 DEF Store, sockets
  <2>3. CASE Setup(w)
    BY <2>3 DEF Setup, sockets, closer
  <2>4. CASE SetupFails(w)
    BY <2>4 DEF SetupFails, sockets, closer
  <2> QED BY <2>1, <2>2, <2>3, <2>4
<1>2. CASE \E w \in Caller : (\E c \in Client : Read(w, c)) \/ ReadFails(w) \/ Reuse(w)
  BY <1>2 DEF Read, ReadFails, Reuse, calls, sockets, closer
<1>3. CASE \E w \in Caller : DialFails(w) \/ Write(w) \/ WriteFails(w) \/ CloseVnet(w)
  BY <1>3 DEF DialFails, Write, WriteFails, CloseVnet, calls, sockets, closer
<1>4. CASE \E w \in Caller, i \in Socket : Dial(w, i)
  <2> PICK w \in Caller, i \in Socket : Dial(w, i)
    BY <1>4
  <2>1. <<w, packet[w]>> \in Caller \X Client
    BY DEF Dial
  <2> QED BY <2>1 DEF Dial, calls, closer
<1>5. CASE \E i \in Socket : EchoFails(i) \/ CloseReal(i)
  BY <1>5 DEF EchoFails, CloseReal, calls, closer
<1>6. CASE CloseBegins \/ Waited \/ CloseReturns
  BY <1>6 DEF CloseBegins, Waited, CloseReturns, calls, sockets
<1>7. CASE \E s \in Server : Visit(s)
  BY <1>7 DEF Visit, calls, sockets
<1>8. CASE UNCHANGED udpVars
  BY <1>8 DEF udpVars, calls, sockets, closer
<1> QED BY <1>1, <1>2, <1>3, <1>4, <1>5, <1>6, <1>7, <1>8, Steps

\* The types hold throughout.
THEOREM UdpTypeCorrect == UdpSpec => []Typed
<1>1. UdpInit => Typed
  BY UdpAssumption DEF UdpInit, Typed, UdpTypeOK, Held, Proxying, SocketState, ReaderState,
    EchoState
<1> QED BY <1>1, TypedInductive, PTL DEF UdpSpec

-----------------------------------------------------------------------------

\* Sockets change owners only when they are dialed, for a client that has none.
LEMMA OwnersInductive == Typed /\ OneAddress /\ [UdpNext]_udpVars => OneAddress'
<1> SUFFICES ASSUME Typed, OneAddress, [UdpNext]_udpVars PROVE OneAddress'
  OBVIOUS
<1>1. CASE \E w \in Caller, i \in Socket : Dial(w, i)
  <2> PICK w \in Caller, i \in Socket : Dial(w, i)
    BY <1>1
  <2>1. owner' = [owner EXCEPT ![i] = <<w, packet[w]>>] /\ owner \in [Socket -> (Caller \X Client) \cup {NoOne}]
    BY DEF Dial, Typed, UdpTypeOK
  <2>2. \A j \in Socket : owner[j] # <<w, packet[w]>>
    BY DEF Dial, IsEndpoint
  <2> QED BY <2>1, <2>2 DEF OneAddress
<1>2. CASE UNCHANGED owner
  BY <1>2 DEF OneAddress
<1>3. UNCHANGED owner \/ \E w \in Caller, i \in Socket : Dial(w, i)
  BY Steps DEF Load, Store, Setup, SetupFails, Read, ReadFails, Reuse, DialFails, Write,
    WriteFails, CloseVnet, EchoFails, CloseReal, CloseBegins, Waited, CloseReturns, Visit,
    sockets, udpVars
<1> QED BY <1>1, <1>2, <1>3

\* A server knows a client of a worker by one address only.
THEOREM OneAddressOnly == UdpSpec => []OneAddress
<1>1. UdpInit => OneAddress
  BY DEF UdpInit, OneAddress
<1> QED BY <1>1, UdpTypeCorrect, OwnersInductive, PTL DEF UdpSpec

-----------------------------------------------------------------------------

\* What has ended stays so once its worker was waited for.
LEMMA StoppedInductive ==
  Typed /\ StoppedReturned /\ CloseWaits /\ [UdpNext]_udpVars => (StoppedReturned /\ CloseWaits)'
<1> SUFFICES ASSUME Typed, StoppedReturned, CloseWaits, [UdpNext]_udpVars
             PROVE  StoppedReturned' /\ CloseWaits'
  OBVIOUS
<1> USE UdpAssumption
<1> USE DEF Typed, UdpTypeOK, Held, StoppedReturned, CloseWaits, Ended
<1>1. CASE \E w \in Caller : Load(w) \/ Store(w) \/ Setup(w) \/ SetupFails(w)
  <2> PICK w \in Caller : Load(w) \/ Store(w) \/ Setup(w) \/ SetupFails(w)
    BY <1>1
  <2>1. w \notin stopped
    BY DEF Load, Store, Setup, SetupFails
  <2>2. UNCHANGED <<stopped, owner, echo>>
    BY DEF Load, Store, Setup, SetupFails, sockets, closer
  <2>3. \A x \in Caller : x # w => proxy'[x] = proxy[x] /\ reader'[x] = reader[x]
    BY DEF Load, Store, Setup, SetupFails
  <2> QED BY <2>1, <2>2, <2>3
<1>2. CASE \E w \in Caller : (\E c \in Client : Read(w, c)) \/ ReadFails(w) \/ Reuse(w)
  BY <1>2 DEF Read, ReadFails, Reuse, calls, sockets, closer
<1>3. CASE \E w \in Caller : DialFails(w) \/ Write(w) \/ WriteFails(w) \/ CloseVnet(w)
  BY <1>3 DEF DialFails, Write, WriteFails, CloseVnet, calls, sockets, closer
<1>4. CASE \E w \in Caller, i \in Socket : Dial(w, i)
  <2> PICK w \in Caller, i \in Socket : Dial(w, i)
    BY <1>4
  <2>1. w \notin stopped
    BY DEF Dial
  <2>2. UNCHANGED <<stopped, proxy>>
    BY DEF Dial, calls, closer
  <2>3. \A x \in Caller : x # w => reader'[x] = reader[x]
    BY DEF Dial
  <2>4. owner'[i] = <<w, packet[w]>> /\ \A j \in Socket : j # i => owner'[j] = owner[j] /\ echo'[j] = echo[j]
    BY DEF Dial
  <2> QED BY <2>1, <2>2, <2>3, <2>4
<1>5. CASE \E i \in Socket : EchoFails(i) \/ CloseReal(i)
  BY <1>5 DEF EchoFails, CloseReal, calls, closer
<1>6. CASE CloseBegins \/ Waited \/ CloseReturns
  BY <1>6 DEF CloseBegins, Waited, CloseReturns, calls, sockets
<1>7. CASE \E s \in Server : Visit(s)
  BY <1>7 DEF Visit, calls, sockets
<1>8. CASE UNCHANGED udpVars
  BY <1>8 DEF udpVars, calls, sockets, closer
<1> QED BY <1>1, <1>2, <1>3, <1>4, <1>5, <1>6, <1>7, <1>8, Steps

\* Nothing of a running worker that Close came to runs once Close has moved on.
THEOREM CloseHasWaited == UdpSpec => []CloseWaits
<1>1. UdpInit => StoppedReturned /\ CloseWaits
  BY DEF UdpInit, StoppedReturned, CloseWaits
<1> QED BY <1>1, UdpTypeCorrect, StoppedInductive, PTL DEF UdpSpec

-----------------------------------------------------------------------------
(* The TCP proxy.                                                           *)

\* A context is done only when an end has closed its half or left; a socket is
\* closed and a copying goroutine ended only behind its context.
CanceledByEnd ==
  \A k \in Conn :
    /\ k \in canceled => \E d \in Side : far[k][d] # "open"
    /\ socket[k] = "closed" => k \in canceled
    /\ \A d \in Side : copier[k][d] = "done" => k \in canceled
    /\ served[k] = "returned" => socket[k] = "closed"

\* A chunk in the hands of a copying goroutine is counted; and where one end
\* has shut and the other has not, only the end of the stream has canceled.
PassedOn ==
  \A k \in Conn, d \in Side :
    /\ copier[k][d] = "write" => pending[k][d] > 0
    /\ far[k][d] = "shut" /\ far[k][Other[d]] = "open" /\ k \in canceled => pending[k][d] = 0

TcpInv == TcpTypeOK /\ CanceledByEnd /\ PassedOn

\* The sides are two.
LEMMA Sides ==
  /\ Side = {"client", "backend"}
  /\ \A d \in Side : Other[d] \in Side /\ Other[d] # d /\ Other[Other[d]] = d
  /\ \A d, e \in Side : e = d \/ e = Other[d]
  /\ \A x : \A d \in Side : Both(x)[d] = x
BY DEF Side, Other, Both

\* What changes in one direction of one connection leaves the others.
LEMMA OneDirection ==
  ASSUME NEW S, NEW f \in [Conn -> [Side -> S]], NEW k \in Conn, NEW d \in Side, NEW v \in S,
         NEW g, g = [f EXCEPT ![k][d] = v]
  PROVE  /\ g \in [Conn -> [Side -> S]]
         /\ g[k][d] = v
         /\ \A j \in Conn, e \in Side : j # k \/ e # d => g[j][e] = f[j][e]
OBVIOUS

\* The proxy starts with nothing.
LEMMA TcpBegins == TcpInit => TcpInv
BY TcpAssumption, Sides DEF TcpInit, TcpInv, TcpTypeOK, CanceledByEnd, PassedOn, Both, Far

\* Every step of a connection, its goroutines or its ends preserves it.
LEMMA TcpStep == TcpInv /\ [TcpNext]_tcpVars => TcpInv'
<1> SUFFICES ASSUME TcpInv, [TcpNext]_tcpVars PROVE TcpInv'
  OBVIOUS
<1> DEFINE CopierState == {"none", "read", "write", "done"}
<1>t. /\ copier \in [Conn -> [Side -> CopierState]]
      /\ pending \in [Conn -> [Side -> 0 .. Window]]
      /\ far \in [Conn -> [Side -> Far]]
  BY DEF TcpInv, TcpTypeOK
<1>1. CASE UNCHANGED tcpVars
  BY <1>1 DEF tcpVars, ends, TcpInv, TcpTypeOK, CanceledByEnd, PassedOn
<1>2. ASSUME NEW k \in Conn, Accept(k) \/ BackendRefuses(k) \/ CloseBoth(k) \/ ServeReturns(k)
      PROVE TcpInv'
  <2>1. UNCHANGED <<ends, copier, canceled>>
    BY <1>2 DEF Accept, BackendRefuses, CloseBoth, ServeReturns
  <2>2. TcpTypeOK'
    BY <1>2, <2>1 DEF Accept, BackendRefuses, CloseBoth, ServeReturns, ends, TcpInv, TcpTypeOK
  <2>3. /\ \A j \in Conn : socket'[j] = "closed" => j \in canceled
        /\ \A j \in Conn : served'[j] = "returned" => socket'[j] = "closed"
    BY <1>2 DEF Accept, BackendRefuses, CloseBoth, ServeReturns, ends, TcpInv, TcpTypeOK,
        CanceledByEnd, Running
  <2> QED
    BY <2>1, <2>2, <2>3 DEF ends, TcpInv, CanceledByEnd, PassedOn
<1>3. ASSUME NEW k \in Conn, Dialed(k) PROVE TcpInv'
  <2>1. /\ UNCHANGED <<program, ends, canceled>>
        /\ served[k] = "dial" /\ served' = [served EXCEPT ![k] = "serve"]
        /\ socket' = [socket EXCEPT ![k] = "open"]
        /\ copier' = [copier EXCEPT ![k] = Both("read")]
    BY <1>3 DEF Dialed
  <2>2. Both("read") \in [Side -> CopierState] /\ \A d \in Side : Both("read")[d] = "read"
    BY DEF Both
  <2>3. /\ copier' \in [Conn -> [Side -> CopierState]]
        /\ \A j \in Conn, d \in Side : copier'[j][d] = IF j = k THEN "read" ELSE copier[j][d]
    BY <1>t, <2>1, <2>2
  <2>4. TcpTypeOK'
    BY <2>1, <2>3 DEF ends, TcpInv, TcpTypeOK
  <2> QED
    BY <2>1, <2>3, <2>4 DEF ends, TcpInv, TcpTypeOK, CanceledByEnd, PassedOn
<1>4. ASSUME NEW k \in Conn, NEW d \in Side, CopyRead(k, d) PROVE TcpInv'
  <2>1. copier' = [copier EXCEPT ![k][d] = "write"] /\ pending[k][d] > 0
    BY <1>4 DEF CopyRead, Copier
  <2>2. /\ copier' \in [Conn -> [Side -> CopierState]]
        /\ copier'[k][d] = "write"
        /\ \A j \in Conn, e \in Side : j # k \/ e # d => copier'[j][e] = copier[j][e]
    BY <1>t, <2>1, OneDirection
  <2>3. UNCHANGED <<program, served, far, pending, canceled, socket>>
    BY <1>4 DEF CopyRead, ends
  <2>4. TcpTypeOK'
    BY <2>2, <2>3 DEF TcpInv, TcpTypeOK
  <2> QED
    BY <2>1, <2>2, <2>3, <2>4, Sides DEF TcpInv, CanceledByEnd, PassedOn
<1>5. ASSUME NEW k \in Conn, NEW d \in Side, CopyWrite(k, d) PROVE TcpInv'
  <2>1. /\ copier' = [copier EXCEPT ![k][d] = "read"] /\ copier[k][d] = "write"
        /\ pending' = [pending EXCEPT ![k][d] = pending[k][d] - 1]
        /\ UNCHANGED <<program, served, far, canceled, socket>>
    BY <1>5 DEF CopyWrite, Copier
  <2>2. /\ copier' \in [Conn -> [Side -> CopierState]]
        /\ copier'[k][d] = "read"
        /\ \A j \in Conn, e \in Side : j # k \/ e # d => copier'[j][e] = copier[j][e]
    BY <1>t, <2>1, OneDirection
  <2>3. pending[k][d] \in 0 .. Window /\ pending[k][d] > 0
    BY <1>t, <2>1 DEF TcpInv, PassedOn
  <2>4. pending[k][d] - 1 \in 0 .. Window
    BY <2>3, TcpAssumption DEF TcpAssumption
  <2>5. /\ pending' \in [Conn -> [Side -> 0 .. Window]]
        /\ pending'[k][d] = pending[k][d] - 1
        /\ \A j \in Conn, e \in Side : j # k \/ e # d => pending'[j][e] = pending[j][e]
    BY <1>t, <2>1, <2>4, OneDirection
  <2>6. TcpTypeOK' /\ CanceledByEnd'
    BY <2>1, <2>2, <2>5 DEF TcpInv, TcpTypeOK, CanceledByEnd
  <2>7. PassedOn'
    BY <2>1, <2>2, <2>3, <2>5, Sides DEF TcpInv, PassedOn
  <2> QED
    BY <2>6, <2>7 DEF TcpInv
<1>6. ASSUME NEW k \in Conn, NEW d \in Side, CopyEof(k, d) \/ CopyFails(k, d) PROVE TcpInv'
  <2>1. /\ copier' = [copier EXCEPT ![k][d] = "done"] /\ canceled' = canceled \cup {k}
        /\ UNCHANGED <<program, served, far, pending, socket>>
    BY <1>6 DEF CopyEof, CopyFails, CopyEnds, Copier, ends
  <2>2. /\ copier' \in [Conn -> [Side -> CopierState]]
        /\ copier'[k][d] = "done"
        /\ \A j \in Conn, e \in Side : j # k \/ e # d => copier'[j][e] = copier[j][e]
    BY <1>t, <2>1, OneDirection
  <2>3. \E e \in Side : far[k][e] # "open"
    BY <1>6, Sides DEF CopyEof, CopyFails, TcpInv, CanceledByEnd
  <2>4. ASSUME NEW e \in Side, far[k][e] = "shut", far[k][Other[e]] = "open"
        PROVE  pending[k][e] = 0
    <3>1. e = d \/ (e = Other[d] /\ d = Other[e])
      BY Sides
    <3>2. CASE k \in canceled
      BY <2>4, <3>2 DEF TcpInv, PassedOn
    <3>3. CASE k \notin canceled
      BY <1>6, <2>4, <3>1, <3>3, Sides DEF CopyEof, CopyFails, TcpInv, CanceledByEnd
    <3> QED
      BY <3>2, <3>3
  <2>5. TcpTypeOK'
    BY <2>1, <2>2 DEF TcpInv, TcpTypeOK
  <2>6. CanceledByEnd'
    BY <2>1, <2>2, <2>3 DEF TcpInv, CanceledByEnd
  <2>7. PassedOn'
    BY <2>1, <2>2, <2>4 DEF TcpInv, PassedOn
  <2> QED
    BY <2>5, <2>6, <2>7 DEF TcpInv
<1>7. ASSUME NEW k \in Conn, NEW d \in Side, FarSends(k, d) PROVE TcpInv'
  <2>1. /\ far[k][d] = "open" /\ pending[k][d] < Window
        /\ pending' = [pending EXCEPT ![k][d] = pending[k][d] + 1]
        /\ UNCHANGED <<program, served, far, copier, canceled, socket>>
    BY <1>7 DEF FarSends
  <2>2. pending[k][d] \in 0 .. Window /\ pending[k][d] + 1 \in 0 .. Window
    BY <1>t, <2>1, TcpAssumption DEF TcpAssumption
  <2>3. /\ pending' \in [Conn -> [Side -> 0 .. Window]]
        /\ pending'[k][d] = pending[k][d] + 1
        /\ \A j \in Conn, e \in Side : j # k \/ e # d => pending'[j][e] = pending[j][e]
    BY <1>t, <2>1, <2>2, OneDirection
  <2>4. TcpTypeOK' /\ CanceledByEnd'
    BY <2>1, <2>3 DEF TcpInv, TcpTypeOK, CanceledByEnd
  <2>5. PassedOn'
    BY <2>1, <2>2, <2>3 DEF TcpInv, PassedOn
  <2> QED
    BY <2>4, <2>5 DEF TcpInv
<1>8. ASSUME NEW k \in Conn, NEW d \in Side, FarEnds(k, d) PROVE TcpInv'
  <2>1. PICK state \in {"shut", "gone"} : far' = [far EXCEPT ![k][d] = state]
    BY <1>8 DEF FarEnds
  <2>2. state \in Far
    BY DEF Far
  <2>3. /\ far' \in [Conn -> [Side -> Far]]
        /\ far'[k][d] = state /\ far[k][d] # "gone"
        /\ \A j \in Conn, e \in Side : j # k \/ e # d => far'[j][e] = far[j][e]
    BY <1>8, <1>t, <2>1, <2>2, OneDirection DEF FarEnds
  <2>4. UNCHANGED <<program, served, pending, copier, canceled, socket>>
    BY <1>8 DEF FarEnds
  <2>5. ASSUME NEW j \in Conn, NEW e \in Side, far'[j][e] = "shut", far'[j][Other[e]] = "open",
               j \in canceled
        PROVE  pending[j][e] = 0
    <3>1. far[j][Other[e]] = "open"
      BY <2>3, <2>5, Sides
    <3>2. far[j][e] # "open"
      BY <2>5, <3>1, Sides DEF TcpInv, CanceledByEnd
    <3>3. far[j][e] = "shut"
      BY <1>t, <2>3, <2>5, <3>2 DEF Far
    <3> QED
      BY <2>5, <3>1, <3>3 DEF TcpInv, PassedOn
  <2>6. CanceledByEnd'
    BY <2>3, <2>4 DEF TcpInv, CanceledByEnd
  <2>7. TcpTypeOK' /\ PassedOn'
    BY <2>3, <2>4, <2>5 DEF TcpInv, TcpTypeOK, PassedOn
  <2> QED
    BY <2>6, <2>7 DEF TcpInv
<1> QED
  BY <1>1, <1>2, <1>3, <1>4, <1>5, <1>6, <1>7, <1>8 DEF TcpNext, ServeStep, CopyStep

\* The type invariant of the TCP proxy; no more is pending than a window.
THEOREM TcpTypeCorrect == TcpSpec => []TcpTypeOK
<1>1. TcpInv => TcpTypeOK
  BY DEF TcpInv
<1> QED
  BY <1>1, TcpBegins, TcpStep, PTL DEF TcpSpec

\* An end that shuts its half loses nothing by it: the last goroutine to know of
\* the end is the one that has passed everything on (io.Copy before cancel).
THEOREM NothingCutOff == TcpSpec => []CopiedWhole
<1>1. TcpInv => CopiedWhole
  BY DEF TcpInv, CanceledByEnd, PassedOn, CopiedWhole
<1> QED
  BY <1>1, TcpBegins, TcpStep, PTL DEF TcpSpec

-----------------------------------------------------------------------------
(* The reader of H.265 files.                                               *)

\* The NALs up to the k-th that are not SEI.
Kept(f, k) == {n \in DOMAIN f.nal : n <= k /\ ~IsSei(NalAt(f, n))}

\* The byte at this place is of the k-th NAL, or of the start code behind it but
\* for the 1 of that.
Around(f, k, at) ==
  /\ f.nal[k].from - 1 <= at
  /\ at <= f.nal[k].to \/ (k < Len(f.nal) /\ at <= f.nal[k + 1].from - 2)

\* So many of the bytes before it are zeros of the NAL or behind it, and behind it
\* they are all that are there.
Zeros(f, k, at, zeros) ==
  /\ zeros <= at - f.nal[k].from + 1
  /\ \A i \in at - zeros + 1 .. at : f.bytes[i] = 0
  /\ at > f.nal[k].to => zeros = at - f.nal[k].to

\* The scanner is within the k-th NAL, or in the start code behind it.
Within(k) ==
  /\ Around(file, k, taken)
  /\ nalBuffer = SubSeq(file.bytes, file.nal[k].from, taken)
  /\ Zeros(file, k, taken, countOfConsecutiveZeroBytes)
  /\ Lists(file, nals, Kept(file, k - 1))

\* The last NAL has been returned.
Finished ==
  /\ file.nal # <<>> /\ taken = Len(file.bytes) /\ nalBuffer = <<>>
  /\ Lists(file, nals, Kept(file, Len(file.nal) - 1) \cup {Len(file.nal)})

\* The inductive invariant of the scanner, at the head of a file, in it, and at its end.
Unread == /\ ~nalPrefixParsed /\ taken = 0
          /\ nalBuffer = <<>> /\ countOfConsecutiveZeroBytes = 0 /\ nals = <<>>
ScanInv ==
  WellFormedFile(file) =>
    \/ Unread /\ (scanner = "scan" \/ (scanner = "eof" /\ file.nal = <<>>))
    \/ nalPrefixParsed /\ scanner = "scan" /\ \E k \in DOMAIN file.nal : Within(k)
    \/ nalPrefixParsed /\ scanner \in {"scan", "eof"} /\ Finished

\* The types of a file.
FileTyped(f) == f.bytes \in Seq(Byte) /\ f.nal \in Seq([from : Nat, to : Nat])

\* Where a NAL of a file is, and where the next is behind it.
LEMMA NalPlaces ==
  ASSUME NEW f, FileTyped(f), WellFormedFile(f), NEW k \in DOMAIN f.nal
  PROVE  /\ f.nal[k].from \in Nat /\ f.nal[k].to \in Nat
         /\ k \in Nat /\ 1 <= k /\ k <= Len(f.nal) /\ Len(f.nal) \in Nat /\ Len(f.bytes) \in Nat
         /\ 4 <= f.nal[k].from /\ f.nal[k].from <= f.nal[k].to /\ f.nal[k].to <= Len(f.bytes)
         /\ f.bytes[f.nal[k].to] # 0
         /\ k = 1 => f.nal[k].from \in {4, 5}
         /\ k = Len(f.nal) => f.nal[k].to = Len(f.bytes)
         /\ k < Len(f.nal) =>
              /\ k + 1 \in DOMAIN f.nal /\ f.nal[k + 1].from \in Nat
              /\ f.nal[k + 1].from = f.nal[k].to + 4 \/ f.nal[k + 1].from = f.nal[k].to + 5
              /\ f.nal[k + 1].from <= Len(f.bytes)
              /\ f.bytes[f.nal[k + 1].from - 1] = 1
              /\ \A i \in f.nal[k].to + 1 .. f.nal[k + 1].from - 2 : f.bytes[i] = 0
<1>1. /\ Len(f.nal) \in Nat /\ DOMAIN f.nal = 1 .. Len(f.nal) /\ Len(f.bytes) \in Nat
      /\ \A n \in DOMAIN f.nal : f.nal[n].from \in Nat /\ f.nal[n].to \in Nat
  <2>1. Len(f.nal) \in Nat /\ DOMAIN f.nal = 1 .. Len(f.nal) /\ Len(f.bytes) \in Nat
    BY DEF FileTyped
  <2>2. ASSUME NEW n \in DOMAIN f.nal PROVE f.nal[n].from \in Nat /\ f.nal[n].to \in Nat
    <3>1. f.nal[n] \in [from : Nat, to : Nat]
      BY <2>1, ElementOfSeq DEF FileTyped
    <3> QED
      BY <3>1
  <2> QED
    BY <2>1, <2>2
<1>2. /\ f.nal[k].from - EndOf(f, k - 1) \in {4, 5} /\ f.nal[k].from <= f.nal[k].to
      /\ f.nal[k].to <= Len(f.bytes) /\ f.bytes[f.nal[k].to] # 0
      /\ EndOf(f, Len(f.nal)) = Len(f.bytes)
  BY DEF WellFormedFile
<1>3. EndOf(f, k - 1) \in Nat /\ (k = 1 => EndOf(f, k - 1) = 0)
  BY <1>1 DEF EndOf
<1>4. k = Len(f.nal) => EndOf(f, k) = f.nal[k].to
  BY <1>1 DEF EndOf
<1>5. ASSUME k < Len(f.nal)
      PROVE  /\ k + 1 \in DOMAIN f.nal /\ f.nal[k + 1].from \in Nat
             /\ f.nal[k + 1].from = f.nal[k].to + 4 \/ f.nal[k + 1].from = f.nal[k].to + 5
             /\ f.nal[k + 1].from <= Len(f.bytes)
             /\ f.bytes[f.nal[k + 1].from - 1] = 1
             /\ \A i \in f.nal[k].to + 1 .. f.nal[k + 1].from - 2 : f.bytes[i] = 0
  <2>1. k + 1 \in DOMAIN f.nal /\ EndOf(f, (k + 1) - 1) = f.nal[k].to
    BY <1>1, <1>5 DEF EndOf
  <2>2. /\ f.nal[k + 1].from - EndOf(f, (k + 1) - 1) \in {4, 5}
        /\ f.nal[k + 1].from <= f.nal[k + 1].to /\ f.nal[k + 1].to <= Len(f.bytes)
        /\ f.bytes[f.nal[k + 1].from - 1] = 1
        /\ \A i \in EndOf(f, (k + 1) - 1) + 1 .. f.nal[k + 1].from - 2 : f.bytes[i] = 0
    BY <2>1 DEF WellFormedFile
  <2>3. f.nal[k + 1].from \in Nat /\ f.nal[k + 1].to \in Nat
    BY <1>1, <2>1
  <2>4. f.nal[k + 1].from <= Len(f.bytes)
    BY <1>1, <2>2, <2>3
  <2>5. f.nal[k].to \in Nat
    BY <1>1
  <2>6. f.nal[k + 1].from = f.nal[k].to + 4 \/ f.nal[k + 1].from = f.nal[k].to + 5
    BY <2>1, <2>2, <2>3, <2>5
  <2> QED
    BY <2>1, <2>2, <2>3, <2>4, <2>6
<1> QED
  BY <1>1, <1>2, <1>3, <1>4, <1>5

\* A start code found in a file of NALs is that of the next NAL, and its zeros are
\* all that were counted.
LEMMA CodeFound ==
  ASSUME NEW f, FileTyped(f), WellFormedFile(f), NEW k \in DOMAIN f.nal, NEW at \in Nat,
         NEW zeros \in Nat, Around(f, k, at), Zeros(f, k, at, zeros),
         at < Len(f.bytes), f.bytes[at + 1] = 1, zeros >= 2
  PROVE  /\ k < Len(f.nal) /\ at + 1 = f.nal[k + 1].from - 1
         /\ zeros \in {2, 3} /\ zeros = at - f.nal[k].to
<1> DEFINE from == f.nal[k].from
           to == f.nal[k].to
           next == f.nal[k + 1].from
           length == Len(f.nal)
           size == Len(f.bytes)
<1>1. from \in Nat /\ to \in Nat /\ from <= to /\ f.bytes[to] # 0 /\ size \in Nat
  BY NalPlaces
<1>2. k < length => next \in Nat /\ (next = to + 4 \/ next = to + 5)
                    /\ \A i \in to + 1 .. next - 2 : f.bytes[i] = 0
  BY NalPlaces
<1>3. /\ at <= to \/ (k < length /\ at <= next - 2)
      /\ zeros <= at - from + 1 /\ (at > to => zeros = at - to)
      /\ \A i \in at - zeros + 1 .. at : f.bytes[i] = 0
  BY DEF Around, Zeros
<1>4. \A i \in from .. to - 2 : ~(f.bytes[i] = 0 /\ f.bytes[i + 1] = 0 /\ f.bytes[i + 2] = 1)
  BY DEF WellFormedFile
<1>g. SUFFICES k < length /\ at + 1 = next - 1 /\ zeros \in {2, 3} /\ zeros = at - to
  OBVIOUS
<1> HIDE DEF from, to, next, length, size
<1>5. f.bytes[at] = 0 /\ f.bytes[at - 1] = 0
  <2>1. at \in at - zeros + 1 .. at /\ at - 1 \in at - zeros + 1 .. at
    BY <1>1, <1>3
  <2> QED
    BY <1>3, <2>1
<1>6. ~(at + 1 <= to)
  <2> SUFFICES ASSUME at + 1 <= to PROVE FALSE
    OBVIOUS
  <2>1. at - 1 \in from .. to - 2 /\ (at - 1) + 1 = at /\ (at - 1) + 2 = at + 1
    BY <1>1, <1>3
  <2> QED
    BY <1>4, <1>5, <2>1
<1>7. at # to
  BY <1>1, <1>5
<1>8. k < length /\ at <= next - 2 /\ at > to /\ zeros = at - to
  BY <1>1, <1>3, <1>6, <1>7
<1>9. at + 1 \notin to + 1 .. next - 2
  BY <1>2, <1>8
<1>10. at + 1 = next - 1
  BY <1>1, <1>2, <1>8, <1>9
<1> QED
  BY <1>1, <1>2, <1>8, <1>10

\* Where none is found the scanner stays with its NAL, and counts right.
LEMMA CodeMissed ==
  ASSUME NEW f, FileTyped(f), WellFormedFile(f), NEW k \in DOMAIN f.nal, NEW at \in Nat,
         NEW zeros \in Nat, Around(f, k, at), Zeros(f, k, at, zeros),
         at < Len(f.bytes), ~(f.bytes[at + 1] = 1 /\ zeros >= 2)
  PROVE  /\ Around(f, k, at + 1)
         /\ Zeros(f, k, at + 1, IF f.bytes[at + 1] = 0 THEN zeros + 1 ELSE 0)
<1> DEFINE from == f.nal[k].from
           to == f.nal[k].to
           next == f.nal[k + 1].from
           length == Len(f.nal)
           size == Len(f.bytes)
           more == IF f.bytes[at + 1] = 0 THEN zeros + 1 ELSE 0
<1>1. /\ from \in Nat /\ to \in Nat /\ from <= to /\ f.bytes[to] # 0 /\ size \in Nat
      /\ k \in Nat /\ k <= length /\ length \in Nat /\ (k = length => to = size)
  BY NalPlaces
<1>2. k < length => /\ next \in Nat /\ (next = to + 4 \/ next = to + 5)
                    /\ f.bytes[next - 1] = 1
                    /\ \A i \in to + 1 .. next - 2 : f.bytes[i] = 0
  BY NalPlaces
<1>3. /\ at <= to \/ (k < length /\ at <= next - 2)
      /\ from - 1 <= at /\ zeros <= at - from + 1 /\ (at > to => zeros = at - to)
      /\ \A i \in at - zeros + 1 .. at : f.bytes[i] = 0
  BY DEF Around, Zeros
<1>m. more = (IF f.bytes[at + 1] = 0 THEN zeros + 1 ELSE 0)
  OBVIOUS
<1>s. at < size
  OBVIOUS
<1>g. SUFFICES /\ from - 1 <= at + 1 /\ (at + 1 <= to \/ (k < length /\ at + 1 <= next - 2))
               /\ more <= (at + 1) - from + 1 /\ (at + 1 > to => more = (at + 1) - to)
               /\ \A i \in (at + 1) - more + 1 .. at + 1 : f.bytes[i] = 0
  BY DEF Around, Zeros
<1> HIDE DEF from, to, next, length, size, more
<1>4. at = to => zeros = 0
  <2>1. at = to /\ zeros > 0 => at \in at - zeros + 1 .. at
    OBVIOUS
  <2> QED
    BY <1>1, <1>3, <2>1
<1>5. ASSUME at >= to
      PROVE  k < length /\ at + 1 <= next - 2 /\ f.bytes[at + 1] = 0 /\ zeros = at - to
  <2>1. k < length
    BY <1>1, <1>3, <1>5, <1>s
  <2>2. zeros = at - to /\ at <= next - 2
    BY <1>1, <1>2, <1>3, <1>4, <1>5, <2>1
  <2>3. at # next - 2
    <3> SUFFICES ASSUME at = next - 2 PROVE FALSE
      OBVIOUS
    <3>1. at + 1 = next - 1 /\ zeros >= 2
      BY <1>1, <1>2, <2>1, <2>2
    <3> QED
      BY <1>2, <2>1, <3>1
  <2>4. at + 1 \in to + 1 .. next - 2
    BY <1>1, <1>2, <1>5, <2>1, <2>2, <2>3
  <2> QED
    BY <1>2, <2>1, <2>2, <2>4
<1>6. from - 1 <= at + 1 /\ (at + 1 <= to \/ (k < length /\ at + 1 <= next - 2))
  BY <1>1, <1>3, <1>5
<1>7. \A i \in (at + 1) - more + 1 .. at + 1 : f.bytes[i] = 0
  <2>1. CASE f.bytes[at + 1] = 0
    <3>1. \A i \in (at + 1) - more + 1 .. at + 1 : i = at + 1 \/ i \in at - zeros + 1 .. at
      BY <2>1, <1>m
    <3> QED
      BY <1>3, <2>1, <3>1
  <2>2. CASE f.bytes[at + 1] # 0
    BY <2>2, <1>m
  <2> QED
    BY <2>1, <2>2
<1>8. more <= (at + 1) - from + 1
  BY <1>1, <1>3, <1>m
<1>9. at + 1 > to => more = (at + 1) - to
  BY <1>1, <1>5, <1>m
<1> QED
  BY <1>6, <1>7, <1>8, <1>9

\* No NALs are none of the file's; and one more, behind the others.
LEMMA ListsNone == ASSUME NEW f PROVE Lists(f, <<>>, {})
<1> DEFINE g == [i \in DOMAIN <<>> |-> i]
<1>1. DOMAIN <<>> = {}
  OBVIOUS
<1>2. g \in [DOMAIN <<>> -> {}]
  BY <1>1
<1> QED
  BY <1>1, <1>2 DEF Lists

LEMMA ListsMore ==
  ASSUME NEW f, NEW list \in Seq(Seq(Byte)), NEW some, NEW k \in Nat, NEW nal \in Seq(Byte),
         Lists(f, list, some), \A n \in some : n \in Nat /\ n < k, nal = NalAt(f, k)
  PROVE  Lists(f, Append(list, nal), some \cup {k})
<1> DEFINE more == Append(list, nal)
<1>1. PICK g \in [DOMAIN list -> some] :
        /\ \A i, j \in DOMAIN list : i < j => g[i] < g[j]
        /\ \A n \in some : \E i \in DOMAIN list : g[i] = n
        /\ \A i \in DOMAIN list : list[i] = NalAt(f, g[i])
  BY DEF Lists
<1> DEFINE last == Len(list) + 1
           h == [i \in 1 .. last |-> IF i = last THEN k ELSE g[i]]
<1>2. /\ Len(list) \in Nat /\ DOMAIN list = 1 .. Len(list) /\ DOMAIN more = 1 .. last
      /\ last \in 1 .. last /\ more[last] = nal
      /\ \A i \in 1 .. last : i # last => i \in DOMAIN list /\ more[i] = list[i]
      /\ \A i \in DOMAIN list : i \in 1 .. last /\ i # last
  OBVIOUS
<1>3. /\ h[last] = k /\ h \in [1 .. last -> some \cup {k}]
      /\ \A i \in DOMAIN list : h[i] = g[i] /\ g[i] \in some
  BY <1>2
<1>4. \A i \in 1 .. last : i \in DOMAIN list \/ i = last
  BY <1>2
<1> HIDE DEF h, more
<1>5. ASSUME NEW i \in 1 .. last, NEW j \in 1 .. last, i < j PROVE h[i] < h[j]
  <2>1. i \in DOMAIN list
    BY <1>2, <1>5
  <2>2. CASE j = last
    BY <1>3, <2>1, <2>2
  <2>3. CASE j \in DOMAIN list
    BY <1>1, <1>3, <1>5, <2>1, <2>3
  <2> QED
    BY <1>4, <2>2, <2>3
<1>6. ASSUME NEW n \in some \cup {k} PROVE \E i \in 1 .. last : h[i] = n
  <2>1. CASE n = k
    BY <1>2, <1>3, <2>1
  <2>2. CASE n \in some
    <3>1. PICK i \in DOMAIN list : g[i] = n
      BY <1>1, <2>2
    <3> QED
      BY <1>2, <1>3, <3>1
  <2> QED
    BY <1>6, <2>1, <2>2
<1>7. ASSUME NEW i \in 1 .. last PROVE more[i] = NalAt(f, h[i])
  <2>1. CASE i = last
    BY <1>2, <1>3, <2>1
  <2>2. CASE i # last
    BY <1>1, <1>2, <1>3, <2>2
  <2> QED
    BY <2>1, <2>2
<1>8. Lists(f, more, some \cup {k})
  <2>1. /\ \A i, j \in 1 .. last : i < j => h[i] < h[j]
        /\ \A n \in some \cup {k} : \E i \in 1 .. last : h[i] = n
        /\ \A i \in 1 .. last : more[i] = NalAt(f, h[i])
    BY <1>5, <1>6, <1>7
  <2>2. DOMAIN more = 1 .. last
    BY <1>2
  <2>3. h \in [1 .. last -> some \cup {k}]
    BY <1>3
  <2> HIDE DEF last
  <2> QED
    BY <2>1, <2>2, <2>3 DEF Lists
<1> QED
  BY <1>8 DEF more

\* One more byte of a part of a file, a part of a part, and the part that is none.
LEMMA PartGrows ==
  ASSUME NEW b \in Seq(Byte), NEW from \in Nat, NEW at \in Nat,
         1 <= from, from - 1 <= at, at < Len(b)
  PROVE  Append(SubSeq(b, from, at), b[at + 1]) = SubSeq(b, from, at + 1)
<1> DEFINE part == SubSeq(b, from, at)
           grown == SubSeq(b, from, at + 1)
           left == Append(part, b[at + 1])
<1>1. /\ part \in Seq(Byte) /\ Len(part) = at - from + 1
      /\ \A i \in 1 .. at - from + 1 : part[i] = b[from + i - 1]
  OBVIOUS
<1>2. /\ grown \in Seq(Byte) /\ Len(grown) = at - from + 2
      /\ \A i \in 1 .. at - from + 2 : grown[i] = b[from + i - 1]
  OBVIOUS
<1>3. b[at + 1] \in Byte
  OBVIOUS
<1>4. /\ left \in Seq(Byte) /\ Len(left) = at - from + 2
      /\ \A i \in 1 .. at - from + 2 : left[i] = IF i = at - from + 2 THEN b[at + 1] ELSE part[i]
  BY <1>1, <1>3
<1> HIDE DEF part, grown, left
<1>5. \A i \in 1 .. at - from + 2 : left[i] = grown[i]
  BY <1>1, <1>2, <1>4
<1>6. left = grown
  BY <1>2, <1>4, <1>5, SeqEqual
<1> QED
  BY <1>6 DEF left, grown, part

LEMMA PartOfPart ==
  ASSUME NEW b \in Seq(Byte), NEW from \in Nat, NEW to \in Nat, NEW at \in Nat,
         1 <= from, from <= to, to <= at, at <= Len(b)
  PROVE  /\ Len(SubSeq(b, from, at)) = at - from + 1
         /\ SubSeq(SubSeq(b, from, at), 1, to - from + 1) = SubSeq(b, from, to)
         /\ SubSeq(b, from, to) \in Seq(Byte) /\ SubSeq(b, from, to) # <<>>
<1> DEFINE part == SubSeq(b, from, at)
           less == SubSeq(part, 1, to - from + 1)
           short == SubSeq(b, from, to)
<1>1. /\ part \in Seq(Byte) /\ Len(part) = at - from + 1
      /\ \A i \in 1 .. at - from + 1 : part[i] = b[from + i - 1]
  OBVIOUS
<1>2. /\ short \in Seq(Byte) /\ Len(short) = to - from + 1
      /\ \A i \in 1 .. to - from + 1 : short[i] = b[from + i - 1]
  OBVIOUS
<1> HIDE DEF part, short
<1>3. /\ less \in Seq(Byte) /\ Len(less) = to - from + 1
      /\ \A i \in 1 .. to - from + 1 : less[i] = part[i]
  BY <1>1
<1> HIDE DEF less
<1>4. \A i \in 1 .. to - from + 1 : less[i] = short[i]
  BY <1>1, <1>2, <1>3
<1>5. less = short
  BY <1>2, <1>3, <1>4, SeqEqual
<1>6. short # <<>>
  BY <1>2
<1> QED
  BY <1>1, <1>2, <1>5, <1>6 DEF part, less, short

LEMMA PartOfNone ==
  ASSUME NEW b \in Seq(Byte), NEW from \in Nat, 1 <= from, from - 1 <= Len(b)
  PROVE  SubSeq(b, from, from - 1) = <<>>
OBVIOUS

\* The type invariant of the reader, for any files.
THEOREM ReaderTypeCorrect == H265Spec => []H265TypeOK
<1>1. ASSUME H265Init PROVE H265TypeOK
  <2>1. file.bytes \in Seq(Byte) /\ file.nal \in Seq([from : Nat, to : Nat])
    BY <1>1, FileAssumption DEF H265Init, Byte
  <2>2. 0 \in 0 .. Len(file.bytes) /\ <<>> \in Seq(Byte) /\ <<>> \in Seq(Seq(Byte))
    BY <2>1
  <2> QED
    BY <1>1, <2>1, <2>2 DEF H265Init, H265TypeOK
<1>2. ASSUME H265TypeOK, [H265Next]_h265Vars PROVE H265TypeOK'
  <2> USE <1>2 DEF H265TypeOK
  <2>0. Len(file.bytes) \in Nat /\ \A i \in 1 .. Len(file.bytes) : file.bytes[i] \in Byte
    OBVIOUS
  <2>1. CASE ParsePrefix
    <3>1. 4 \in 1 .. Len(file.bytes) /\ taken + 4 \in 1 .. Len(file.bytes)
      BY <2>0, <2>1 DEF ParsePrefix, Left
    <3>2. nalBuffer' \in Seq(Byte)
      <4>1. file.bytes[taken + 4] \in Byte
        BY <2>0, <3>1
      <4>2. <<file.bytes[taken + 4]>> \in Seq(Byte) /\ nalBuffer \in Seq(Byte)
        BY <4>1
      <4>3. nalBuffer' = <<file.bytes[taken + 4]>> \/ nalBuffer' = nalBuffer
        BY <2>1 DEF ParsePrefix
      <4> QED
        BY <4>2, <4>3
    <3> QED
      BY <2>1, <3>1, <3>2 DEF ParsePrefix
  <2>2. CASE NoPrefix
    BY <2>2 DEF NoPrefix, Stops
  <2>3. CASE ReadByte
    <3>1. taken + 1 \in 1 .. Len(file.bytes)
      BY <2>0, <2>3 DEF ReadByte, Reading, Left
    <3>2. readByte \in Byte
      BY <2>0, <3>1 DEF readByte
    <3> QED
      BY <2>3, <3>1, <3>2 DEF ReadByte
  <2>4. CASE FindNal
    <3>1. taken + 1 \in 1 .. Len(file.bytes)
      BY <2>0, <2>4 DEF FindNal, Reading, Left
    <3>2. WithoutCode \in Seq(Byte)
      BY DEF WithoutCode
    <3> QED
      BY <2>4, <3>1, <3>2 DEF FindNal
  <2>5. CASE EmptyNal
    BY <2>5 DEF EmptyNal, Stops
  <2>6. CASE LastNal
    BY <2>6 DEF LastNal
  <2>7. CASE EndOfFile
    BY <2>7 DEF EndOfFile, Stops
  <2>8. CASE UNCHANGED h265Vars
    BY <2>8 DEF h265Vars
  <2> QED
    BY <2>1, <2>2, <2>3, <2>4, <2>5, <2>6, <2>7, <2>8 DEF H265Next
<1> QED
  BY <1>1, <1>2, PTL DEF H265Spec

\* How a file of NALs begins.
LEMMA HeadOfFile ==
  ASSUME NEW f, FileTyped(f), WellFormedFile(f)
  PROVE  /\ f.nal = <<>> => Len(f.bytes) = 0
         /\ f.nal # <<>> =>
              /\ 1 \in DOMAIN f.nal /\ f.nal[1].from \in {4, 5} /\ f.nal[1].to \in Nat
              /\ f.nal[1].from <= f.nal[1].to /\ f.nal[1].to <= Len(f.bytes)
              /\ f.bytes[f.nal[1].from - 1] = 1
              /\ \A i \in 1 .. f.nal[1].from - 2 : f.bytes[i] = 0
<1>1. f.nal = <<>> => Len(f.bytes) = 0
  BY DEF WellFormedFile, EndOf
<1>2. ASSUME f.nal # <<>>
      PROVE  /\ 1 \in DOMAIN f.nal /\ f.nal[1].from \in {4, 5} /\ f.nal[1].to \in Nat
             /\ f.nal[1].from <= f.nal[1].to /\ f.nal[1].to <= Len(f.bytes)
             /\ f.bytes[f.nal[1].from - 1] = 1
             /\ \A i \in 1 .. f.nal[1].from - 2 : f.bytes[i] = 0
  <2>1. 1 \in DOMAIN f.nal
    BY <1>2 DEF FileTyped
  <2>2. EndOf(f, 1 - 1) = 0
    BY DEF EndOf
  <2>3. /\ f.bytes[f.nal[1].from - 1] = 1
        /\ \A i \in EndOf(f, 1 - 1) + 1 .. f.nal[1].from - 2 : f.bytes[i] = 0
    BY <2>1 DEF WellFormedFile
  <2>4. /\ f.nal[1].from \in {4, 5} /\ f.nal[1].to \in Nat
        /\ f.nal[1].from <= f.nal[1].to /\ f.nal[1].to <= Len(f.bytes)
    BY <2>1, NalPlaces
  <2> QED
    BY <2>1, <2>2, <2>3, <2>4
<1> QED
  BY <1>1, <1>2

\* The scanner in a file of NALs, step by step.
LEMMA HeadRead ==
  ASSUME H265TypeOK, WellFormedFile(file), Unread, ParsePrefix, WellFormedFile(file)'
  PROVE  ScanInv'
<1> DEFINE b == file.bytes
           from == file.nal[1].from
           to == file.nal[1].to
<1>1. FileTyped(file) /\ b \in Seq(Byte) /\ file' = file
  BY DEF H265TypeOK, FileTyped, ParsePrefix
<1>2. taken = 0 /\ nals = <<>> /\ countOfConsecutiveZeroBytes = 0 /\ nalBuffer = <<>>
  BY DEF Unread
<1>3. /\ taken' = 4 /\ nals' = <<>> /\ countOfConsecutiveZeroBytes' = 0
      /\ nalPrefixParsed' /\ scanner' = "scan" /\ Len(b) >= 4
  BY <1>2 DEF ParsePrefix, Left
<1>4. file.nal # <<>>
  BY <1>1, <1>3, HeadOfFile
<1>5. /\ 1 \in DOMAIN file.nal /\ from \in {4, 5} /\ to \in Nat /\ from <= to /\ to <= Len(b)
      /\ b[from - 1] = 1 /\ \A i \in 1 .. from - 2 : b[i] = 0
  BY <1>1, <1>4, HeadOfFile
<1>6. nalBuffer' = SubSeq(b, from, 4)
  <2>1. CASE from = 4
    <3>1. b[3] = 1
      BY <1>5, <2>1
    <3>2. ~StartCode(4)
      <4>1. StartCode(4) => b[taken + 3] = 0
        BY DEF StartCode
      <4> QED
        BY <1>2, <3>1, <4>1
    <3>3. nalBuffer' = <<b[4]>>
      BY <1>2, <3>2 DEF ParsePrefix
    <3>4. SubSeq(b, 4, 4) = <<b[4]>>
      <4>1. SubSeq(b, 4, 4) \in Seq(Byte) /\ Len(SubSeq(b, 4, 4)) = 1 /\ SubSeq(b, 4, 4)[1] = b[4]
        BY <1>1, <1>3
      <4>2. <<b[4]>> \in Seq(Byte) /\ Len(<<b[4]>>) = 1 /\ <<b[4]>>[1] = b[4]
        BY <1>1, <1>3
      <4> DEFINE one == SubSeq(b, 4, 4)
                 other == <<b[4]>>
      <4>3. Len(one) = Len(other) /\ \A i \in 1 .. Len(one) : one[i] = other[i]
        <5>1. \A i \in 1 .. 1 : i = 1
          OBVIOUS
        <5> QED
          BY <4>1, <4>2, <5>1
      <4>4. one \in Seq(Byte) /\ other \in Seq(Byte)
        BY <4>1, <4>2
      <4> HIDE DEF one, other
      <4>5. one = other
        BY <4>3, <4>4, SeqEqual
      <4> QED
        BY <4>5 DEF one, other
    <3> QED
      BY <2>1, <3>3, <3>4
  <2>2. CASE from = 5
    <3>1. b[3] = 0
      BY <1>5, <2>2
    <3>2. ~StartCode(3)
      <4>1. StartCode(3) => b[taken + 3] = 1
        BY DEF StartCode
      <4> QED
        BY <1>2, <3>1, <4>1
    <3>3. nalBuffer' = <<>>
      BY <1>2, <3>2 DEF ParsePrefix
    <3>4. SubSeq(b, 5, 4) = <<>>
      BY <1>1, <1>3
    <3> QED
      BY <2>2, <3>3, <3>4
  <2> QED
    BY <1>5, <2>1, <2>2
<1>7. Around(file, 1, 4)
  BY <1>5 DEF Around
<1>8. Zeros(file, 1, 4, 0)
  BY <1>5 DEF Zeros
<1>9. Lists(file, <<>>, Kept(file, 1 - 1))
  <2>1. Kept(file, 1 - 1) = {}
    BY <1>1 DEF Kept, FileTyped
  <2> QED
    BY <2>1, ListsNone
<1>10. Within(1)'
  BY <1>1, <1>3, <1>6, <1>7, <1>8, <1>9 DEF Within
<1> QED
  BY <1>1, <1>3, <1>5, <1>10 DEF ScanInv

LEMMA HeadMissing ==
  ASSUME H265TypeOK, WellFormedFile(file), Unread, NoPrefix
  PROVE  ScanInv'
<1> DEFINE b == file.bytes
           from == file.nal[1].from
           to == file.nal[1].to
<1>1. FileTyped(file) /\ b \in Seq(Byte) /\ file' = file /\ taken = 0 /\ Len(b) \in Nat
  BY DEF H265TypeOK, FileTyped, NoPrefix, Stops, Unread
<1>2. file.nal = <<>>
  <2> SUFFICES ASSUME file.nal # <<>> PROVE FALSE
    OBVIOUS
  <2>1. /\ 1 \in DOMAIN file.nal /\ from \in {4, 5} /\ to \in Nat /\ from <= to /\ to <= Len(b)
        /\ b[from - 1] = 1 /\ \A i \in 1 .. from - 2 : b[i] = 0
    BY <1>1, HeadOfFile
  <2>2. Left >= 4
    BY <1>1, <2>1 DEF Left
  <2>3. ~StartCode(3) /\ ~StartCode(4)
    BY <2>2 DEF NoPrefix
  <2>4. CASE from = 4
    <3>1. \A i \in 1 .. 3 : b[taken + i] = IF i = 3 THEN 1 ELSE 0
      BY <1>1, <2>1, <2>4
    <3> QED
      BY <2>3, <3>1 DEF StartCode
  <2>5. CASE from = 5
    <3>1. \A i \in 1 .. 4 : b[taken + i] = IF i = 4 THEN 1 ELSE 0
      BY <1>1, <2>1, <2>5
    <3> QED
      BY <2>3, <3>1 DEF StartCode
  <2> QED
    BY <2>1, <2>4, <2>5
<1>3. Left = 0
  BY <1>1, <1>2, HeadOfFile DEF Left
<1>4. scanner' = "eof" /\ UNCHANGED <<taken, nalBuffer, countOfConsecutiveZeroBytes, nalPrefixParsed, nals>>
  BY <1>3 DEF NoPrefix, Stops
<1>5. Unread'
  BY <1>4 DEF Unread
<1> QED
  BY <1>1, <1>2, <1>4, <1>5 DEF ScanInv

LEMMA ByteRead ==
  ASSUME H265TypeOK, WellFormedFile(file), NEW k \in DOMAIN file.nal, Within(k), ReadByte
  PROVE  Within(k)'
<1> DEFINE b == file.bytes
           at == taken
           zeros == countOfConsecutiveZeroBytes
           from == file.nal[k].from
<1>1. /\ FileTyped(file) /\ b \in Seq(Byte) /\ file' = file /\ nals' = nals
      /\ at \in Nat /\ zeros \in Nat /\ Len(b) \in Nat
  BY DEF H265TypeOK, FileTyped, ReadByte
<1>2. Around(file, k, at) /\ Zeros(file, k, at, zeros)
  BY DEF Within
<1>3. /\ taken' = at + 1 /\ nalBuffer' = Append(nalBuffer, b[at + 1])
      /\ zeros' = IF b[at + 1] = 0 THEN zeros + 1 ELSE 0
      /\ at < Len(b) /\ ~(b[at + 1] = 1 /\ zeros >= 2)
  BY <1>1 DEF ReadByte, Reading, EndsNal, readByte, Left
<1>4. Around(file, k, at + 1) /\ Zeros(file, k, at + 1, zeros')
  BY <1>1, <1>2, <1>3, CodeMissed
<1>5. nalBuffer' = SubSeq(b, from, at + 1)
  <2>1. from \in Nat /\ 1 <= from /\ from - 1 <= at
    BY <1>1, <1>2, NalPlaces DEF Around
  <2>2. nalBuffer = SubSeq(b, from, at)
    BY DEF Within
  <2> QED
    BY <1>1, <1>3, <2>1, <2>2, PartGrows
<1>6. Lists(file, nals, Kept(file, k - 1))
  BY DEF Within
<1> QED
  BY <1>1, <1>3, <1>4, <1>5, <1>6 DEF Within

LEMMA CodeRead ==
  ASSUME H265TypeOK, WellFormedFile(file), NEW k \in DOMAIN file.nal, Within(k),
         Reading, EndsNal
  PROVE  /\ k + 1 \in DOMAIN file.nal /\ taken + 1 = file.nal[k + 1].from - 1
         /\ WithoutCode = NalAt(file, k)
         /\ NalAt(file, k) \in Seq(Byte) /\ NalAt(file, k) # <<>>
<1> DEFINE b == file.bytes
           at == taken
           zeros == countOfConsecutiveZeroBytes
           from == file.nal[k].from
           to == file.nal[k].to
<1>1. FileTyped(file) /\ b \in Seq(Byte) /\ at \in Nat /\ zeros \in Nat /\ Len(b) \in Nat
  BY DEF H265TypeOK, FileTyped
<1>2. Around(file, k, at) /\ Zeros(file, k, at, zeros) /\ nalBuffer = SubSeq(b, from, at)
  BY DEF Within
<1>3. at < Len(b) /\ b[at + 1] = 1 /\ zeros >= 2
  BY <1>1 DEF Reading, EndsNal, readByte, Left
<1>4. /\ k < Len(file.nal) /\ at + 1 = file.nal[k + 1].from - 1
      /\ zeros \in {2, 3} /\ zeros = at - to
  BY <1>1, <1>2, <1>3, CodeFound
<1>5. from \in Nat /\ to \in Nat /\ 1 <= from /\ from <= to /\ k + 1 \in DOMAIN file.nal
  BY <1>1, <1>4, NalPlaces
<1>6. to <= at /\ at <= Len(b)
  BY <1>1, <1>3, <1>4, <1>5
<1>7. /\ Len(SubSeq(b, from, at)) = at - from + 1
      /\ SubSeq(SubSeq(b, from, at), 1, to - from + 1) = SubSeq(b, from, to)
      /\ SubSeq(b, from, to) \in Seq(Byte) /\ SubSeq(b, from, to) # <<>>
  BY <1>1, <1>5, <1>6, PartOfPart
<1>8. WithoutCode = SubSeq(nalBuffer, 1, Len(nalBuffer) - zeros)
  BY <1>4 DEF WithoutCode
<1>9. Len(nalBuffer) - zeros = to - from + 1
  <2>1. Len(nalBuffer) = at - from + 1
    BY <1>2, <1>7
  <2> HIDE DEF from, to
  <2> QED
    BY <1>1, <1>4, <1>5, <2>1
<1> QED
  BY <1>2, <1>4, <1>5, <1>7, <1>8, <1>9 DEF NalAt

LEMMA KeptMore ==
  ASSUME NEW f, FileTyped(f), NEW k \in DOMAIN f.nal
  PROVE  /\ \A n \in Kept(f, k - 1) : n \in Nat /\ n < k
         /\ IsSei(NalAt(f, k)) => Kept(f, k) = Kept(f, k - 1)
         /\ ~IsSei(NalAt(f, k)) => Kept(f, k) = Kept(f, k - 1) \cup {k}
<1>1. k \in Nat /\ \A n \in DOMAIN f.nal : n \in Nat /\ (n <= k <=> (n <= k - 1 \/ n = k))
  BY DEF FileTyped
<1>2. \A n \in Kept(f, k - 1) : n \in Nat /\ n < k
  BY <1>1 DEF Kept
<1> QED
  BY <1>1, <1>2 DEF Kept

LEMMA NalFound ==
  ASSUME H265TypeOK, WellFormedFile(file), NEW k \in DOMAIN file.nal, Within(k), FindNal
  PROVE  k + 1 \in DOMAIN file.nal /\ Within(k + 1)'
<1> DEFINE b == file.bytes
           next == file.nal[k + 1].from
<1>1. /\ FileTyped(file) /\ b \in Seq(Byte) /\ file' = file /\ k \in Nat
      /\ nals \in Seq(Seq(Byte)) /\ taken \in Nat
  BY DEF H265TypeOK, FileTyped, FindNal
<1>2. /\ k + 1 \in DOMAIN file.nal /\ taken + 1 = next - 1 /\ WithoutCode = NalAt(file, k)
      /\ NalAt(file, k) \in Seq(Byte)
  BY CodeRead DEF FindNal
<1>3. /\ next \in Nat /\ file.nal[k + 1].to \in Nat /\ 4 <= next
      /\ next <= file.nal[k + 1].to /\ file.nal[k + 1].to <= Len(b) /\ Len(b) \in Nat
  BY <1>1, <1>2, NalPlaces
<1>4. taken' = next - 1 /\ nalBuffer' = <<>> /\ countOfConsecutiveZeroBytes' = 0
  BY <1>2 DEF FindNal
<1>5. Around(file, k + 1, next - 1)
  BY <1>3 DEF Around
<1>6. Zeros(file, k + 1, next - 1, 0)
  BY <1>3 DEF Zeros
<1>7. SubSeq(b, next, next - 1) = <<>>
  BY <1>1, <1>3, PartOfNone
<1>8. Lists(file, nals', Kept(file, k))
  <2>1. Lists(file, nals, Kept(file, k - 1))
    BY DEF Within
  <2>2. CASE IsSei(WithoutCode)
    BY <1>1, <1>2, <2>1, <2>2, KeptMore DEF FindNal
  <2>3. CASE ~IsSei(WithoutCode)
    <3>1. nals' = Append(nals, NalAt(file, k))
      BY <1>2, <2>3 DEF FindNal
    <3>2. \A n \in Kept(file, k - 1) : n \in Nat /\ n < k
      BY <1>1, KeptMore
    <3>3. Lists(file, Append(nals, NalAt(file, k)), Kept(file, k - 1) \cup {k})
      BY <1>1, <1>2, <2>1, <3>2, ListsMore
    <3> QED
      BY <1>1, <1>2, <2>3, <3>1, <3>3, KeptMore
  <2> QED
    BY <2>2, <2>3
<1>9. (k + 1) - 1 = k
  BY <1>1
<1>10. Within(k + 1)'
  BY <1>1, <1>4, <1>5, <1>6, <1>7, <1>8, <1>9 DEF Within
<1> QED
  BY <1>2, <1>10

\* At the end of the file the scanner is at that of its last NAL.
LEMMA AtLast ==
  ASSUME H265TypeOK, WellFormedFile(file), NEW k \in DOMAIN file.nal, Within(k), Left = 0
  PROVE  /\ k = Len(file.nal) /\ taken = Len(file.bytes) /\ nalBuffer = NalAt(file, k)
         /\ nalBuffer \in Seq(Byte) /\ nalBuffer # <<>>
<1> DEFINE b == file.bytes
           from == file.nal[k].from
           to == file.nal[k].to
<1>1. FileTyped(file) /\ b \in Seq(Byte) /\ taken \in Nat /\ Len(b) \in Nat /\ taken = Len(b)
  BY DEF H265TypeOK, FileTyped, Left
<1>2. /\ from \in Nat /\ to \in Nat /\ 1 <= from /\ from <= to /\ to <= Len(b)
      /\ k \in Nat /\ Len(file.nal) \in Nat /\ k <= Len(file.nal)
      /\ k = Len(file.nal) => to = Len(b)
  BY <1>1, NalPlaces
<1>0. k < Len(file.nal) =>
        /\ file.nal[k + 1].from \in Nat /\ file.nal[k + 1].from <= Len(b)
        /\ file.nal[k + 1].from = to + 4 \/ file.nal[k + 1].from = to + 5
  BY <1>1, NalPlaces
<1>3. taken <= to \/ (k < Len(file.nal) /\ taken <= file.nal[k + 1].from - 2)
  BY DEF Within, Around
<1>4. k = Len(file.nal) /\ taken = to
  <2> HIDE DEF b, from, to
  <2>1. ~(k < Len(file.nal) /\ taken <= file.nal[k + 1].from - 2)
    BY <1>1, <1>0
  <2>2. taken = to
    BY <1>1, <1>2, <1>3, <2>1
  <2>3. ~(k < Len(file.nal))
    BY <1>1, <1>2, <1>0, <2>2
  <2> QED
    BY <1>2, <2>2, <2>3
<1>5. nalBuffer = SubSeq(b, from, to)
  BY <1>4 DEF Within
<1>6. SubSeq(b, from, to) \in Seq(Byte) /\ SubSeq(b, from, to) # <<>>
  <2>1. to <= to
    BY <1>2
  <2> HIDE DEF from, to, b
  <2> QED
    BY <1>1, <1>2, <2>1, PartOfPart
<1> QED
  BY <1>1, <1>4, <1>5, <1>6 DEF NalAt

LEMMA LastRead ==
  ASSUME H265TypeOK, WellFormedFile(file), NEW k \in DOMAIN file.nal, Within(k), LastNal
  PROVE  Finished'
<1>1. /\ FileTyped(file) /\ file' = file /\ taken' = taken /\ nalBuffer' = <<>>
      /\ nals' = Append(nals, nalBuffer) /\ nals \in Seq(Seq(Byte)) /\ k \in Nat
  BY DEF H265TypeOK, FileTyped, LastNal
<1>2. /\ k = Len(file.nal) /\ taken = Len(file.bytes) /\ nalBuffer = NalAt(file, k)
      /\ nalBuffer \in Seq(Byte)
  BY AtLast DEF LastNal
<1>3. Lists(file, nals, Kept(file, k - 1))
  BY DEF Within
<1>4. \A n \in Kept(file, k - 1) : n \in Nat /\ n < k
  BY <1>1, KeptMore
<1>5. Lists(file, Append(nals, nalBuffer), Kept(file, k - 1) \cup {k})
  BY <1>1, <1>2, <1>3, <1>4, ListsMore
<1>6. file.nal # <<>>
  BY <1>1 DEF FileTyped
<1> QED
  BY <1>1, <1>2, <1>5, <1>6 DEF Finished

LEMMA ScanStep ==
  ASSUME H265TypeOK, ScanInv, [H265Next]_h265Vars
  PROVE  ScanInv'
<1>1. file' = file
  BY DEF H265Next, ParsePrefix, NoPrefix, Stops, ReadByte, FindNal, EmptyNal, LastNal,
         EndOfFile, h265Vars
<1>2. SUFFICES ASSUME WellFormedFile(file)' PROVE ScanInv'
  BY DEF ScanInv
<1>3. WellFormedFile(file)
  BY <1>1, <1>2
<1>4. CASE UNCHANGED h265Vars
  BY <1>3, <1>4 DEF h265Vars, ScanInv, Unread, Within, Finished
<1>5. CASE H265Next /\ Unread
  <2>1. ~nalPrefixParsed
    BY <1>5 DEF Unread
  <2>2. ParsePrefix \/ NoPrefix
    BY <1>5, <2>1 DEF H265Next, ReadByte, FindNal, EmptyNal, Reading, LastNal, EndOfFile
  <2> QED
    BY <1>2, <1>3, <1>5, <2>2, HeadRead, HeadMissing
<1>6. ASSUME H265Next, nalPrefixParsed, scanner = "scan", NEW k \in DOMAIN file.nal, Within(k)
      PROVE  ScanInv'
  <2>1. CASE ReadByte
    <3>1. Within(k)' /\ nalPrefixParsed' = nalPrefixParsed /\ scanner' = scanner
      BY <1>3, <1>6, <2>1, ByteRead DEF ReadByte
    <3> QED
      BY <1>1, <1>6, <3>1 DEF ScanInv
  <2>2. CASE FindNal
    <3>1. nalPrefixParsed' = nalPrefixParsed /\ scanner' = scanner
      BY <2>2 DEF FindNal
    <3>2. k + 1 \in DOMAIN file.nal /\ Within(k + 1)'
      BY <1>3, <1>6, <2>2, NalFound
    <3> QED
      BY <1>1, <1>6, <3>1, <3>2 DEF ScanInv
  <2>3. ~EmptyNal
    <3> SUFFICES ASSUME EmptyNal PROVE FALSE
      OBVIOUS
    <3>1. WithoutCode = NalAt(file, k) /\ NalAt(file, k) # <<>>
      BY <1>3, <1>6, CodeRead DEF EmptyNal
    <3> QED
      BY <3>1 DEF EmptyNal
  <2>4. CASE LastNal
    <3>1. Finished' /\ nalPrefixParsed' = nalPrefixParsed /\ scanner' = scanner
      BY <1>3, <1>6, <2>4, LastRead DEF LastNal
    <3> QED
      BY <1>6, <3>1 DEF ScanInv
  <2>5. ~EndOfFile
    BY <1>3, <1>6, AtLast DEF EndOfFile
  <2>6. ~ParsePrefix /\ ~NoPrefix
    BY <1>6 DEF ParsePrefix, NoPrefix
  <2> QED
    BY <1>6, <2>1, <2>2, <2>3, <2>4, <2>5, <2>6 DEF H265Next
<1>7. CASE H265Next /\ nalPrefixParsed /\ Finished
  <2>1. Left = 0 /\ nalBuffer = <<>>
    BY <1>7 DEF Finished, Left, H265TypeOK
  <2>2. EndOfFile
    BY <1>7, <2>1 DEF H265Next, ParsePrefix, NoPrefix, ReadByte, FindNal, EmptyNal, Reading, LastNal
  <2>3. /\ UNCHANGED <<file, taken, nalBuffer, nals>>
        /\ nalPrefixParsed' = nalPrefixParsed /\ scanner' = "eof"
    BY <2>2 DEF EndOfFile, Stops
  <2>4. Finished'
    BY <1>7, <2>3 DEF Finished
  <2> QED
    BY <1>7, <2>3, <2>4 DEF ScanInv
<1> QED
  BY <1>3, <1>4, <1>5, <1>6, <1>7 DEF ScanInv

\* A file of NALs, of any bytes and any number of NALs, is read as its NALs, in their
\* order and to the last byte, but for the SEI that another NAL follows.
THEOREM ReadsEveryNal == H265Spec => []ReadsNals
<1>1. H265Init => ScanInv
  BY DEF H265Init, ScanInv, Unread
<1>2. ASSUME H265TypeOK, ScanInv PROVE ReadsNals
  <2> SUFFICES ASSUME WellFormedFile(file)
               PROVE  /\ scanner \in {"scan", "eof"}
                      /\ scanner = "eof" =>
                           Lists(file, nals, {k \in DOMAIN file.nal :
                                                k = Len(file.nal) \/ ~IsSei(NalAt(file, k))})
    BY DEF ReadsNals
  <2>1. scanner \in {"scan", "eof"}
    BY <1>2 DEF ScanInv
  <2>2. CASE Unread /\ file.nal = <<>>
    <3>1. {k \in DOMAIN file.nal : k = Len(file.nal) \/ ~IsSei(NalAt(file, k))} = {}
      BY <2>2
    <3>2. nals = <<>>
      BY <2>2 DEF Unread
    <3> QED
      BY <2>1, <3>1, <3>2, ListsNone
  <2>3. CASE Finished
    <3>1. {k \in DOMAIN file.nal : k = Len(file.nal) \/ ~IsSei(NalAt(file, k))}
            = Kept(file, Len(file.nal) - 1) \cup {Len(file.nal)}
      <4>1. /\ Len(file.nal) \in Nat /\ DOMAIN file.nal = 1 .. Len(file.nal)
            /\ Len(file.nal) \in DOMAIN file.nal
        BY <1>2, <2>3 DEF H265TypeOK, Finished
      <4>2. \A k \in DOMAIN file.nal : k = Len(file.nal) \/ k <= Len(file.nal) - 1
        BY <4>1
      <4> QED
        BY <4>1, <4>2 DEF Kept
    <3> QED
      BY <2>1, <2>3, <3>1 DEF Finished
  <2> QED
    BY <1>2, <2>1, <2>2, <2>3 DEF ScanInv
<1>3. H265Spec => []ScanInv
  BY <1>1, ReaderTypeCorrect, ScanStep, PTL DEF H265Spec
<1> QED
  BY <1>2, <1>3, ReaderTypeCorrect, PTL
=============================================================================
