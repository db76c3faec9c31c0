--------------------------------- MODULE PsMux ---------------------------------
(***************************************************************************)
(* The media of a GB28181 device (PSIngester.Ingest and PSPackStream).     *)
(* Video and audio are read from files, a video frame and the audio frames *)
(* up to its time make a pack, and packs are sent over TCP.  The loop runs *)
(* once per audio frame, so that the time of the audio paces everything:   *)
(* the video keeps up only if its clock agrees.  H.264 and H.265 differ in *)
(* their parameter sets only.                                              *)
(***************************************************************************)
EXTENDS Integers, Sequences

CONSTANTS
  clockRate,         \* of RTP, 90000
  fps,               \* of the video
  audioSampleRate,
  MaxFrames,         \* bound: frames in each file
  MaxParameterSets   \* bound: parameter sets before a frame

ASSUME RatesAssumption ==
  /\ clockRate \in Nat \ {0} /\ audioSampleRate \in Nat \ {0}
  /\ fps \in Nat \ {0} /\ fps <= 1024 * 1000
  /\ MaxFrames \in Nat /\ MaxParameterSets \in Nat

VARIABLES
  ctx,         \* of Ingest, canceled by Close or by the session
  main,        \* where Ingest is
  avcSamples,  \* 1024 for a video frame
  aacSamples,  \* 1024 for an audio frame
  frames,      \* the NALs that writeH264 has read
  pack,        \* the packets of the pack; <<>> for nil
  hasVideo,    \* of the pack
  sent         \* the packets of the last pack that was sent

vars == <<ctx, main, avcSamples, aacSamples, frames, pack, hasVideo, sent>>

videoSampleRate == (1024 * 1000) \div fps

\* A frame of either lasts a tick or more, as with the 90000 ticks of the code.
ASSUME TicksAssumption ==
  videoSampleRate <= clockRate * 1024 /\ audioSampleRate <= clockRate * 1024

videoDTS == (clockRate * avcSamples) \div videoSampleRate
audioDTS == (clockRate * aacSamples) \div audioSampleRate

Nal == {"parameter", "frame"}
PacketType == {"pack", "system", "map", "audio"} \cup Nal
Packet == [t : PacketType, dts : Nat]

TypeOK ==
  /\ ctx \in {"live", "done"}
  /\ main \in {"connect", "loop", "nals", "audio", "send", "returned"}
  /\ avcSamples \in Nat /\ aacSamples \in Nat
  /\ frames \in Seq(Nal) /\ pack \in Seq(Packet) /\ sent \in Seq(Packet)
  /\ hasVideo \in BOOLEAN

Init ==
  /\ ctx = "live" /\ main = "connect" /\ avcSamples = 0 /\ aacSamples = 0
  /\ frames = <<>> /\ pack = <<>> /\ hasVideo = FALSE /\ sent = <<>>

-----------------------------------------------------------------------------

Cancel ==
  /\ ctx = "live" /\ main # "returned" /\ ctx' = "done"
  /\ UNCHANGED <<main, avcSamples, aacSamples, frames, pack, hasVideo, sent>>

\* Connected, and the files opened.
Connect ==
  /\ main = "connect" /\ main' = "loop"
  /\ UNCHANGED <<ctx, avcSamples, aacSamples, frames, pack, hasVideo, sent>>

\* A file cannot be opened or has ended, or the server cannot be reached;
\* a pack that was not sent is lost.
Fails ==
  /\ main \in {"connect", "nals", "audio"} /\ main' = "returned"
  /\ UNCHANGED <<ctx, avcSamples, aacSamples, frames, pack, hasVideo, sent>>

\* for ctx.Err() == nil
LoopEnds ==
  /\ main = "loop" /\ ctx = "done" /\ main' = "returned"
  /\ UNCHANGED <<ctx, avcSamples, aacSamples, frames, pack, hasVideo, sent>>

\* Mutant: a video frame for every audio frame.
LoopUnguarded ==
  /\ main = "loop" /\ ctx = "live"
  /\ main' = "nals" /\ frames' = <<>>
  /\ UNCHANGED <<ctx, avcSamples, aacSamples, pack, hasVideo, sent>>

\* One pack should only contain one video frame.
Loop ==
  /\ main = "loop" /\ ctx = "live"
  /\ main' = IF hasVideo THEN "audio" ELSE "nals"
  /\ frames' = <<>>
  /\ UNCHANGED <<ctx, avcSamples, aacSamples, pack, hasVideo, sent>>

\* WritePackHeader or WriteHeader, then WriteVideo for every NAL that was read.
WriteVideo(nals) ==
  LET dts == videoDTS'
      header == IF \E i \in DOMAIN nals : nals[i] = "parameter"
                  THEN <<"pack", "system", "map">> ELSE <<"pack">>
      types == header \o nals
  IN  /\ avcSamples' = avcSamples + 1024
      /\ pack' = pack \o [i \in DOMAIN types |-> [t |-> types[i], dts |-> dts]]
      /\ hasVideo' = (hasVideo \/ nals # <<>>)
      /\ main' = "audio"

ReadParameterSet ==
  /\ main = "nals" /\ ctx = "live" /\ Len(frames) < MaxParameterSets
  /\ frames' = Append(frames, "parameter")
  /\ UNCHANGED <<ctx, main, avcSamples, aacSamples, pack, hasVideo, sent>>

\* The first NAL that is no parameter set ends the reading.
ReadFrame ==
  /\ main = "nals" /\ ctx = "live" /\ avcSamples < 1024 * MaxFrames
  /\ frames' = Append(frames, "frame") /\ WriteVideo(frames')
  /\ UNCHANGED <<ctx, aacSamples, sent>>

\* Canceled between two NALs: what was read is written, without a frame.
ReadCanceled ==
  /\ main = "nals" /\ ctx = "done" /\ avcSamples < 1024 * MaxFrames
  /\ WriteVideo(frames)
  /\ UNCHANGED <<ctx, aacSamples, frames, sent>>

WriteAudio ==
  /\ main = "audio" /\ aacSamples < 1024 * MaxFrames
  /\ aacSamples' = aacSamples + 1024
  /\ pack' = Append(pack, [t |-> "audio", dts |-> audioDTS'])
  /\ main' = "send"
  /\ UNCHANGED <<ctx, avcSamples, frames, hasVideo, sent>>

\* Mutant: the pack goes on after it was sent.
SendKeeps ==
  /\ main = "send" /\ hasVideo /\ videoDTS < audioDTS
  /\ sent' = pack /\ hasVideo' = FALSE /\ main' = "loop"
  /\ UNCHANGED <<ctx, avcSamples, aacSamples, frames, pack>>

\* Got video and enough audio frames: WritePacksOverRTP and onSendPacket.
Send ==
  /\ main = "send" /\ hasVideo /\ videoDTS < audioDTS
  /\ sent' = pack /\ pack' = <<>> /\ hasVideo' = FALSE /\ main' = "loop"
  /\ UNCHANGED <<ctx, avcSamples, aacSamples, frames>>

\* The connection or the callback fails.
SendFails ==
  /\ main = "send" /\ hasVideo /\ videoDTS < audioDTS
  /\ main' = "returned"
  /\ UNCHANGED <<ctx, avcSamples, aacSamples, frames, pack, hasVideo, sent>>

Wait ==
  /\ main = "send" /\ ~(hasVideo /\ videoDTS < audioDTS)
  /\ main' = "loop"
  /\ UNCHANGED <<ctx, avcSamples, aacSamples, frames, pack, hasVideo, sent>>

Next ==
  \/ Cancel \/ Connect \/ Fails \/ LoopEnds \/ Loop
  \/ ReadParameterSet \/ ReadFrame \/ ReadCanceled \/ WriteAudio
  \/ Send \/ SendFails \/ Wait

Spec == Init /\ [][Next]_vars

-----------------------------------------------------------------------------
(* Properties.                                                              *)

\* The first n packets of a pack: a header, which describes the streams exactly
\* when parameter sets follow, and one frame, all of one time.  Only when canceled
\* it may have no frame.
Visual(p, n) ==
  /\ \A i \in 1 .. n : p[i].t # "audio" /\ p[i].dts = p[1].dts /\ (p[i].t = "pack" <=> i = 1)
  /\ \A i, j \in 1 .. n : p[i].t = p[j].t /\ p[i].t \in {"map", "frame"} => i = j
  /\ (\E i \in 1 .. n : p[i].t = "map") <=> (\E i \in 1 .. n : p[i].t = "parameter")
  /\ ctx = "done" \/ \E i \in 1 .. n : p[i].t = "frame"

\* Then the audio up to the first frame of it that is later.
WellFormed(p) ==
  \E n \in 1 .. Len(p) - 1 :
    /\ Visual(p, n)
    /\ \A i \in n + 1 .. Len(p) : p[i].t = "audio" /\ (p[i].dts > p[1].dts <=> i = Len(p))

\* The audio of a pack, its order, and that of one pack before another.
Heard(p) == {i \in DOMAIN p : p[i].t = "audio"}
Ordered(p) == \A i, j \in Heard(p) : i < j => p[i].dts < p[j].dts
LaterHeard(p, q) == \A i \in Heard(p), j \in Heard(q) : p[i].dts < q[j].dts

\* Every pack that is sent is well formed, and later in video and in audio
\* than the one before (the pack variable of Ingest and its reset).
SentInOrder ==
  [][sent' # sent =>
       /\ WellFormed(sent') /\ Ordered(sent') /\ LaterHeard(sent, sent')
       /\ sent # <<>> => sent[1].dts < sent'[1].dts]_vars

\* Neither clock leaves the other behind by more than a frame of its own, if
\* frames of audio are at least as frequent as frames of video.
LeadBounded ==
  /\ videoDTS <= audioDTS + (clockRate * 1024) \div videoSampleRate + 1
  /\ videoSampleRate <= audioSampleRate =>
       audioDTS <= videoDTS + (clockRate * 1024) \div audioSampleRate + 2
=============================================================================
