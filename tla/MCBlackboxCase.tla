--------------------------- MODULE MCBlackboxCase ---------------------------
(* The processes and contexts of the tests: FFmpeg and FFprobe have contexts
   below that of the case, each recording one below that of FFprobe.         *)
EXTENDS BlackboxCase

MCService == {"srs", "ffmpeg", "dvr", "probe"}
MCContext == {"case", "ffmpeg", "probing", "dvr"}
MCCtxOf == [s \in MCService |-> IF s \in {"ffmpeg", "dvr"} THEN s ELSE "case"]
MCBelow == [c \in MCContext |-> CASE c = "case" -> MCContext
                                  [] c = "probing" -> {"probing", "dvr"}
                                  [] OTHER -> {c}]
=============================================================================
