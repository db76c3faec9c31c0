----------------------------- MODULE MCGbSession -----------------------------
(* A device with a few heartbeats, and the INVITEs of one server.           *)
EXTENDS GbSession

CONSTANTS d1, d2

MCCall == {register, bye} \cup Beat
MCMethod == [c \in MCCall |-> CASE c = register -> "REGISTER"
                                [] c = bye      -> "BYE"
                                [] OTHER        -> "MESSAGE"]
=============================================================================
