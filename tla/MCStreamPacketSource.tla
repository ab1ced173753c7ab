------------------------- MODULE MCStreamPacketSource -------------------------
(* The source of a relay for TLC: every sample may carry a tag of the      *)
(* upstream link.  A packet of n samples counts n + 1 bytes.               *)
EXTENDS StreamPacketSource

OneSample    == {1}
OneRate      == {1}
EverySample  == 0 .. 8
================================================================================
