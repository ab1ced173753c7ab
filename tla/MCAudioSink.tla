---------------------------- MODULE MCAudioSink -----------------------------
(* The device of an AudioSink for TLC: it opens one of three formats as    *)
(* another.                                                                *)
EXTENDS AudioSink

MCNegotiates == [mono |-> "mono", stereo |-> "surround", surround |-> "surround"]
=============================================================================
