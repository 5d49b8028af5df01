------------------------------ MODULE MCRtpPack ------------------------------
(* Values of the packer's constants for TLC.                               *)
EXTENDS RtpPack

(* A fragment of 1, 2 or 3 bytes, so that NALUs of up to 7 bytes are cut   *)
(* exactly, with one byte over (a last FU with no payload) and with two;   *)
(* 4 does not leave room in the output buffer for a fragment.              *)
MCPktLens == 1 .. 4

(* 0 ms is in range of an 8-bit timestamp, 3 ms (270 samples) is not.     *)
MCMillis == {0, 3}
==============================================================================
