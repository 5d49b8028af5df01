------------------------------ MODULE MCCktool ------------------------------
(* Values of the program's constants for TLC.                              *)
EXTENDS Cktool

(* With packets of 2 bytes: one packet, and one with a second fragment.    *)
MCPicLens == {2, 3}
==============================================================================
