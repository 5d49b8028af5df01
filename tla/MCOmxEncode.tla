----------------------------- MODULE MCOmxEncode -----------------------------
(* Values of the constants of OmxEncode and IlEvents for TLC.              *)
EXTENDS OmxEncode

MCStateCommands   == {Loaded, Idle, Executing}
MCDisableCommands == {InOff, OutOff}
MCEnableCommands  == {InOn, OutOn}
MCOtherErrors     == {}
MCNotices         == {}
==============================================================================
