----------------------------- MODULE MCVpuOpen -----------------------------
(* Values of the constants of VpuOpen for TLC.                             *)
EXTENDS VpuOpen

(* With three frames more (two for subsampling, one source frame) and a    *)
(* pool of eight: less than the pool, all of it, more than it has.         *)
MCMinFbCounts == {0, 3, 5, 6}
==============================================================================
