-------------------------------- MODULE Stages --------------------------------
(***************************************************************************)
(* The stages of the programs that are opened by one acquisition after the *)
(* other and closed by as many releases: the converters of the three       *)
(* platforms (src/ipu_convert.c, src/soft_convert.c, src/ffmpeg_convert.c), *)
(* the FFmpeg encoder (src/ffmpeg_encode.c), the network (src/network.c)   *)
(* and the timestamp (src/timestamp.c).  Any acquisition may fail; the way *)
(* out of the function then depends on the label it goes to.               *)
(***************************************************************************)
EXTENDS Integers, Sequences, SequencesExt

VARIABLES
  own,    (* what the open stages, and the one being opened, have acquired *)
  got     (* how far the one being opened has come                         *)

vars == <<own, got>>

(* What each stage acquires, in this order.                                *)
Steps ==
  [ipu     |-> <<"cvt_handle", "ipu_fd", "ipu_in", "ipu_inbuf", "ipu_out", "ipu_outbuf">>,
   soft    |-> <<"cvt_handle", "cvt_buffer">>,
   sws     |-> <<"cvt_handle", "sws_ctx", "src_frame", "src_buffer", "dst_frame",
                 "dst_buffer">>,
   ffmpeg  |-> <<"enc_handle", "ctx", "codec", "frame", "inbuffer">>,
   network |-> <<"net_handle", "socket", "connection">>,
   timestamp |-> <<"tms_handle">>]

(* What stands behind the labels, the last one first; each falls through   *)
(* to the next.  Without labels, what a failing call has released in its   *)
(* place.                                                                  *)
Labels ==
  [soft    |-> <<"cvt_handle">>,
   sws     |-> <<"dst_frame", "src_buffer", "src_frame", "sws_ctx", "cvt_handle">>,
   ffmpeg  |-> <<"frame", "codec", "ctx", "enc_handle">>,
   network |-> <<"socket", "net_handle">>,
   timestamp |-> <<>>]

(* Mistake: one label too far.                                             *)
GotoNext ==
  [soft    |-> [cvt_handle |-> 2, cvt_buffer |-> 1],
   sws     |-> [cvt_handle |-> 6, sws_ctx |-> 5, src_frame |-> 4, src_buffer |-> 3,
                dst_frame |-> 3, dst_buffer |-> 1],
   ffmpeg  |-> [enc_handle |-> 5, ctx |-> 4, codec |-> 3, frame |-> 2, inbuffer |-> 1],
   network |-> [net_handle |-> 3, socket |-> 2, connection |-> 1],
   timestamp |-> [tms_handle |-> 1]]

(* The label an acquisition that fails goes to.                            *)
Goto ==
  [soft    |-> [cvt_handle |-> 2, cvt_buffer |-> 1],
   sws     |-> [cvt_handle |-> 6, sws_ctx |-> 5, src_frame |-> 4, src_buffer |-> 3,
                dst_frame |-> 2, dst_buffer |-> 1],
   ffmpeg  |-> [enc_handle |-> 5, ctx |-> 4, codec |-> 3, frame |-> 2, inbuffer |-> 1],
   network |-> [net_handle |-> 3, socket |-> 2, connection |-> 1],
   timestamp |-> [tms_handle |-> 1]]

(* The IPU's converter has one label, behind which it looks at what is     *)
(* there; it also gives the driver addresses the driver does not know.     *)
Undone(s, r) ==
  IF s = "ipu" THEN IF r = "cvt_handle" THEN {} ELSE own \cap ToSet(Steps["ipu"])
  ELSE {Labels[s][i] : i \in Goto[s][r]..Len(Labels[s])}

(* What closing releases; the packet is the encoder's last picture.        *)
Released(s) == ToSet(Steps[s]) \cup {r \in {"packet"} : s = "ffmpeg"}

(* The IPU's mmap: its failure is tested for as it never shows.            *)
Mappings == {"ipu_inbuf", "ipu_outbuf"}

Init == own = {} /\ got = 0

--------------------------------------------------------------------------------

Wanted(s) == Steps[s][got + 1]

Acquire(s) ==
  /\ got < Len(Steps[s])
  /\ got' = got + 1
  /\ own' = own \cup {Wanted(s)}

Overlook(s) ==
  /\ got < Len(Steps[s]) /\ Wanted(s) \in Mappings
  /\ got' = got + 1
  /\ UNCHANGED own

Fail(s) ==
  /\ got < Len(Steps[s]) /\ Wanted(s) \notin Mappings
  /\ own' = own \ Undone(s, Wanted(s))
  /\ got' = 0

Opened(s) == got = Len(Steps[s]) /\ got' = 0 /\ UNCHANGED own

Close(s) == own' = own \ Released(s) /\ UNCHANGED got

(* The stage is open, with or without mappings, or closed.                 *)
Whole(s) == ToSet(Steps[s]) \ Mappings \subseteq own \/ ToSet(Steps[s]) \cap own = {}

================================================================================
