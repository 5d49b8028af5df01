-------------------------------- MODULE Cktool --------------------------------
(***************************************************************************)
(* The programs cktool, src/cktool.c, and simple_demo, src/simple_demo.c:  *)
(* main opens the stages asked for (simple_demo all of them), then passes  *)
(* each image from the camera through conversion, encoder and packer to    *)
(* the network, without a copy wherever a stage gives out a pointer to its *)
(* own buffer.  It is the composition of the modules V4lCapture, VpuEncode,*)
(* RtpPack and Stages: their steps are taken when main calls them.  A call *)
(* that the state of a component does not allow shows as a deadlock.       *)
(*                                                                         *)
(* The library is built for one platform: the i.MX6 ("FSL") with IPU and   *)
(* VPU, or a PC with FFmpeg.  Of the Raspberry Pi ("RPI") there are the    *)
(* runs without encoder, which is in OmxEncode.                            *)
(***************************************************************************)
EXTENDS Integers, Sequences

CONSTANTS
  MaxBufs,      (* bound: buffers of the capture device                    *)
  MaxGop,       (* bound: length of the group of pictures                  *)
  PicLens       (* bound: lengths of the pictures' NALUs                   *)

ASSUME BuffersAssumption == MaxBufs \in Nat \ {0}
ASSUME GopAssumption     == MaxGop \in Nat \ {0}

(* The capture device and its handle, see V4lCapture.                      *)
VARIABLES cap_pc, fd, nbuffers, req_count, mapped, v4lbuf, v4lbuf_put, held,
          ret, streaming, buf, used

(* The encoder, see VpuEncode.                                             *)
VARIABLES enc_pc, height, gop, gop_offset_counter, forceIPicture, next_stage,
          stage_end, headers, pic, hwpos, astray, asked

(* The packer, see RtpPack.                                                *)
VARIABLES status, max_pkt_len, inbuf, next_nalu_ptr, inbuf_complete,
          nalu_complete, nalu, FU_counter, last_FU_size, FU_index, seq_num,
          ts_current_sample, pkt

(* What the other stages have acquired, see Stages.                        *)
VARIABLES own, got

VARIABLES
  platform,     (* PLAT of the build                                       *)
  program,      (* cktool or simple_demo                                   *)
  pc,           (* where main is                                           *)
  stage,        (* the bits of stage that are set                          *)
  yuv420,       (* capp.pixfmt is YUV420: nothing to convert               *)
  quit,
  code,         (* what main returns                                       *)
  hd,           (* encode_get_headers returned 1                           *)
  cvt_buf,      (* where the image to encode is: "cap", "cvt" or "none"    *)
  wire          (* the headers sent whole for the image at hand            *)

capVars == <<cap_pc, fd, nbuffers, req_count, mapped, v4lbuf, v4lbuf_put, held,
             ret, streaming, buf, used>>
encVars == <<enc_pc, height, gop, gop_offset_counter, forceIPicture, next_stage,
             stage_end, headers, pic, hwpos, astray, asked>>
pacVars == <<status, max_pkt_len, inbuf, next_nalu_ptr, inbuf_complete,
             nalu_complete, nalu, FU_counter, last_FU_size, FU_index, seq_num,
             ts_current_sample, pkt>>
stgVars == <<own, got>>
vars == <<capVars, encVars, pacVars, stgVars, platform, program, pc, stage,
          yuv420, quit, code, hd, cvt_buf, wire>>

Cap == INSTANCE V4lCapture WITH MayRestart <- FALSE, pc <- cap_pc

Enc == INSTANCE VpuEncode WITH Handles <- {"enc"}, OneAtATime <- TRUE,
                               pc <- enc_pc

Pac == INSTANCE RtpPack WITH
  MaxNaluLen <- 3, MaxNalus <- 1, PktLens <- {2}, OutbufSize <- 16,
  SeqMod <- 1, TsMod <- 1, Millis <- {0}, SSRC <- 9, ULongBytes <- 4

Stg == INSTANCE Stages

Bits == {"convert", "encode", "pack", "network"}

Opening == {"open_capture", "open_convert", "open_encode", "open_pack",
            "open_network", "open_timestamp", "start"}

(* The converter built for the platform.                                   *)
Converter == CASE platform = "FSL" -> "ipu" [] platform = "PC" -> "sws"
               [] platform = "RPI" -> "soft"

--------------------------------------------------------------------------------

Init ==
  /\ Cap!Init /\ Enc!Init /\ Pac!Init /\ Stg!Init
  /\ platform \in {"FSL", "PC", "RPI"}
  /\ program \in {"cktool", "simple_demo"}
  /\ pc = "open_capture"
  /\ stage \in SUBSET Bits
  /\ platform = "RPI" => "encode" \notin stage
  /\ yuv420 \in BOOLEAN
  /\ program = "simple_demo" => stage = Bits /\ ~yuv420
  /\ quit = FALSE
  /\ code = 0
  /\ hd = FALSE
  /\ cvt_buf = "none"
  /\ wire = <<>>

build == <<platform, program, stage, yuv420>>
local == <<code, hd, cvt_buf, wire>>

(* quit_func, on SIGINT.                                                   *)
Interrupt ==
  /\ pc # "exit" /\ ~quit /\ program = "cktool"
  /\ quit' = TRUE
  /\ UNCHANGED <<capVars, encVars, pacVars, stgVars, build, pc, local>>

(* The call at this place: the component's step, and what main does next.  *)
At(place)   == pc = place /\ UNCHANGED <<build, quit>>
Goto(place) == pc' = place

CapCall == UNCHANGED <<encVars, pacVars, stgVars>>
EncCall == UNCHANGED <<capVars, pacVars, stgVars>>
PacCall == UNCHANGED <<capVars, encVars, stgVars>>
StgCall == UNCHANGED <<capVars, encVars, pacVars>>
NoCall  == UNCHANGED <<capVars, encVars, pacVars, stgVars>>

--------------------------------------------------------------------------------
(* Opening.  A stage that cannot be opened ends the program; what was      *)
(* opened before it, stays open.                                           *)

GiveUp == Goto("exit") /\ code' = -1 /\ UNCHANGED <<hd, cvt_buf, wire>>

OpenCapture ==
  /\ At("open_capture") /\ CapCall
  /\ \/ Cap!OpenFails /\ GiveUp
     \/ Cap!InitDeviceFails /\ GiveUp
     \/ Cap!RequestBuffers /\ UNCHANGED <<pc, local>>
     \/ Cap!MapBuffer /\ UNCHANGED <<pc, local>>
     \/ Cap!MapFails /\ GiveUp
     \/ Cap!Opened /\ Goto("open_convert") /\ UNCHANGED local

(* A stage that is acquired piece by piece.                                *)
OpenStage(s, next) ==
  /\ StgCall
  /\ \/ (Stg!Acquire(s) \/ Stg!Overlook(s)) /\ UNCHANGED <<pc, local>>
     \/ Stg!Fail(s) /\ GiveUp
     \/ Stg!Opened(s) /\ Goto(next) /\ UNCHANGED local

Skip(bit, next) == bit \notin stage /\ NoCall /\ Goto(next) /\ UNCHANGED local

OpenConvert ==
  /\ At("open_convert")
  /\ \/ "convert" \in stage /\ OpenStage(Converter, "open_encode")
     \/ Skip("convert", "open_encode")

OpenEncode ==
  /\ At("open_encode")
  /\ \/ "encode" \in stage /\ platform = "PC" /\ OpenStage("ffmpeg", "open_pack")
     \/ "encode" \in stage /\ platform = "FSL" /\ Enc!Open("enc") /\ EncCall
        /\ Goto("open_pack") /\ UNCHANGED local
     \/ "encode" \in stage /\ platform = "FSL" /\ NoCall /\ GiveUp
     \/ Skip("encode", "open_pack")

(* pack_open makes the state that RtpPack starts in.                       *)
OpenPack ==
  /\ At("open_pack") /\ NoCall
  /\ \/ Goto("open_network") /\ UNCHANGED local
     \/ "pack" \in stage /\ GiveUp

(* Without server and port there is no network either.                     *)
OpenNetwork ==
  /\ At("open_network")
  /\ \/ "network" \in stage /\ OpenStage("network", "open_timestamp")
     \/ "network" \in stage /\ got = 0 /\ program = "cktool" /\ NoCall /\ GiveUp
     \/ Skip("network", "open_timestamp")

(* timestamp_open, its result ignored; simple_demo draws no timestamps.    *)
OpenTimestamp ==
  /\ At("open_timestamp")
  /\ \/ /\ program = "cktool" /\ StgCall
        /\ \/ Stg!Acquire("timestamp") /\ UNCHANGED pc
           \/ Stg!Fail("timestamp") /\ Goto("start")
           \/ Stg!Opened("timestamp") /\ Goto("start")
     \/ program = "simple_demo" /\ NoCall /\ Goto("start")
  /\ UNCHANGED local

(* capture_start, its result ignored; then quit is cleared.                *)
Start ==
  /\ pc = "start" /\ CapCall
  /\ Cap!Start \/ Cap!StartFails
  /\ quit' = FALSE
  /\ Goto("loop")
  /\ UNCHANGED <<build, local>>

--------------------------------------------------------------------------------
(* The loop.                                                               *)

(* while (!quit), and the call of capture_get_data.                        *)
LoopEnds ==
  /\ At("loop") /\ NoCall
  /\ quit
  /\ Goto("stop")
  /\ UNCHANGED local

(* Mistake: quit is not looked at.                                         *)
GetImageRegardless ==
  /\ At("loop") /\ CapCall
  /\ Cap!Call
  /\ Goto("capture")
  /\ cvt_buf' = "none"
  /\ wire' = <<>>
  /\ UNCHANGED <<code, hd>>

GetImage ==
  /\ At("loop") /\ CapCall
  /\ ~quit
  /\ Cap!Call
  /\ Goto("capture")
  /\ cvt_buf' = "none"
  /\ wire' = <<>>
  /\ UNCHANGED <<code, hd>>

(* Mistake: EAGAIN taken for success.                                      *)
CaptureAgainTaken ==
  /\ At("capture") /\ CapCall
  /\ Cap!GetData
  /\ Goto(IF cap_pc' # "idle" THEN "capture"
          ELSE IF ret' \notin {"ok", "again"} THEN "stop"
          ELSE IF "convert" \in stage THEN "convert" ELSE "loop")
  /\ UNCHANGED local

(* capture_get_data, and the way main takes with its result: an error ends *)
(* the loop, EAGAIN repeats it, as an image of length 0 does.              *)
Capture ==
  /\ At("capture") /\ CapCall
  /\ Cap!GetData
  /\ \/ Goto(IF cap_pc' # "idle" THEN "capture"
             ELSE IF ret' \notin {"ok", "again"} THEN "stop"
             ELSE IF ret' = "ok" /\ "convert" \in stage THEN "convert" ELSE "loop")
     \/ cap_pc' = "idle" /\ ret' = "ok" /\ Goto("loop")
  /\ UNCHANGED local

(* What ends the program at convert_do or timestamp_draw: an image of an   *)
(* unexpected size, mappings that failed unnoticed, and a timestamp that   *)
(* was not opened.                                                         *)
ConvertKills ==
  /\ At("convert") /\ NoCall
  /\ \/ ~yuv420
     \/ program = "cktool" /\ "tms_handle" \notin own
  /\ Goto("exit") /\ code' = -1
  /\ UNCHANGED <<hd, cvt_buf, wire>>

(* convert_do, which only the IPU fails, or the captured image as it is;   *)
(* then the timestamp is drawn into it.  An image of length 0 is dropped.  *)
Convert ==
  /\ At("convert") /\ NoCall
  /\ \/ /\ yuv420 \/ platform # "FSL" \/ Stg!Mappings \subseteq own
        /\ program = "cktool" => "tms_handle" \in own
        /\ Goto(IF "encode" \in stage THEN "headers" ELSE "loop")
        /\ cvt_buf' = IF yuv420 THEN "cap" ELSE "cvt"
     \/ /\ ~yuv420
        /\ platform = "FSL" => Stg!Mappings \subseteq own
        /\ Goto("loop")
        /\ cvt_buf' = "cvt"
     \/ /\ ~yuv420 /\ platform = "FSL"
        /\ Goto("stop")
        /\ UNCHANGED cvt_buf
  /\ UNCHANGED <<code, hd, wire>>

(* The header in the encoder's buffer.                                     *)
Fetched == headers["enc"][Len(headers["enc"])]

(* Mistake: the headers not packed.                                        *)
HeadersUnpacked ==
  /\ At("headers") /\ EncCall
  /\ platform = "FSL" /\ Enc!GetHeaders("enc")
  /\ hd' = (enc_pc'["enc"] = "headers")
  /\ Goto(IF ~hd' THEN "encode" ELSE "headers")
  /\ UNCHANGED <<code, cvt_buf, wire>>

(* encode_get_headers of the VPU encoder.                                  *)
Headers ==
  /\ At("headers") /\ EncCall
  /\ platform = "FSL" /\ Enc!GetHeaders("enc")
  /\ hd' = (enc_pc'["enc"] = "headers")
  /\ Goto(IF ~hd' THEN "encode"
          ELSE IF "pack" \in stage THEN "put" ELSE "headers")
  /\ UNCHANGED <<code, cvt_buf, wire>>

(* Of the FFmpeg encoder: the headers are in the pictures.                 *)
NoHeaders ==
  /\ At("headers") /\ NoCall
  /\ platform = "PC" /\ hd' = FALSE
  /\ Goto("encode")
  /\ UNCHANGED <<code, cvt_buf, wire>>

(* Its encode_do: the last packet is freed, then an image of an unexpected *)
(* size ends the program; or there is a new packet, none (delayed), or an  *)
(* error.                                                                  *)
EncodeFFmpeg ==
  /\ At("encode") /\ StgCall /\ platform = "PC"
  /\ \/ own' = own \cup {"packet"} /\ UNCHANGED code
        /\ Goto(IF "pack" \in stage THEN "put" ELSE "loop")
     \/ own' = own \ {"packet"} /\ UNCHANGED code /\ pc' \in {"loop", "stop"}
     \/ own' = own \ {"packet"} /\ Goto("exit") /\ code' = -1
  /\ UNCHANGED <<got, hd, cvt_buf, wire>>

(* encode_do; a skipped picture has no data.  abort() ends the program.    *)
Encode ==
  /\ At("encode") /\ EncCall /\ platform = "FSL"
  /\ \/ Enc!FillAborts("enc") /\ Goto("exit") /\ code' = -1
     \/ Enc!EncodeFails("enc") /\ Goto("stop") /\ UNCHANGED code
     \/ Enc!EncodeOk("enc") /\ UNCHANGED code
        /\ Goto(IF "pack" \in stage THEN "put" ELSE "loop")
     \/ Enc!EncodeSkips("enc") /\ Goto("loop") /\ UNCHANGED code
  /\ UNCHANGED <<hd, cvt_buf, wire>>

(* pack_put: SPS and PPS are short, pictures of any length.                *)
Put ==
  /\ At("put") /\ PacCall
  /\ \E len \in (IF hd THEN {1} ELSE PicLens) : Pac!PackPut(<<len>>)
  /\ Goto("send")
  /\ UNCHANGED local

AfterSending == Goto(IF hd THEN "headers" ELSE "loop")

(* Mistake: the packet got is taken for the only one.                      *)
SendOne ==
  /\ At("send") /\ PacCall
  /\ Pac!PackGet
  /\ AfterSending
  /\ wire' = IF hd /\ pkt'.marker /\ ~inbuf_complete' THEN Append(wire, Fetched)
             ELSE wire
  /\ UNCHANGED <<code, hd, cvt_buf>>

(* pack_get until it returns 0; net_send may fail, which is only reported. *)
Send ==
  /\ At("send") /\ PacCall
  /\ Pac!PackGet
  /\ IF inbuf_complete' THEN AfterSending ELSE UNCHANGED pc
  /\ wire' = IF hd /\ pkt'.marker /\ ~inbuf_complete' THEN Append(wire, Fetched)
             ELSE wire
  /\ UNCHANGED <<code, hd, cvt_buf>>

--------------------------------------------------------------------------------
(* The end: capture_stop, then the stages are closed, the last one first.  *)

Stop ==
  /\ At("stop") /\ CapCall
  /\ Cap!Stop
  /\ Goto("close_network")
  /\ UNCHANGED local

CloseStage(bit, s, next) ==
  /\ IF bit \in stage THEN Stg!Close(s) /\ StgCall ELSE NoCall
  /\ Goto(next)
  /\ UNCHANGED local

CloseNetwork == At("close_network") /\ CloseStage("network", "network", "close_pack")

(* Mistake: the bit of another stage tested.                               *)
ClosePackWithNetwork ==
  /\ At("close_pack")
  /\ IF "network" \in stage THEN Pac!PackClose /\ PacCall ELSE NoCall
  /\ Goto("close_encode")
  /\ UNCHANGED local

ClosePack ==
  /\ At("close_pack")
  /\ IF "pack" \in stage THEN Pac!PackClose /\ PacCall ELSE NoCall
  /\ Goto("close_encode")
  /\ UNCHANGED local

CloseEncode ==
  /\ At("close_encode")
  /\ \/ platform # "FSL" /\ CloseStage("encode", "ffmpeg", "close_convert")
     \/ /\ platform = "FSL" /\ Goto("close_convert") /\ UNCHANGED local
        /\ IF "encode" \in stage THEN Enc!Close("enc") /\ EncCall ELSE NoCall

CloseConvert ==
  At("close_convert") /\ CloseStage("convert", Converter, "close_capture")

CloseCapture ==
  /\ At("close_capture") /\ CapCall
  /\ Cap!Close
  /\ Goto("close_timestamp")
  /\ UNCHANGED local

(* timestamp_close takes a handle or NULL.                                 *)
CloseTimestamp ==
  /\ At("close_timestamp") /\ StgCall
  /\ Stg!Close("timestamp")
  /\ Goto("exit")
  /\ UNCHANGED local

Main ==
  \/ OpenCapture \/ OpenConvert \/ OpenEncode \/ OpenPack \/ OpenNetwork
  \/ OpenTimestamp \/ Start
  \/ LoopEnds \/ GetImage \/ Capture \/ ConvertKills \/ Convert \/ Headers
  \/ NoHeaders \/ EncodeFFmpeg \/ Encode \/ Put \/ Send \/ Stop
  \/ CloseNetwork \/ ClosePack \/ CloseEncode \/ CloseConvert \/ CloseCapture
  \/ CloseTimestamp

(* The device fills buffers meanwhile.                                     *)
Device ==
  /\ Cap!Fill
  /\ UNCHANGED <<encVars, pacVars, stgVars, build, pc, quit, local>>

Exited == pc = "exit" /\ UNCHANGED vars

Next == Main \/ Device \/ Interrupt \/ Exited

(* main goes on; the camera need not, and nobody need press ^C.            *)
Spec == Init /\ [][Next]_vars /\ WF_vars(Main)

--------------------------------------------------------------------------------
(* Properties.                                                             *)

(* From capture_get_data to encode_do the image lies in a buffer that the  *)
(* device cannot write to, and that is mapped.                             *)
ImageStays ==
  pc \in {"convert", "headers", "encode"} \/ (pc \in {"put", "send"} /\ hd) =>
    held # Cap!NONE /\ buf[held] = "user" /\ held \in mapped

PackerIdle == status # "open" \/ inbuf_complete

(* The encoder writes headers and pictures to one buffer, which the packer *)
(* reads until all packets are got: nothing is written to it before.       *)
NoOverwrite == pc \in {"headers", "encode", "put", "close_encode"} => PackerIdle

PacketsLeft == ~inbuf_complete /\ (nalu_complete => next_nalu_ptr # Pac!NULL)

(* With the VPU, an intra picture goes out behind the whole of SPS and PPS *)
(* and no other picture does, however the three are cut into packets (as   *)
(* long as no picture was skipped, which lets encoder and device count     *)
(* differently).                                                           *)
StreamDecodable ==
  platform = "FSL" /\ pc = "send" /\ ~hd /\ PacketsLeft /\ ~pic["enc"].astray =>
      wire = IF pic["enc"].type = "I" THEN <<"SPS", "PPS">> ELSE <<>>

(* A program that ran to its end has closed all it opened: the device and  *)
(* its mappings, the encoder, the packer, and all that the other stages    *)
(* have acquired.                                                          *)
AllClosed ==
  pc = "exit" /\ code = 0 =>
    /\ ~fd /\ mapped = {} /\ ~streaming
    /\ own = {}
    /\ enc_pc["enc"] = "closed"
    /\ status = "closed" \/ "pack" \notin stage

(* No stage is left half open by a failure, whatever failed in which stage:*)
(* outside of its own function it has all it needs or nothing, except for  *)
(* the IPU's mappings.                                                     *)
NoneHalfOpen ==
  got = 0 => \A s \in {Converter, "ffmpeg", "network", "timestamp"} : Stg!Whole(s)

(* ^C ends the program, wherever in the loop it is, unless it comes before *)
(* the loop.                                                               *)
InterruptEnds == (quit /\ pc \notin Opening) ~> pc = "exit"

================================================================================
