---------------------------- MODULE CktoolProofs ----------------------------
(***************************************************************************)
(* Proofs about the programs that compose the stages, for any number of    *)
(* capture buffers and any lengths of groups and pictures: a buffer passed *)
(* on by pointer is not written to while it is read, and what is opened is *)
(* closed.                                                                 *)
(***************************************************************************)
EXTENDS Cktool, TLAPS

CapP == INSTANCE V4lCaptureProofs WITH MayRestart <- FALSE, pc <- cap_pc

EncP == INSTANCE VpuEncodeProofs WITH Handles <- {"enc"}, OneAtATime <- TRUE,
                                      pc <- enc_pc

(* Between the steps of the program's own, the capture is in a state that  *)
(* V4lCapture's invariant describes.                                       *)
CaptureSafe == CapP!IInv

--------------------------------------------------------------------------------
(* The capture.                                                            *)

(* Cktool and the proofs about the capture use two instances of V4lCapture, *)
(* which are the same.                                                     *)
LEMMA SameNames ==
  /\ Cap!NONE = CapP!NONE
  /\ Cap!Bufs = CapP!Bufs
  /\ Cap!Filled = CapP!Filled
  /\ Cap!Owned = CapP!Owned
  BY DEF Cap!NONE, CapP!NONE, Cap!Bufs, CapP!Bufs, Cap!Filled, CapP!Filled,
         Cap!Owned, CapP!Owned

LEMMA SameOpening ==
  /\ Cap!OpenFails => CapP!OpenFails
  /\ Cap!InitDeviceFails => CapP!InitDeviceFails
  /\ Cap!RequestBuffers => CapP!RequestBuffers
  /\ Cap!MapBuffer => CapP!MapBuffer
  /\ Cap!MapFails => CapP!MapFails
  /\ Cap!Opened => CapP!Opened
  BY DEF Cap!OpenFails, CapP!OpenFails, Cap!InitDeviceFails, CapP!InitDeviceFails,
         Cap!RequestBuffers, CapP!RequestBuffers, Cap!MapBuffer, CapP!MapBuffer,
         Cap!MapFails, CapP!MapFails, Cap!Opened, CapP!Opened,
         Cap!handle, CapP!handle, Cap!device, CapP!device

LEMMA SameStream ==
  /\ Cap!Start => CapP!Start
  /\ Cap!StartFails => CapP!StartFails
  /\ Cap!Stop => CapP!Stop
  /\ Cap!Close => CapP!Close
  /\ Cap!Fill => CapP!Fill
  BY SameNames
     DEF Cap!Start, CapP!Start, Cap!StartFails, CapP!StartFails, Cap!Stop,
         CapP!Stop, Cap!Close, CapP!Close, Cap!Fill, CapP!Fill,
         Cap!MayStart, CapP!MayStart, Cap!QueueFirst, CapP!QueueFirst,
         Cap!handle, CapP!handle, Cap!device, CapP!device

LEMMA SameGetData ==
  /\ Cap!Call => CapP!Call
  /\ Cap!GetData => CapP!GetData
  BY SameNames
     DEF Cap!Call, CapP!Call, Cap!GetData, CapP!GetData, Cap!SelectFails,
         CapP!SelectFails, Cap!Ready, CapP!Ready, Cap!PutBack, CapP!PutBack,
         Cap!PutBackFails, CapP!PutBackFails, Cap!Dequeue, CapP!Dequeue,
         Cap!DequeueFails, CapP!DequeueFails, Cap!Return, CapP!Return,
         Cap!handle, CapP!handle, Cap!device, CapP!device

(* The program drives the capture only as V4lCapture allows.               *)
LEMMA DrivesCapture == [Next]_vars => [CapP!Next]_(CapP!vars)
<1> SUFFICES ASSUME [Next]_vars
             PROVE  CapP!Next \/ UNCHANGED capVars
  BY DEF CapP!vars, CapP!handle, capVars
<1>1. CASE OpenCapture
  BY <1>1, SameOpening DEF OpenCapture, CapP!Next
<1>2. CASE Start \/ GetImage \/ Capture \/ Stop \/ CloseCapture \/ Device
  BY <1>2, SameStream, SameGetData
     DEF Start, GetImage, Capture, Stop, CloseCapture, Device, CapP!Next
<1>3. CASE OpenConvert \/ OpenEncode \/ OpenPack \/ OpenNetwork \/ OpenTimestamp
  BY <1>3 DEF OpenConvert, OpenEncode, OpenPack, OpenNetwork, OpenTimestamp,
              OpenStage, Skip, StgCall, EncCall, NoCall
<1>4. CASE \/ LoopEnds \/ ConvertKills \/ Convert \/ Headers \/ NoHeaders
           \/ EncodeFFmpeg \/ Encode \/ Put \/ Send
  BY <1>4 DEF LoopEnds, ConvertKills, Convert, Headers, NoHeaders, EncodeFFmpeg,
              Encode, Put, Send, StgCall, EncCall, PacCall, NoCall
<1>5. CASE \/ CloseNetwork \/ ClosePack \/ CloseEncode \/ CloseConvert
           \/ CloseTimestamp
  BY <1>5 DEF CloseNetwork, ClosePack, CloseEncode, CloseConvert,
              CloseTimestamp, CloseStage, StgCall, EncCall, PacCall, NoCall
<1>6. CASE Interrupt \/ Exited \/ UNCHANGED vars
  BY <1>6 DEF Interrupt, Exited, vars
<1>7. QED
  BY <1>1, <1>2, <1>3, <1>4, <1>5, <1>6 DEF Next, Main

(* So what is proved of the capture holds in the programs.                 *)
LEMMA CaptureStaysSafe ==
  /\ Init => CaptureSafe
  /\ CaptureSafe /\ [Next]_vars => CaptureSafe'
<1>1. Init => CapP!Init
  BY DEF Init, Cap!Init, CapP!Init, Cap!NONE, CapP!NONE, Cap!Bufs, CapP!Bufs
<1>2. CapP!Init => CapP!IInv
  BY BuffersAssumption, CapP!InitEstablishesIInv
<1>3. CapP!IInv /\ [CapP!Next]_(CapP!vars) => CapP!IInv'
  BY BuffersAssumption, CapP!StepKeepsIInv
<1>4. QED
  BY <1>1, <1>2, <1>3, DrivesCapture DEF CaptureSafe

--------------------------------------------------------------------------------
(* The image.                                                              *)

(* While the image at hand is still to be encoded, or the headers before   *)
(* it are under way, the caller holds a buffer.                            *)
ImageAtHand ==
  pc \in {"convert", "headers", "encode"} \/ (pc \in {"put", "send"} /\ hd) =>
    held # CapP!NONE

(* capture_get_data that returns 0 gives an image.                         *)
LEMMA OkGivesImage ==
  ASSUME Cap!GetData, cap_pc' = "idle", ret' = "ok"
  PROVE  held' # CapP!NONE
<1>1. Cap!Dequeue
  BY DEF Cap!GetData, Cap!SelectFails, Cap!Ready, Cap!PutBack, Cap!PutBackFails,
         Cap!DequeueFails, Cap!Return
<1>2. held' \in Cap!Bufs
  BY <1>1 DEF Cap!Dequeue, Cap!Filled
<1>3. QED
  BY <1>2, BuffersAssumption, CapP!BufferNumbers, SameNames

LEMMA ImageStaysAtHand == ImageAtHand /\ [Next]_vars => ImageAtHand'
<1> SUFFICES ASSUME ImageAtHand, [Next]_vars PROVE ImageAtHand'
  OBVIOUS
<1> USE DEF ImageAtHand, Goto, At
<1>1. CASE OpenCapture \/ OpenConvert \/ OpenEncode \/ OpenPack
  BY <1>1 DEF OpenCapture, OpenConvert, OpenEncode, OpenPack, OpenStage, Skip,
              GiveUp, local
<1>2. CASE OpenNetwork \/ OpenTimestamp \/ Start
  BY <1>2 DEF OpenNetwork, OpenTimestamp, Start, OpenStage, Skip, GiveUp, local
<1>3. CASE LoopEnds \/ GetImage
  BY <1>3 DEF LoopEnds, GetImage, local
<1>4. CASE Capture
  <2>1. pc' \in {"capture", "convert", "loop", "stop"}
        /\ (pc' = "convert" => cap_pc' = "idle" /\ ret' = "ok")
    BY <1>4 DEF Capture
  <2>2. QED
    BY <1>4, <2>1, OkGivesImage DEF Capture
<1>5. CASE ConvertKills \/ Convert
  BY <1>5 DEF ConvertKills, Convert, NoCall, capVars
<1>6. CASE Headers \/ NoHeaders \/ EncodeFFmpeg \/ Encode
  BY <1>6 DEF Headers, NoHeaders, EncodeFFmpeg, Encode, EncCall, StgCall, NoCall,
              capVars, local
<1>7. CASE Put \/ Send
  BY <1>7 DEF Put, Send, AfterSending, PacCall, capVars, local
<1>8. CASE Stop \/ CloseNetwork \/ ClosePack \/ CloseEncode \/ CloseConvert
           \/ CloseCapture \/ CloseTimestamp
  BY <1>8 DEF Stop, CloseNetwork, ClosePack, CloseEncode, CloseConvert,
              CloseCapture, CloseTimestamp, CloseStage
<1>9. CASE Device
  BY <1>9 DEF Device, Cap!Fill, local
<1>10. CASE Interrupt \/ Exited \/ UNCHANGED vars
  BY <1>10 DEF Interrupt, Exited, vars, capVars, local
<1>11. QED
  BY <1>1, <1>2, <1>3, <1>4, <1>5, <1>6, <1>7, <1>8, <1>9, <1>10 DEF Next, Main

(* From capture_get_data to encode_do, and while the headers before it are *)
(* sent, the image lies in a mapped buffer that the device does not have.  *)
THEOREM ImageIsStill == Spec => []ImageStays
<1>1. Init => ImageAtHand
  BY DEF Init, ImageAtHand
<1>2. CaptureSafe /\ ImageAtHand => ImageStays
  BY SameNames
     DEF CaptureSafe, CapP!IInv, CapP!HeldIsOurs, ImageAtHand, ImageStays
<1>3. QED
  BY <1>1, <1>2, CaptureStaysSafe, ImageStaysAtHand, PTL DEF Spec

--------------------------------------------------------------------------------
(* The encoder's buffer.                                                   *)

(* The packer has packets left only while main gets them.                  *)
PacketsAllGot == pc # "send" => PackerIdle

(* Headers and pictures are written to the encoder's buffer only when the  *)
(* packer is done with what was in it.                                     *)
THEOREM BufferIsRead == Spec => []NoOverwrite
<1>1. Init => PacketsAllGot
  BY DEF Init, Pac!Init, PacketsAllGot, PackerIdle
<1>2. PacketsAllGot /\ [Next]_vars => PacketsAllGot'
  <2> SUFFICES ASSUME PacketsAllGot, [Next]_vars PROVE PacketsAllGot'
    OBVIOUS
  <2> USE DEF PacketsAllGot, PackerIdle, Goto, At
  <2>1. CASE OpenCapture \/ OpenConvert \/ OpenEncode \/ OpenPack
             \/ OpenNetwork \/ OpenTimestamp
    BY <2>1 DEF OpenCapture, OpenConvert, OpenEncode, OpenPack, OpenNetwork,
                OpenTimestamp, OpenStage, Skip, GiveUp, CapCall, StgCall, EncCall,
                NoCall, pacVars
  <2>2. CASE Start \/ LoopEnds \/ GetImage \/ Capture
    BY <2>2 DEF Start, LoopEnds, GetImage, Capture, CapCall, NoCall, pacVars
  <2>3. CASE ConvertKills \/ Convert \/ Headers \/ NoHeaders \/ EncodeFFmpeg
             \/ Encode
    BY <2>3 DEF ConvertKills, Convert, Headers, NoHeaders, EncodeFFmpeg, Encode,
                NoCall, EncCall, StgCall, pacVars
  <2>4. CASE Put
    BY <2>4 DEF Put
  <2>5. CASE Send
    BY <2>5 DEF Send
  <2>6. CASE ClosePack
    BY <2>6 DEF ClosePack, Pac!PackClose, NoCall, pacVars
  <2>7. CASE Stop \/ CloseNetwork \/ CloseEncode \/ CloseConvert
             \/ CloseCapture \/ CloseTimestamp
    BY <2>7 DEF Stop, CloseNetwork, CloseEncode, CloseConvert, CloseCapture,
                CloseTimestamp, CloseStage, CapCall, StgCall, EncCall, NoCall,
                pacVars
  <2>8. CASE Device \/ Interrupt \/ Exited \/ UNCHANGED vars
    BY <2>8 DEF Device, Interrupt, Exited, vars, pacVars
  <2>9. QED
    BY <2>1, <2>2, <2>3, <2>4, <2>5, <2>6, <2>7, <2>8 DEF Next, Main
<1>3. PacketsAllGot => NoOverwrite
  BY DEF PacketsAllGot, NoOverwrite
<1>4. QED
  BY <1>1, <1>2, <1>3, PTL DEF Spec

--------------------------------------------------------------------------------
(* The end.                                                                *)

(* main has come to its end, or to one of these places before it.          *)
Behind(places) == pc \in places \/ (pc = "exit" /\ code = 0)

(* What main has closed there: by the place, what may still be open.       *)
CaptureClosed == Behind({"close_timestamp"}) => cap_pc = "closed" /\ ~fd

PackerClosed ==
  Behind({"close_encode", "close_convert", "close_capture", "close_timestamp"}) =>
    status = "closed" \/ "pack" \notin stage

EncoderClosed ==
  /\ DOMAIN enc_pc = {"enc"}
  /\ \/ Behind({"close_convert", "close_capture", "close_timestamp"})
     \/ "encode" \notin stage \/ platform # "FSL"
     => enc_pc["enc"] = "closed"

(* The place after a step, and the order of closing.                       *)
LEMMA ClosingOrder ==
  ASSUME [Next]_vars
  PROVE  /\ UNCHANGED <<platform, program, stage>>
         /\ pc' = "close_pack" => pc = pc' \/ CloseNetwork
         /\ pc' = "close_encode" => pc = pc' \/ ClosePack
         /\ pc' = "close_convert" => pc = pc' \/ CloseEncode
         /\ pc' = "close_capture" => pc = pc' \/ CloseConvert
         /\ pc' = "close_timestamp" => pc = pc' \/ CloseCapture
         /\ pc' = "exit" /\ code' = 0 =>
              (pc = "exit" /\ code = 0) \/ CloseTimestamp
<1> USE DEF Goto, At, build, GiveUp
<1>1. CASE OpenCapture \/ OpenConvert \/ OpenEncode
  BY <1>1 DEF OpenCapture, OpenConvert, OpenEncode, OpenStage, Skip, local
<1>2. CASE OpenPack \/ OpenNetwork \/ OpenTimestamp \/ Start
  BY <1>2 DEF OpenPack, OpenNetwork, OpenTimestamp, Start, OpenStage, Skip, local
<1>3. CASE LoopEnds \/ GetImage \/ Capture \/ ConvertKills \/ Convert
  BY <1>3 DEF LoopEnds, GetImage, Capture, ConvertKills, Convert
<1>4. CASE Headers \/ NoHeaders \/ EncodeFFmpeg \/ Encode \/ Put \/ Send
  BY <1>4 DEF Headers, NoHeaders, EncodeFFmpeg, Encode, Put, Send, AfterSending
<1>5. CASE Stop \/ CloseNetwork \/ ClosePack \/ CloseEncode \/ CloseConvert
           \/ CloseCapture \/ CloseTimestamp
  BY <1>5 DEF Stop, CloseNetwork, ClosePack, CloseEncode, CloseConvert,
              CloseCapture, CloseTimestamp, CloseStage
<1>6. CASE Device \/ Interrupt \/ Exited \/ UNCHANGED vars
  BY <1>6 DEF Device, Interrupt, Exited, vars, local
<1>7. QED
  BY <1>1, <1>2, <1>3, <1>4, <1>5, <1>6 DEF Next, Main

(* At the end main only closes.                                            *)
Closing == CloseNetwork \/ ClosePack \/ CloseEncode \/ CloseConvert
           \/ CloseCapture \/ CloseTimestamp

LEMMA OnlyCloses ==
  ASSUME [Next]_vars,
         pc \in {"close_pack", "close_encode", "close_convert", "close_capture",
                "close_timestamp", "exit"}
  PROVE  Closing \/ Device \/ Interrupt \/ UNCHANGED vars
  BY DEF Next, Main, Closing, Exited, At, OpenCapture, OpenConvert, OpenEncode,
         OpenPack, OpenNetwork, OpenTimestamp, Start, LoopEnds, GetImage, Capture,
         ConvertKills, Convert, Headers, NoHeaders, EncodeFFmpeg, Encode, Put,
         Send, Stop

LEMMA CaptureStaysClosed == CaptureClosed /\ [Next]_vars => CaptureClosed'
<1> SUFFICES ASSUME CaptureClosed, [Next]_vars,
                    pc' = "close_timestamp" \/ (pc' = "exit" /\ code' = 0)
             PROVE  cap_pc' = "closed" /\ ~fd'
  BY DEF CaptureClosed, Behind
<1>1. CASE CloseCapture
  BY <1>1 DEF CloseCapture, Cap!Close
<1>2. CASE ~CloseCapture
  <2>1. /\ cap_pc = "closed" /\ ~fd
        /\ CloseTimestamp \/ pc = pc'
        /\ pc \in {"close_timestamp", "exit"}
    BY <1>2, ClosingOrder DEF CaptureClosed, Behind, CloseTimestamp, At
  <2>2. Closing => CloseTimestamp
    BY <2>1 DEF Closing, CloseNetwork, ClosePack, CloseEncode, CloseConvert,
                CloseCapture, At
  <2>3. CloseTimestamp \/ Device \/ Interrupt \/ UNCHANGED vars
    BY <2>1, <2>2, OnlyCloses
  <2>4. UNCHANGED <<cap_pc, fd>>
    BY <2>3 DEF CloseTimestamp, StgCall, Device, Cap!Fill, Interrupt, vars, capVars
  <2>5. QED
    BY <2>1, <2>4
<1>3. QED
  BY <1>1, <1>2

LEMMA PackerStaysClosed == PackerClosed /\ [Next]_vars => PackerClosed'
<1> SUFFICES ASSUME PackerClosed, [Next]_vars, "pack" \in stage',
                    \/ pc' \in {"close_encode", "close_convert", "close_capture",
                               "close_timestamp"}
                    \/ pc' = "exit" /\ code' = 0
             PROVE  status' = "closed"
  BY DEF PackerClosed, Behind
<1>1. CASE ClosePack
  BY <1>1, ClosingOrder DEF ClosePack, Pac!PackClose
<1>2. CASE ~ClosePack
  <2>1. /\ status = "closed"
        /\ pc \in {"close_encode", "close_convert", "close_capture",
                  "close_timestamp", "exit"}
    BY <1>2, ClosingOrder
       DEF PackerClosed, Behind, CloseEncode, CloseConvert, CloseCapture,
           CloseTimestamp, At
  <2>2. CloseEncode \/ CloseConvert \/ CloseCapture \/ CloseTimestamp \/ Device
        \/ Interrupt \/ UNCHANGED vars
    BY <2>1, <1>2, OnlyCloses DEF Closing, CloseNetwork, At
  <2>3. UNCHANGED status
    BY <2>2 DEF CloseEncode, CloseConvert, CloseCapture, CloseTimestamp, Device,
                Interrupt, CloseStage, StgCall, EncCall, CapCall, NoCall, vars,
                pacVars
  <2>4. QED
    BY <2>1, <2>3
<1>3. QED
  BY <1>1, <1>2

(* A step of the encoder moves its one handle.                             *)
LEMMA EncoderSteps ==
  ASSUME DOMAIN enc_pc = {"enc"}
  PROVE  /\ Enc!Open("enc") \/ Enc!GetHeaders("enc") => DOMAIN enc_pc' = {"enc"}
         /\ \/ Enc!FillAborts("enc") \/ Enc!EncodeFails("enc")
            \/ Enc!EncodeOk("enc") \/ Enc!EncodeSkips("enc")
            => DOMAIN enc_pc' = {"enc"}
         /\ Enc!Close("enc") => DOMAIN enc_pc' = {"enc"} /\ enc_pc'["enc"] = "closed"
  BY DEF Enc!Open, Enc!GetHeaders, Enc!NoneDue, Enc!CircleComplete, Enc!GetSPS,
         Enc!GetPPS, Enc!LeaveLoop, Enc!Fetch, Enc!FillAborts, Enc!EncodeFails,
         Enc!EncodeOk, Enc!EncodeSkips, Enc!StartOneFrame, Enc!Close

(* Who touches the encoder.                                                *)
LEMMA EncoderAtWork ==
  ASSUME [Next]_vars
  PROVE  \/ UNCHANGED encVars
         \/ /\ pc \in {"open_encode", "headers", "encode"} /\ platform = "FSL"
            /\ pc = "open_encode" => "encode" \in stage
            /\ \/ Enc!Open("enc") \/ Enc!GetHeaders("enc") \/ Enc!FillAborts("enc")
               \/ Enc!EncodeFails("enc") \/ Enc!EncodeOk("enc")
               \/ Enc!EncodeSkips("enc")
            /\ pc' \in {"open_pack", "put", "headers", "encode", "loop", "stop"}
               \/ (pc' = "exit" /\ code' # 0)
         \/ CloseEncode /\ Enc!Close("enc")
<1> USE DEF At, Goto
<1>1. CASE OpenCapture \/ OpenConvert \/ OpenPack \/ OpenNetwork \/ OpenTimestamp
  BY <1>1 DEF OpenCapture, OpenConvert, OpenPack, OpenNetwork, OpenTimestamp,
              OpenStage, Skip, CapCall, StgCall, NoCall
<1>2. CASE OpenEncode \/ Headers \/ Encode
  BY <1>2 DEF OpenEncode, Headers, Encode, OpenStage, Skip, StgCall, NoCall
<1>3. CASE Start \/ LoopEnds \/ GetImage \/ Capture \/ ConvertKills \/ Convert
           \/ NoHeaders \/ EncodeFFmpeg \/ Put \/ Send \/ Stop
  BY <1>3 DEF Start, LoopEnds, GetImage, Capture, ConvertKills, Convert,
              NoHeaders, EncodeFFmpeg, Put, Send, Stop, CapCall, StgCall, PacCall,
              NoCall
<1>4. CASE CloseNetwork \/ ClosePack \/ CloseEncode \/ CloseConvert
           \/ CloseCapture \/ CloseTimestamp
  BY <1>4 DEF CloseNetwork, ClosePack, CloseEncode, CloseConvert, CloseCapture,
              CloseTimestamp, CloseStage, CapCall, StgCall, PacCall, NoCall
<1>5. CASE Device \/ Interrupt \/ Exited \/ UNCHANGED vars
  BY <1>5 DEF Device, Interrupt, Exited, vars
<1>6. QED
  BY <1>1, <1>2, <1>3, <1>4, <1>5 DEF Next, Main

(* main encodes and packs only if it was asked to.                         *)
StagesAsked ==
  /\ pc \in {"headers", "encode"} \/ hd => "encode" \in stage
  /\ pc \in {"put", "send"} => "pack" \in stage

LEMMA StagesStayAsked == StagesAsked /\ [Next]_vars => StagesAsked'
<1> SUFFICES ASSUME StagesAsked, [Next]_vars PROVE StagesAsked'
  OBVIOUS
<1> USE ClosingOrder DEF StagesAsked, At, Goto
<1>1. CASE OpenCapture \/ OpenConvert \/ OpenEncode \/ OpenPack
  BY <1>1 DEF OpenCapture, OpenConvert, OpenEncode, OpenPack, OpenStage, Skip,
              GiveUp, local
<1>2. CASE OpenNetwork \/ OpenTimestamp \/ Start \/ LoopEnds \/ GetImage \/ Capture
  BY <1>2 DEF OpenNetwork, OpenTimestamp, Start, LoopEnds, GetImage, Capture,
              OpenStage, Skip, GiveUp, local
<1>3. CASE ConvertKills \/ Convert \/ Headers \/ NoHeaders \/ EncodeFFmpeg
           \/ Encode \/ Put \/ Send
  BY <1>3 DEF ConvertKills, Convert, Headers, NoHeaders, EncodeFFmpeg, Encode,
              Put, Send, AfterSending, local
<1>4. CASE Closing \/ Stop \/ Device \/ Interrupt \/ Exited \/ UNCHANGED vars
  BY <1>4 DEF Closing, Stop, Device, Interrupt, Exited, CloseNetwork, ClosePack,
              CloseEncode, CloseConvert, CloseCapture, CloseTimestamp, CloseStage,
              local, vars
<1>5. QED
  BY <1>1, <1>2, <1>3, <1>4 DEF Next, Main, Closing

LEMMA EncoderStaysClosed ==
  StagesAsked /\ EncoderClosed /\ [Next]_vars => EncoderClosed'
<1> SUFFICES ASSUME StagesAsked, EncoderClosed, [Next]_vars PROVE EncoderClosed'
  OBVIOUS
<1> DEFINE Past == Behind({"close_convert", "close_capture", "close_timestamp"})
<1>0. UNCHANGED <<platform, stage>>
  BY ClosingOrder
<1>1. Past' => Past \/ CloseEncode
  BY ClosingOrder DEF Behind, CloseConvert, CloseCapture, CloseTimestamp, At
<1>2. CASE UNCHANGED encVars
  <2>1. CASE CloseEncode /\ "encode" \in stage /\ platform = "FSL"
    BY <2>1, <1>0, EncoderSteps DEF CloseEncode, EncoderClosed
  <2>2. CASE ~CloseEncode \/ "encode" \notin stage \/ platform # "FSL"
    BY <1>0, <1>1, <1>2, <2>2 DEF EncoderClosed, encVars
  <2>3. QED
    BY <2>1, <2>2
<1>3. CASE CloseEncode /\ Enc!Close("enc")
  BY <1>3, EncoderSteps DEF EncoderClosed
<1>4. CASE ~UNCHANGED encVars /\ ~(CloseEncode /\ Enc!Close("enc"))
  <2>1. "encode" \in stage /\ platform = "FSL" /\ ~Past'
    BY <1>4, EncoderAtWork DEF StagesAsked, Behind
  <2>2. DOMAIN enc_pc' = {"enc"}
    BY <1>4, EncoderAtWork, EncoderSteps DEF EncoderClosed
  <2>3. QED
    BY <1>0, <2>1, <2>2 DEF EncoderClosed
<1>5. QED
  BY <1>2, <1>3, <1>4

--------------------------------------------------------------------------------
(* What the other stages acquire.                                          *)

StageNames == {"ipu", "soft", "sws", "ffmpeg", "network", "timestamp"}

(* What the stages acquire, and how much.                                  *)
LEMMA StageSteps ==
  /\ Stg!Steps["ipu"] = <<"cvt_handle", "ipu_fd", "ipu_in", "ipu_inbuf", "ipu_out",
                          "ipu_outbuf">>
  /\ Stg!Steps["soft"] = <<"cvt_handle", "cvt_buffer">>
  /\ Stg!Steps["sws"] = <<"cvt_handle", "sws_ctx", "src_frame", "src_buffer",
                          "dst_frame", "dst_buffer">>
  /\ Stg!Steps["ffmpeg"] = <<"enc_handle", "ctx", "codec", "frame", "inbuffer">>
  /\ Stg!Steps["network"] = <<"net_handle", "socket", "connection">>
  /\ Stg!Steps["timestamp"] = <<"tms_handle">>
  BY DEF Stg!Steps

LEMMA StepsAreSequences ==
  ASSUME NEW s \in StageNames
  PROVE  DOMAIN Stg!Steps[s] = 1 .. Len(Stg!Steps[s]) /\ Len(Stg!Steps[s]) \in 1 .. 6
<1>1. CASE s = "ipu"
  BY <1>1, StageSteps
<1>2. CASE s = "soft"
  BY <1>2, StageSteps
<1>3. CASE s = "sws"
  BY <1>3, StageSteps
<1>4. CASE s = "ffmpeg"
  BY <1>4, StageSteps
<1>5. CASE s = "network"
  BY <1>5, StageSteps
<1>6. CASE s = "timestamp"
  BY <1>6, StageSteps
<1>7. QED
  BY <1>1, <1>2, <1>3, <1>4, <1>5, <1>6 DEF StageNames

(* Opening a stage adds at most what closing it releases.                  *)
Opens(s) == Stg!Acquire(s) \/ Stg!Overlook(s) \/ Stg!Fail(s) \/ Stg!Opened(s)

LEMMA OpensItsOwn ==
  ASSUME NEW s \in StageNames, got \in Nat, Opens(s)
  PROVE  got' \in Nat /\ own' \subseteq own \cup Stg!Released(s)
<1>1. got < Len(Stg!Steps[s]) =>
        Stg!Steps[s][got + 1] \in Stg!ToSet(Stg!Steps[s])
  <2>1. got < Len(Stg!Steps[s]) => got + 1 \in DOMAIN Stg!Steps[s]
    BY StepsAreSequences
  <2>2. QED
    BY <2>1 DEF Stg!ToSet
<1>2. QED
  BY <1>1 DEF Opens, Stg!Acquire, Stg!Overlook, Stg!Fail, Stg!Opened, Stg!Wanted,
              Stg!Released

(* By the place, which stages may still have something.                    *)
NetworkOpen ==
  /\ "network" \in stage
  /\ ~Behind({"close_pack", "close_encode", "close_convert", "close_capture",
              "close_timestamp"})

FFmpegOpen ==
  /\ "encode" \in stage /\ platform = "PC"
  /\ ~Behind({"close_convert", "close_capture", "close_timestamp"})

ConverterOpen ==
  /\ "convert" \in stage
  /\ ~Behind({"close_capture", "close_timestamp"})

TimestampOpen == ~Behind({})

(* Nothing is acquired that belongs to none of them.                       *)
OwnAccounted ==
  /\ got \in Nat
  /\ platform \in {"FSL", "PC", "RPI"}
  /\ \A r \in own :
       \/ r \in Stg!Released("network") /\ NetworkOpen
       \/ r \in Stg!Released("ffmpeg") /\ FFmpegOpen
       \/ r \in Stg!Released(Converter) /\ ConverterOpen
       \/ r \in Stg!Released("timestamp") /\ TimestampOpen

(* They are open until main closes them.                                   *)
LEMMA OpenUntilClosed ==
  ASSUME [Next]_vars
  PROVE  /\ NetworkOpen => NetworkOpen' \/ CloseNetwork
         /\ FFmpegOpen => FFmpegOpen' \/ CloseEncode
         /\ ConverterOpen => ConverterOpen' \/ CloseConvert
         /\ TimestampOpen => TimestampOpen' \/ CloseTimestamp
  BY ClosingOrder
     DEF NetworkOpen, FFmpegOpen, ConverterOpen, TimestampOpen, Behind, At,
         ClosePack, CloseEncode, CloseConvert, CloseCapture, CloseTimestamp

(* Who touches what the stages have, and where.                            *)
LEMMA StagesAtWork ==
  ASSUME [Next]_vars, StagesAsked
  PROVE  \/ UNCHANGED stgVars
         \/ Opens(Converter) /\ ConverterOpen
         \/ Opens("ffmpeg") /\ FFmpegOpen
         \/ Opens("network") /\ NetworkOpen
         \/ Opens("timestamp") /\ TimestampOpen
         \/ EncodeFFmpeg /\ FFmpegOpen
         \/ Closing
<1> USE DEF At, NetworkOpen, FFmpegOpen, ConverterOpen, TimestampOpen, Behind
<1>1. CASE OpenConvert
  BY <1>1 DEF OpenConvert, OpenStage, Opens, Skip, NoCall, stgVars
<1>2. CASE OpenEncode
  BY <1>2 DEF OpenEncode, OpenStage, Opens, Skip, NoCall, EncCall, stgVars
<1>3. CASE OpenNetwork \/ OpenTimestamp
  BY <1>3 DEF OpenNetwork, OpenTimestamp, OpenStage, Opens, Skip, NoCall, stgVars
<1>4. CASE EncodeFFmpeg
  BY <1>4 DEF EncodeFFmpeg, StagesAsked
<1>5. CASE OpenCapture \/ OpenPack \/ Start \/ LoopEnds \/ GetImage \/ Capture
           \/ ConvertKills \/ Convert \/ Headers \/ NoHeaders \/ Encode
           \/ Put \/ Send \/ Stop
  BY <1>5 DEF OpenCapture, OpenPack, Start, LoopEnds, GetImage, Capture,
              ConvertKills, Convert, Headers, NoHeaders, Encode, Put, Send, Stop,
              CapCall, EncCall, PacCall, NoCall
<1>6. CASE Device \/ Interrupt \/ Exited \/ UNCHANGED vars
  BY <1>6 DEF Device, Interrupt, Exited, vars
<1>7. QED
  BY <1>1, <1>2, <1>3, <1>4, <1>5, <1>6 DEF Next, Main, Closing

LEMMA OwnStaysAccounted ==
  StagesAsked /\ OwnAccounted /\ [Next]_vars => OwnAccounted'
<1> SUFFICES ASSUME StagesAsked, OwnAccounted, [Next]_vars PROVE OwnAccounted'
  OBVIOUS
<1>1. platform' = platform /\ Converter' = Converter
  BY ClosingOrder DEF Converter
<1>2. Converter \in StageNames
  BY Zenon DEF OwnAccounted, Converter, StageNames
<1>3. \A s : Stg!Released(s)' = Stg!Released(s)
  BY DEF Stg!Released, Stg!Steps, Stg!ToSet
<1>4. CASE UNCHANGED stgVars /\ ~Closing
  BY <1>1, <1>3, <1>4, OpenUntilClosed DEF OwnAccounted, stgVars, Closing
<1>5. CASE Opens(Converter) /\ ConverterOpen /\ ~Closing
  BY <1>1, <1>2, <1>3, <1>5, OpenUntilClosed, OpensItsOwn DEF OwnAccounted, Closing
<1>6. CASE Opens("ffmpeg") /\ FFmpegOpen /\ ~Closing
  BY <1>1, <1>3, <1>6, OpenUntilClosed, OpensItsOwn
     DEF OwnAccounted, Closing, StageNames
<1>7. CASE Opens("network") /\ NetworkOpen /\ ~Closing
  BY <1>1, <1>3, <1>7, OpenUntilClosed, OpensItsOwn
     DEF OwnAccounted, Closing, StageNames
<1>8. CASE Opens("timestamp") /\ TimestampOpen /\ ~Closing
  BY <1>1, <1>3, <1>8, OpenUntilClosed, OpensItsOwn
     DEF OwnAccounted, Closing, StageNames
<1>9. CASE EncodeFFmpeg /\ FFmpegOpen /\ ~Closing
  <2>1. "packet" \in Stg!Released("ffmpeg")
    BY DEF Stg!Released
  <2>2. got' = got /\ own' \subseteq own \cup {"packet"}
    BY <1>9 DEF EncodeFFmpeg
  <2>3. QED
    BY <1>1, <1>3, <1>9, <2>1, <2>2, OpenUntilClosed DEF OwnAccounted, Closing
<1>10. CASE CloseNetwork
  BY <1>1, <1>3, <1>10, OpenUntilClosed
     DEF OwnAccounted, CloseNetwork, CloseStage, Stg!Close, NoCall, stgVars,
         NetworkOpen, CloseEncode, CloseConvert, CloseTimestamp, At
<1>11. CASE ClosePack \/ CloseCapture
  BY <1>1, <1>3, <1>11, OpenUntilClosed
     DEF OwnAccounted, ClosePack, CloseCapture, PacCall, CapCall, NoCall, stgVars,
         CloseNetwork, CloseEncode, CloseConvert, CloseTimestamp, At
<1>12. CASE CloseEncode
  BY <1>1, <1>3, <1>12, OpenUntilClosed
     DEF OwnAccounted, CloseEncode, CloseStage, Stg!Close, EncCall, NoCall, stgVars,
         FFmpegOpen, CloseNetwork, CloseConvert, CloseTimestamp, At
<1>13. CASE CloseConvert
  BY <1>1, <1>3, <1>13, OpenUntilClosed
     DEF OwnAccounted, CloseConvert, CloseStage, Stg!Close, NoCall, stgVars,
         ConverterOpen, CloseNetwork, CloseEncode, CloseTimestamp, At
<1>14. CASE CloseTimestamp
  BY <1>1, <1>3, <1>14, OpenUntilClosed
     DEF OwnAccounted, CloseTimestamp, Stg!Close, CloseNetwork, CloseEncode,
         CloseConvert, At
<1>15. QED
  BY <1>4, <1>5, <1>6, <1>7, <1>8, <1>9, <1>10, <1>11, <1>12, <1>13, <1>14,
     StagesAtWork DEF Closing

(* A program that runs to its end leaves nothing open.                     *)
THEOREM NothingLeftOpen == Spec => []AllClosed
<1>1. Init => CaptureClosed /\ PackerClosed /\ StagesAsked /\ EncoderClosed
              /\ OwnAccounted
  BY DEF Init, CaptureClosed, PackerClosed, StagesAsked, EncoderClosed, OwnAccounted,
         Behind, Enc!Init, Stg!Init
<1>2. CaptureSafe /\ CaptureClosed /\ PackerClosed /\ EncoderClosed
      /\ OwnAccounted => AllClosed
  <2> SUFFICES ASSUME CaptureSafe, CaptureClosed, PackerClosed, EncoderClosed,
                      OwnAccounted, pc = "exit" /\ code = 0
               PROVE  AllClosed
    BY DEF AllClosed
  <2>1. ~fd /\ mapped = {} /\ ~streaming
    BY DEF CaptureSafe, CaptureClosed, Behind, CapP!IInv, CapP!MappingsReleased,
           CapP!HandleConsistent
  <2>2. own = {}
    BY DEF OwnAccounted, NetworkOpen, FFmpegOpen, ConverterOpen, TimestampOpen,
           Behind
  <2>3. enc_pc["enc"] = "closed" /\ (status = "closed" \/ "pack" \notin stage)
    BY DEF EncoderClosed, PackerClosed, Behind
  <2>4. QED
    BY <2>1, <2>2, <2>3 DEF AllClosed
<1>3. QED
  BY <1>1, <1>2, CaptureStaysSafe, CaptureStaysClosed, PackerStaysClosed,
     StagesStayAsked, EncoderStaysClosed, OwnStaysAccounted, PTL DEF Spec

--------------------------------------------------------------------------------
(* The encoder, and the stream.                                            *)

(* The encoder is in a state that VpuEncode's invariant describes.         *)
EncoderSafe == EncP!IInv

(* The two instances of VpuEncode are the same.                            *)
LEMMA SameEncoder ==
  /\ Enc!Open("enc") => EncP!Open("enc")
  /\ Enc!Close("enc") => EncP!Close("enc")
  /\ Enc!GetHeaders("enc") => EncP!GetHeaders("enc")
  BY DEF Enc!Open, EncP!Open, Enc!Close, EncP!Close, Enc!Fresh, EncP!Fresh,
         Enc!NoPic, EncP!NoPic, Enc!statics, EncP!statics,
         Enc!GetHeaders, EncP!GetHeaders, Enc!NoneDue, EncP!NoneDue,
         Enc!CircleComplete, EncP!CircleComplete, Enc!GetSPS, EncP!GetSPS,
         Enc!GetPPS, EncP!GetPPS, Enc!Fetching, EncP!Fetching, Enc!LeaveLoop,
         EncP!LeaveLoop, Enc!Fetch, EncP!Fetch, Enc!MaxHeaders, EncP!MaxHeaders,
         Enc!unfetched, EncP!unfetched, Enc!device, EncP!device

LEMMA SameEncodeDo ==
  /\ Enc!FillAborts("enc") => EncP!FillAborts("enc")
  /\ Enc!EncodeFails("enc") => EncP!EncodeFails("enc")
  /\ Enc!EncodeOk("enc") => EncP!EncodeOk("enc")
  /\ Enc!EncodeSkips("enc") => EncP!EncodeSkips("enc")
  BY DEF Enc!FillAborts, EncP!FillAborts, Enc!EncodeFails, EncP!EncodeFails,
         Enc!EncodeOk, EncP!EncodeOk, Enc!EncodeSkips, EncP!EncodeSkips,
         Enc!Encoding, EncP!Encoding, Enc!StartOneFrame, EncP!StartOneFrame,
         Enc!Intra, EncP!Intra, Enc!Advance, EncP!Advance, Enc!Picture, EncP!Picture,
         Enc!CountPicture, EncP!CountPicture, Enc!statics, EncP!statics,
         Enc!device, EncP!device

(* What is proved of the encoder holds in the programs.                    *)
LEMMA EncoderStaysSafe ==
  /\ Init => EncoderSafe
  /\ EncoderSafe /\ [Next]_vars => EncoderSafe'
<1>1. Init => EncoderSafe
  <2>1. Init => EncP!Init
    BY DEF Init, Enc!Init, EncP!Init, Enc!NoPic, EncP!NoPic
  <2>2. EncP!Init => EncP!IInv
    BY GopAssumption, EncP!InitEstablishesIInv
  <2>3. QED
    BY <2>1, <2>2 DEF EncoderSafe
<1>2. ASSUME EncoderSafe, [Next]_vars PROVE EncoderSafe'
  <2>1. CASE UNCHANGED encVars
    <3>1. UNCHANGED EncP!vars
      BY <2>1 DEF encVars, EncP!vars, EncP!statics, EncP!device
    <3>2. QED
      BY <1>2, <3>1, GopAssumption, EncP!StutterKeepsIInv DEF EncoderSafe
  <2>2. CASE ~UNCHANGED encVars
    <3>1. EncP!Step("enc")
      BY <1>2, <2>2, EncoderAtWork, SameEncoder, SameEncodeDo
         DEF EncP!Step, EncP!EncodeDo
    <3>2. EncP!IInv /\ EncP!Step("enc") => EncP!IInv'
      BY GopAssumption, EncP!StepKeepsIInv
    <3>3. QED
      BY <1>2, <3>1, <3>2 DEF EncoderSafe
  <2>3. QED
    BY <2>1, <2>2
<1>3. QED
  BY <1>1, <1>2

(* Nobody asks for an intra picture, and packets have two bytes.           *)
NothingAsked ==
  /\ asked = [h \in {"enc"} |-> "no"]
  /\ pic["enc"].asked = "no"
  /\ max_pkt_len = 2

LEMMA PackerLength == [Next]_vars => UNCHANGED max_pkt_len
<1> SUFFICES ASSUME [Next]_vars PROVE UNCHANGED max_pkt_len
  OBVIOUS
<1>1. CASE OpenCapture \/ OpenConvert \/ OpenEncode \/ OpenPack \/ OpenNetwork
           \/ OpenTimestamp \/ Start \/ LoopEnds \/ GetImage \/ Capture
  BY <1>1 DEF OpenCapture, OpenConvert, OpenEncode, OpenPack, OpenNetwork,
              OpenTimestamp, OpenStage, Skip, Start, LoopEnds, GetImage, Capture,
              CapCall, StgCall, EncCall, NoCall, pacVars
<1>2. CASE ConvertKills \/ Convert \/ Headers \/ NoHeaders \/ EncodeFFmpeg \/ Encode
           \/ Stop
  BY <1>2 DEF ConvertKills, Convert, Headers, NoHeaders, EncodeFFmpeg, Encode, Stop,
              CapCall, StgCall, EncCall, NoCall, pacVars
<1>3. CASE Put \/ Send
  BY <1>3 DEF Put, Send, Pac!PackPut, Pac!PackGet, Pac!GetSingle, Pac!GetFirstFU,
              Pac!StartNalu, Pac!GetMiddleFU, Pac!GetLastFU, Pac!NextFU,
              Pac!GetNothing, Pac!Abort, Pac!params
<1>4. CASE Closing
  BY <1>4 DEF Closing, CloseNetwork, ClosePack, CloseEncode, CloseConvert,
              CloseCapture, CloseTimestamp, CloseStage, Pac!PackClose, CapCall,
              StgCall, EncCall, NoCall, pacVars
<1>5. CASE Device \/ Interrupt \/ Exited \/ UNCHANGED vars
  BY <1>5 DEF Device, Interrupt, Exited, vars, pacVars
<1>6. QED
  BY <1>1, <1>2, <1>3, <1>4, <1>5 DEF Next, Main, Closing

LEMMA NothingStaysAsked ==
  EncoderSafe /\ NothingAsked /\ [Next]_vars => NothingAsked'
<1> SUFFICES ASSUME EncoderSafe, NothingAsked, [Next]_vars PROVE NothingAsked'
  OBVIOUS
<1>1. DOMAIN pic = {"enc"}
  BY DEF EncoderSafe, EncP!IInv, EncP!TypeOK
<1>2. CASE UNCHANGED encVars
  BY <1>2, PackerLength DEF NothingAsked, encVars
<1>3. CASE Enc!Open("enc") \/ Enc!Close("enc")
  BY <1>1, <1>3, PackerLength
     DEF NothingAsked, Enc!Open, Enc!Close, Enc!Fresh, Enc!NoPic
<1>4. CASE Enc!GetHeaders("enc")
  BY <1>1, <1>4, PackerLength
     DEF NothingAsked, Enc!GetHeaders, Enc!NoneDue, Enc!CircleComplete, Enc!GetSPS,
         Enc!GetPPS, Enc!Fetching, Enc!NoPic, Enc!unfetched
<1>5. CASE Enc!FillAborts("enc") \/ Enc!EncodeFails("enc")
  BY <1>5, PackerLength DEF NothingAsked, Enc!FillAborts, Enc!EncodeFails
<1>6. CASE Enc!EncodeOk("enc") \/ Enc!EncodeSkips("enc")
  BY <1>1, <1>6, PackerLength
     DEF NothingAsked, Enc!EncodeOk, Enc!EncodeSkips, Enc!Picture
<1>7. QED
  BY <1>2, <1>3, <1>4, <1>5, <1>6, EncoderAtWork

(* What the receiver has of the headers, by the place: as much as was      *)
(* fetched, but for the one being sent.                                    *)
HeadersOnWire ==
  platform = "FSL" /\ "pack" \in stage =>
    /\ pc \in Opening \cup {"loop", "capture", "convert"} => headers["enc"] = <<>>
    /\ pc \in {"capture", "convert"} => wire = <<>>
    /\ pc \in {"headers", "encode"} => wire = headers["enc"]
    /\ pc = "encode" => ~hd
    /\ pc = "put" /\ hd => headers["enc"] = Append(wire, Fetched)
    /\ pc = "send" /\ hd =>
         /\ status = "open" /\ inbuf = <<1>> /\ nalu_complete
         /\ \/ next_nalu_ptr = 1 /\ headers["enc"] = Append(wire, Fetched)
            \/ next_nalu_ptr = 0 /\ headers["enc"] = wire
    /\ pc \in {"put", "send"} /\ ~hd =>
         /\ headers["enc"] = <<>>
         /\ pic["enc"].type \in {"I", "P"}
         /\ wire = pic["enc"].headers
         /\ pic["enc"].headers \in {<<>>, Enc!Complete}

(* encode_get_headers fetches one header or none.                          *)
LEMMA FetchesOne ==
  ASSUME EncoderSafe, Enc!GetHeaders("enc")
  PROVE  \/ enc_pc'["enc"] = "encode" /\ headers' = headers
         \/ /\ enc_pc'["enc"] = "headers"
            /\ headers'["enc"] = Append(headers["enc"], Fetched')
<1>1. /\ DOMAIN headers = {"enc"} /\ DOMAIN enc_pc = {"enc"}
      /\ headers["enc"] \in {<<>>, <<"SPS">>, <<"SPS", "PPS">>}
  BY DEF EncoderSafe, EncP!IInv, EncP!TypeOK, EncP!HeadersInOrder, EncP!Complete
<1>2. CASE Enc!NoneDue("enc") \/ Enc!CircleComplete("enc")
  BY <1>1, <1>2 DEF Enc!NoneDue, Enc!CircleComplete, Enc!LeaveLoop, Enc!unfetched
<1>3. ASSUME NEW x \in {"SPS", "PPS"}, Enc!Fetch("enc", x)
      PROVE  /\ enc_pc'["enc"] = "headers"
             /\ headers'["enc"] = Append(headers["enc"], Fetched')
  <2>1. Len(headers["enc"]) # 3
    BY <1>1
  <2>2. enc_pc'["enc"] = "headers" /\ headers'["enc"] = Append(headers["enc"], x)
    BY <1>1, <1>3, <2>1 DEF Enc!Fetch, Enc!MaxHeaders
  <2>3. Append(headers["enc"], x)[Len(Append(headers["enc"], x))] = x
    BY <1>1
  <2>4. QED
    BY <2>2, <2>3 DEF Fetched
<1>4. QED
  BY <1>2, <1>3 DEF Enc!GetHeaders, Enc!GetSPS, Enc!GetPPS

(* The packer sends a header in one packet, with the marker, and then      *)
(* returns 0.                                                              *)
LEMMA SendsHeaderOnce ==
  ASSUME Pac!PackGet, max_pkt_len = 2, status = "open", inbuf = << 1 >>,
         nalu_complete, next_nalu_ptr \in {0, 1}
  PROVE  /\ status' = "open" /\ inbuf' = inbuf /\ nalu_complete'
         /\ next_nalu_ptr' = 0
         /\ next_nalu_ptr = 1 => pkt'.marker = TRUE /\ ~inbuf_complete'
         /\ next_nalu_ptr = 0 => inbuf_complete'
<1>1. /\ Pac!NaluFollows <=> next_nalu_ptr = 1
      /\ next_nalu_ptr = 1 => Pac!NextLen = 1
      /\ Len(inbuf) = 1
  BY DEF Pac!NaluFollows, Pac!NextLen
<1>2. CASE Pac!GetSingle
  BY <1>1, <1>2 DEF Pac!GetSingle, Pac!StartNalu, Pac!TakeNalu, Pac!Emit, Pac!params,
                    Pac!Getting, Pac!NULL
<1>3. CASE Pac!GetNothing
  BY <1>1, <1>3 DEF Pac!GetNothing, Pac!params
<1>4. ~Pac!GetFirstFU
  <2>1. Pac!GetFirstFU => Pac!NaluFollows /\ Pac!NextLen > max_pkt_len
    BY DEF Pac!GetFirstFU, Pac!StartNalu, Pac!TakeNalu
  <2>2. QED
    BY <1>1, <2>1
<1>5. ~Pac!GetMiddleFU /\ ~Pac!GetLastFU
  BY DEF Pac!GetMiddleFU, Pac!GetLastFU, Pac!NextFU
<1>6. ~Pac!Abort
  <2>1. Pac!Abort => Pac!NaluFollows /\ Pac!OutSize > 16
    BY DEF Pac!Abort
  <2>2. Pac!NaluFollows => Pac!OutSize = 13
    BY <1>1 DEF Pac!OutSize
  <2>3. QED
    BY <2>1, <2>2
<1>7. QED
  BY <1>2, <1>3, <1>4, <1>5, <1>6 DEF Pac!PackGet

LEMMA HeadersStayOnWire ==
  EncoderSafe /\ NothingAsked /\ HeadersOnWire /\ [Next]_vars => HeadersOnWire'
<1> SUFFICES ASSUME EncoderSafe, NothingAsked, HeadersOnWire, [Next]_vars,
                    platform = "FSL", "pack" \in stage
             PROVE  HeadersOnWire'
  BY ClosingOrder DEF HeadersOnWire
<1>0. DOMAIN headers = {"enc"} /\ DOMAIN pic = {"enc"}
  BY DEF EncoderSafe, EncP!IInv, EncP!TypeOK
<1> USE DEF HeadersOnWire, At, Goto, Opening
<1>1. CASE OpenCapture \/ OpenConvert \/ OpenPack
  BY <1>1 DEF OpenCapture, OpenConvert, OpenPack, OpenStage, Skip, GiveUp, CapCall,
              StgCall, NoCall, encVars, local
<1>2. CASE OpenEncode
  BY <1>0, <1>2 DEF OpenEncode, OpenStage, Skip, GiveUp, StgCall, NoCall, encVars,
                    local, Enc!Open, Enc!Fresh
<1>3. CASE OpenNetwork \/ OpenTimestamp \/ Start
  BY <1>3 DEF OpenNetwork, OpenTimestamp, Start, OpenStage, Skip, GiveUp, CapCall,
              StgCall, NoCall, encVars, local
<1>4. CASE LoopEnds \/ GetImage \/ Capture
  BY <1>4 DEF LoopEnds, GetImage, Capture, CapCall, NoCall, encVars, local
<1>5. CASE ConvertKills \/ Convert
  BY <1>5 DEF ConvertKills, Convert, NoCall, encVars
<1>6. CASE Headers
  BY <1>6, FetchesOne DEF Headers
<1>7. ~NoHeaders /\ ~EncodeFFmpeg
  BY DEF NoHeaders, EncodeFFmpeg
<1>8. CASE Encode
  <2>1. headers["enc"] \in {<<>>, Enc!Complete} /\ wire' = wire /\ hd' = hd /\ ~hd
    BY <1>8 DEF Encode, EncoderSafe, EncP!IInv, EncP!HeadersInOrder, EncP!Complete,
                Enc!Complete, Enc!Encoding, Enc!FillAborts, Enc!EncodeFails,
                Enc!EncodeOk, Enc!EncodeSkips, Enc!StartOneFrame
  <2>2. headers'["enc"] = <<>>
    BY <1>0, <1>8 DEF Encode, Enc!Encoding, Enc!FillAborts, Enc!EncodeFails,
                Enc!EncodeOk, Enc!EncodeSkips, Enc!StartOneFrame
  <2>3. pc' = "put" => /\ pic'["enc"].type \in {"I", "P"}
                       /\ pic'["enc"].headers = headers["enc"]
    BY <1>0, <1>8 DEF Encode, Enc!EncodeOk, Enc!Picture
  <2>4. pc' \in {"exit", "stop", "put", "loop"}
    BY <1>8 DEF Encode
  <2>5. QED
    BY <1>8, <2>1, <2>2, <2>3, <2>4 DEF Encode, Enc!Complete
<1>9. CASE Put
  BY <1>9 DEF Put, Pac!PackPut, PacCall, encVars, local, Fetched
<1>10. CASE Send
  <2>1. pc = "send" /\ UNCHANGED <<headers, pic, hd>>
    BY <1>10 DEF Send, PacCall, encVars
  <2>2. CASE hd
    <3>1. pc' \in {"send", "headers"} /\ (pc' = "headers" <=> inbuf_complete')
      BY <1>10, <2>2 DEF Send, AfterSending
    <3>2. /\ status' = "open" /\ inbuf' = inbuf /\ nalu_complete'
          /\ next_nalu_ptr' = 0
          /\ next_nalu_ptr = 1 => pkt'.marker = TRUE /\ ~inbuf_complete'
          /\ next_nalu_ptr = 0 => inbuf_complete'
      BY <1>10, <2>2, SendsHeaderOnce DEF Send, NothingAsked
    <3>3. wire' = headers["enc"]
      BY <1>10, <2>2, <3>2 DEF Send
    <3>4. QED
      BY <2>1, <2>2, <3>1, <3>2, <3>3
  <2>3. CASE ~hd
    <3>1. wire' = wire /\ pc' \in {"send", "loop"}
      BY <1>10, <2>3 DEF Send, AfterSending
    <3>2. QED
      BY <2>1, <2>3, <3>1 DEF Enc!Complete
  <2>4. QED
    BY <2>2, <2>3
<1>11. CASE Closing \/ Stop
  BY <1>11 DEF Closing, Stop, CloseNetwork, ClosePack, CloseEncode, CloseConvert,
               CloseCapture, CloseTimestamp, CloseStage
<1>12. CASE Device \/ Interrupt \/ Exited \/ UNCHANGED vars
  BY <1>12 DEF Device, Interrupt, Exited, vars, encVars, pacVars, local, Fetched,
               Enc!Complete
<1>13. QED
  BY <1>1, <1>2, <1>3, <1>4, <1>5, <1>6, <1>7, <1>8, <1>9, <1>10, <1>11, <1>12
     DEF Next, Main, Closing

(* With the VPU, the receiver gets the whole of SPS and PPS before every   *)
(* intra picture and before no other, unless a picture was skipped or      *)
(* failed: for any group of pictures, and pictures of any length.          *)
THEOREM StreamIsDecodable == Spec => []StreamDecodable
<1>1. Init => StagesAsked /\ NothingAsked /\ HeadersOnWire
  BY DEF Init, Enc!Init, Enc!NoPic, Pac!Init, StagesAsked, NothingAsked,
         HeadersOnWire, Opening
<1>2. StagesAsked /\ EncoderSafe /\ NothingAsked /\ HeadersOnWire => StreamDecodable
  <2> SUFFICES ASSUME StagesAsked, EncoderSafe, NothingAsked, HeadersOnWire,
                      platform = "FSL", pc = "send", ~hd, ~pic["enc"].astray
               PROVE  wire = IF pic["enc"].type = "I" THEN <<"SPS", "PPS">> ELSE <<>>
    BY DEF StreamDecodable
  <2>1. "pack" \in stage
    BY DEF StagesAsked
  <2>2. /\ pic["enc"].type \in {"I", "P"}
        /\ wire = pic["enc"].headers
        /\ wire \in {<<>>, <<"SPS", "PPS">>}
    BY <2>1 DEF HeadersOnWire, Enc!Complete
  <2>3. pic["enc"].type = "I" <=> pic["enc"].headers = <<"SPS", "PPS">>
    BY <2>2 DEF EncoderSafe, EncP!IInv, EncP!HeadersBeforeIntra, EncP!Complete,
                NothingAsked
  <2>4. QED
    BY <2>2, <2>3
<1>3. QED
  BY <1>1, <1>2, StagesStayAsked, EncoderStaysSafe, NothingStaysAsked,
     HeadersStayOnWire, PTL DEF Spec

--------------------------------------------------------------------------------
(* A stage is open or closed, not half open.                               *)

Stages == {Converter, "ffmpeg", "network", "timestamp"}

Pieces(s) == Stg!ToSet(Stg!Steps[s])

(* What belongs to each stage, as a set.                                   *)
LEMMA StagePieces ==
  /\ Pieces("ipu") = {"cvt_handle", "ipu_fd", "ipu_in", "ipu_inbuf", "ipu_out",
                      "ipu_outbuf"}
  /\ Pieces("soft") = {"cvt_handle", "cvt_buffer"}
  /\ Pieces("sws") = {"cvt_handle", "sws_ctx", "src_frame", "src_buffer",
                      "dst_frame", "dst_buffer"}
  /\ Pieces("ffmpeg") = {"enc_handle", "ctx", "codec", "frame", "inbuffer"}
  /\ Pieces("network") = {"net_handle", "socket", "connection"}
  /\ Pieces("timestamp") = {"tms_handle"}
<1>1. Pieces("ipu") = {"cvt_handle", "ipu_fd", "ipu_in", "ipu_inbuf", "ipu_out",
                       "ipu_outbuf"}
  BY StageSteps DEF Pieces, Stg!ToSet
<1>2. Pieces("soft") = {"cvt_handle", "cvt_buffer"}
  BY StageSteps DEF Pieces, Stg!ToSet
<1>3. Pieces("sws") = {"cvt_handle", "sws_ctx", "src_frame", "src_buffer",
                       "dst_frame", "dst_buffer"}
  BY StageSteps DEF Pieces, Stg!ToSet
<1>4. Pieces("ffmpeg") = {"enc_handle", "ctx", "codec", "frame", "inbuffer"}
  BY StageSteps DEF Pieces, Stg!ToSet
<1>5. Pieces("network") = {"net_handle", "socket", "connection"}
  BY StageSteps DEF Pieces, Stg!ToSet
<1>6. Pieces("timestamp") = {"tms_handle"}
  BY StageSteps DEF Pieces, Stg!ToSet
<1>7. QED
  BY <1>1, <1>2, <1>3, <1>4, <1>5, <1>6

LEMMA ConverterKinds ==
  ASSUME platform \in {"FSL", "PC", "RPI"}
  PROVE  Converter \in {"ipu", "sws", "soft"} /\ Stages \subseteq StageNames
<1>1. Converter \in {"ipu", "sws", "soft"}
  BY Zenon DEF Converter
<1>2. QED
  BY <1>1 DEF Stages, StageNames

(* Nothing belongs to two of a program's stages.                           *)
LEMMA PiecesApart ==
  ASSUME platform \in {"FSL", "PC", "RPI"},
         NEW s \in Stages, NEW t \in Stages, s # t
  PROVE  Pieces(s) \cap Pieces(t) = {} /\ Pieces(s) \cap Stg!Released(t) = {}
<1>1. Pieces(s) \cap Pieces(t) = {} /\ "packet" \notin Pieces(s)
  BY ConverterKinds, StagePieces DEF Stages
<1>2. QED
  BY <1>1 DEF Stg!Released, Pieces

(* Where main opens a stage, if it does, and where it has not come to it.  *)
Turn(s) ==
  \/ s = Converter /\ pc = "open_convert" /\ "convert" \in stage
  \/ s = "ffmpeg" /\ pc = "open_encode" /\ "encode" \in stage /\ platform = "PC"
  \/ s = "network" /\ pc = "open_network" /\ "network" \in stage
  \/ s = "timestamp" /\ pc = "open_timestamp" /\ program = "cktool"

Early(s) ==
  \/ pc = "open_capture"
  \/ s # Converter /\ pc = "open_convert"
  \/ s \in {"network", "timestamp"} /\ pc \in {"open_encode", "open_pack"}
  \/ s = "timestamp" /\ pc = "open_network"

Untouched(s) == Pieces(s) \cap own = {}

(* It has what it has got so far, but for mappings that failed unnoticed.  *)
Partly(s) ==
  /\ got <= Len(Stg!Steps[s])
  /\ \A i \in DOMAIN Stg!Steps[s] :
       /\ Stg!Steps[s][i] \in own => i <= got
       /\ i <= got /\ Stg!Steps[s][i] \notin Stg!Mappings => Stg!Steps[s][i] \in own

OpenedInTurn ==
  /\ got \in Nat
  /\ platform \in {"FSL", "PC", "RPI"}
  /\ got # 0 => \E s \in Stages : Turn(s)
  /\ \A s \in Stages : /\ Early(s) => Untouched(s)
                       /\ Turn(s) => Partly(s)
                       /\ ~Turn(s) => Stg!Whole(s)

(* A stage of which nothing is got, or all of it.                          *)
LEMMA NothingOrAll ==
  ASSUME NEW s \in StageNames
  PROVE  /\ Untouched(s) => Stg!Whole(s)
         /\ Untouched(s) /\ got = 0 => Partly(s)
         /\ Partly(s) /\ got = 0 => Untouched(s)
         /\ Partly(s) /\ got = Len(Stg!Steps[s]) => Stg!Whole(s)
<1>1. /\ DOMAIN Stg!Steps[s] = 1 .. Len(Stg!Steps[s])
      /\ Len(Stg!Steps[s]) \in 1 .. 6
  BY StepsAreSequences
<1>2. \A r : r \in Pieces(s) <=> \E i \in DOMAIN Stg!Steps[s] : r = Stg!Steps[s][i]
  BY DEF Pieces, Stg!ToSet
<1>3. Untouched(s) => Stg!Whole(s)
  BY DEF Untouched, Pieces, Stg!Whole
<1>4. Untouched(s) /\ got = 0 => Partly(s)
  BY <1>1, <1>2 DEF Untouched, Partly
<1>5. Partly(s) /\ got = 0 => Untouched(s)
  BY <1>1, <1>2 DEF Untouched, Partly
<1>6. Partly(s) /\ got = Len(Stg!Steps[s]) => Stg!Whole(s)
  BY <1>1, <1>2 DEF Partly, Stg!Whole, Pieces
<1>7. QED
  BY <1>3, <1>4, <1>5, <1>6

(* No two steps of a stage acquire the same.                               *)
LEMMA StepsDiffer ==
  ASSUME NEW s \in StageNames, NEW i \in DOMAIN Stg!Steps[s],
         NEW j \in DOMAIN Stg!Steps[s], Stg!Steps[s][i] = Stg!Steps[s][j]
  PROVE  i = j
<1>1. CASE s = "ipu"
  BY <1>1, StageSteps
<1>2. CASE s = "soft"
  BY <1>2, StageSteps
<1>3. CASE s = "sws"
  BY <1>3, StageSteps
<1>4. CASE s = "ffmpeg"
  BY <1>4, StageSteps
<1>5. CASE s = "network"
  BY <1>5, StageSteps
<1>6. CASE s = "timestamp"
  BY <1>6, StageSteps
<1>7. QED
  BY <1>1, <1>2, <1>3, <1>4, <1>5, <1>6 DEF StageNames

(* What stands behind the labels, and where a failure goes.                *)
LEMMA StageLabels ==
  /\ Stg!Labels["soft"] = <<"cvt_handle">>
  /\ Stg!Labels["sws"] = <<"dst_frame", "src_buffer", "src_frame", "sws_ctx",
                           "cvt_handle">>
  /\ Stg!Labels["ffmpeg"] = <<"frame", "codec", "ctx", "enc_handle">>
  /\ Stg!Labels["network"] = <<"socket", "net_handle">>
  /\ Stg!Labels["timestamp"] = <<>>
  BY DEF Stg!Labels

LEMMA StageGotos ==
  /\ Stg!Goto["soft"]["cvt_handle"] = 2 /\ Stg!Goto["soft"]["cvt_buffer"] = 1
  /\ Stg!Goto["sws"]["cvt_handle"] = 6 /\ Stg!Goto["sws"]["sws_ctx"] = 5
  /\ Stg!Goto["sws"]["src_frame"] = 4 /\ Stg!Goto["sws"]["src_buffer"] = 3
  /\ Stg!Goto["sws"]["dst_frame"] = 2 /\ Stg!Goto["sws"]["dst_buffer"] = 1
  /\ Stg!Goto["ffmpeg"]["enc_handle"] = 5 /\ Stg!Goto["ffmpeg"]["ctx"] = 4
  /\ Stg!Goto["ffmpeg"]["codec"] = 3 /\ Stg!Goto["ffmpeg"]["frame"] = 2
  /\ Stg!Goto["ffmpeg"]["inbuffer"] = 1
  /\ Stg!Goto["network"]["net_handle"] = 3 /\ Stg!Goto["network"]["socket"] = 2
  /\ Stg!Goto["network"]["connection"] = 1
  /\ Stg!Goto["timestamp"]["tms_handle"] = 1
  BY DEF Stg!Goto

(* What a failure releases covers what is got, whichever step fails.       *)
LEMMA LabelsRelease ==
  ASSUME NEW s \in StageNames, s # "ipu", got \in Nat, got < Len(Stg!Steps[s])
  PROVE  /\ \A i \in 1 .. got : Stg!Steps[s][i] \in Stg!Undone(s, Stg!Wanted(s))
         /\ Stg!Undone(s, Stg!Wanted(s)) \subseteq Pieces(s)
<1> DEFINE r == Stg!Wanted(s)
           L == Stg!Labels[s]
           g == Stg!Goto[s][r]
<1>1. Stg!Undone(s, r) = {L[i] : i \in g .. Len(L)}
  BY DEF Stg!Undone
<1>2. r = Stg!Steps[s][got + 1]
  BY DEF Stg!Wanted
<1>3. CASE s = "soft"
  <2>1. got \in {0, 1} /\ L = <<"cvt_handle">> /\ Stg!Steps[s][1] = "cvt_handle"
    BY <1>3, StageSteps, StageLabels
  <2>2. got = 0 => g = 2
    BY <1>2, <1>3, StageSteps, StageGotos
  <2>3. got = 1 => g = 1
    BY <1>2, <1>3, StageSteps, StageGotos
  <2> HIDE DEF L, g, r
  <2>4. QED
    BY <1>1, <1>3, <2>1, <2>2, <2>3, StagePieces DEF r
<1>4. CASE s = "sws"
  <2>1. /\ got \in 0 .. 5 /\ Len(L) = 5
        /\ L[1] = "dst_frame" /\ L[2] = "src_buffer" /\ L[3] = "src_frame"
        /\ L[4] = "sws_ctx" /\ L[5] = "cvt_handle"
        /\ Stg!Steps[s][1] = "cvt_handle" /\ Stg!Steps[s][2] = "sws_ctx"
        /\ Stg!Steps[s][3] = "src_frame" /\ Stg!Steps[s][4] = "src_buffer"
        /\ Stg!Steps[s][5] = "dst_frame" /\ Stg!Steps[s][6] = "dst_buffer"
    BY <1>4, StageSteps, StageLabels
  <2>2. g = 6 - got
    <3>1. got = 0 => g = 6
      BY <1>2, <1>4, <2>1, StageGotos
    <3>2. got = 1 => g = 5
      BY <1>2, <1>4, <2>1, StageGotos
    <3>3. got = 2 => g = 4
      BY <1>2, <1>4, <2>1, StageGotos
    <3>4. got = 3 => g = 3
      BY <1>2, <1>4, <2>1, StageGotos
    <3>5. got = 4 => g = 2
      BY <1>2, <1>4, <2>1, StageGotos
    <3>6. got = 5 => g = 1
      BY <1>2, <1>4, <2>1, StageGotos
    <3> HIDE DEF g
    <3>7. QED
      BY <2>1, <3>1, <3>2, <3>3, <3>4, <3>5, <3>6
  <2> HIDE DEF L, g, r
  <2>3. QED
    BY <1>1, <1>4, <2>1, <2>2, StagePieces DEF r
<1>5. CASE s = "ffmpeg"
  <2>1. /\ got \in 0 .. 4 /\ Len(L) = 4
        /\ L[1] = "frame" /\ L[2] = "codec" /\ L[3] = "ctx" /\ L[4] = "enc_handle"
        /\ Stg!Steps[s][1] = "enc_handle" /\ Stg!Steps[s][2] = "ctx"
        /\ Stg!Steps[s][3] = "codec" /\ Stg!Steps[s][4] = "frame"
        /\ Stg!Steps[s][5] = "inbuffer"
    BY <1>5, StageSteps, StageLabels
  <2>2. g = 5 - got
    BY <1>2, <1>5, <2>1, StageGotos
  <2> HIDE DEF L, g, r
  <2>3. QED
    BY <1>1, <1>5, <2>1, <2>2, StagePieces DEF r
<1>6. CASE s = "network"
  <2>1. /\ got \in 0 .. 2 /\ Len(L) = 2
        /\ L[1] = "socket" /\ L[2] = "net_handle"
        /\ Stg!Steps[s][1] = "net_handle" /\ Stg!Steps[s][2] = "socket"
        /\ Stg!Steps[s][3] = "connection"
    BY <1>6, StageSteps, StageLabels
  <2>2. g = 3 - got
    BY <1>2, <1>6, <2>1, StageGotos
  <2> HIDE DEF L, g, r
  <2>3. QED
    BY <1>1, <1>6, <2>1, <2>2, StagePieces DEF r
<1>7. CASE s = "timestamp"
  <2>1. got = 0 /\ Len(L) = 0 /\ Stg!Steps[s][1] = "tms_handle"
    BY <1>7, StageSteps, StageLabels
  <2>2. g = 1
    BY <1>2, <1>7, <2>1, StageGotos
  <2> HIDE DEF L, g, r
  <2>3. QED
    BY <1>1, <1>7, <2>1, <2>2, StagePieces DEF r
<1>8. QED
  BY <1>3, <1>4, <1>5, <1>6, <1>7 DEF StageNames

(* The way out of a function that fails releases what it has acquired and  *)
(* nothing of another stage, whatever label it takes.                      *)
LEMMA WaysOut ==
  ASSUME NEW s \in StageNames, Partly(s), got \in Nat, Stg!Fail(s)
  PROVE  Untouched(s)' /\ got' = 0 /\ own' \subseteq own /\ own \ own' \subseteq Pieces(s)
<1> DEFINE r == Stg!Wanted(s)
<1>1. /\ got < Len(Stg!Steps[s]) /\ own' = own \ Stg!Undone(s, r) /\ got' = 0
      /\ r = Stg!Steps[s][got + 1]
  BY DEF Stg!Fail, Stg!Wanted
<1>2. Pieces(s)' = Pieces(s)
  BY DEF Pieces, Stg!Steps, Stg!ToSet
<1>3. CASE s = "ipu"
  <2>1. /\ r # "cvt_handle" => Stg!Undone(s, r) = own \cap Pieces(s)
        /\ r = "cvt_handle" => Stg!Undone(s, r) = {} /\ got = 0
    <3>1. r = "cvt_handle" => got = 0
      BY <1>1, <1>3, StageSteps
    <3>2. QED
      BY <1>3, <3>1 DEF Stg!Undone, Pieces
  <2>2. got = 0 => Untouched(s)
    BY NothingOrAll
  <2>3. QED
    BY <1>1, <1>2, <2>1, <2>2 DEF Untouched
<1>4. CASE s # "ipu"
  <2>1. /\ \A i \in 1 .. got : Stg!Steps[s][i] \in Stg!Undone(s, r)
        /\ Stg!Undone(s, r) \subseteq Pieces(s)
    BY <1>1, <1>4, LabelsRelease
  <2>2. ASSUME NEW x \in Pieces(s), x \in own PROVE x \in Stg!Undone(s, r)
    <3>1. PICK i \in DOMAIN Stg!Steps[s] : x = Stg!Steps[s][i]
      BY DEF Pieces, Stg!ToSet
    <3>2. i <= got /\ i \in 1 .. got
      BY <2>2, <3>1, StepsAreSequences DEF Partly
    <3>3. QED
      BY <2>1, <3>1, <3>2
  <2>3. QED
    BY <1>1, <1>2, <2>1, <2>2 DEF Untouched
<1>5. QED
  BY <1>3, <1>4

(* main comes to each stage once.                                          *)
LEMMA OpeningOrder ==
  ASSUME [Next]_vars, platform \in {"FSL", "PC", "RPI"}, NEW s
  PROVE  /\ Converter' = Converter
         /\ Early(s)' => Early(s)
         /\ Turn(s)' => Turn(s) \/ Early(s)
<1>0. Converter \notin {"ffmpeg", "network", "timestamp"}
  BY ConverterKinds
<1>1. UNCHANGED <<platform, program, stage>>
  BY ClosingOrder
<1>2. Converter' = Converter
  BY <1>1 DEF Converter
<1> USE <1>0, <1>1, <1>2 DEF Early, Turn, At, Goto
<1>3. CASE OpenCapture \/ OpenConvert
  <2>1. pc' \in {"open_capture", "open_convert", "open_encode", "exit"}
        /\ (pc' = "open_capture" => pc = "open_capture")
    BY <1>3 DEF OpenCapture, OpenConvert, OpenStage, Skip, GiveUp
  <2>2. QED
    BY <1>3, <2>1 DEF OpenCapture, OpenConvert
<1>4. CASE OpenEncode \/ OpenPack
  BY <1>4 DEF OpenEncode, OpenPack, OpenStage, Skip, GiveUp
<1>5. CASE OpenNetwork \/ OpenTimestamp \/ Start \/ LoopEnds \/ GetImage \/ Capture
  BY <1>5 DEF OpenNetwork, OpenTimestamp, Start, LoopEnds, GetImage, Capture,
              OpenStage, Skip, GiveUp
<1>6. CASE ConvertKills \/ Convert \/ Headers \/ NoHeaders \/ EncodeFFmpeg
           \/ Encode \/ Put \/ Send
  BY <1>6 DEF ConvertKills, Convert, Headers, NoHeaders, EncodeFFmpeg, Encode,
              Put, Send, AfterSending
<1>7. CASE Closing \/ Stop
  BY <1>7 DEF Closing, Stop, CloseNetwork, ClosePack, CloseEncode, CloseConvert,
              CloseCapture, CloseTimestamp, CloseStage
<1>8. CASE Device \/ Interrupt \/ Exited \/ UNCHANGED vars
  BY <1>8 DEF Device, Interrupt, Exited, vars
<1>9. QED
  BY <1>3, <1>4, <1>5, <1>6, <1>7, <1>8 DEF Next, Main, Closing

(* What a step does to the stages: one is opened further when it is its    *)
(* turn, and one is closed, or given another packet, when none has.        *)
OpensFurther(s) ==
  /\ Turn(s)
  /\ \/ (Stg!Acquire(s) \/ Stg!Overlook(s)) /\ Turn(s)'
     \/ (Stg!Fail(s) \/ Stg!Opened(s)) /\ ~Turn(s)'

LEMMA InTurn ==
  ASSUME [Next]_vars, platform \in {"FSL", "PC", "RPI"}
  PROVE  \/ UNCHANGED stgVars /\ \A s \in Stages : Turn(s) /\ got # 0 => Turn(s)'
         \/ \E s \in Stages : OpensFurther(s)
         \/ /\ \A s \in Stages : ~Turn(s)
            /\ got' = got /\ own' \cup {"packet"} = own \cup {"packet"}
         \/ /\ \A s \in Stages : ~Turn(s)
            /\ \E s \in Stages : Stg!Close(s)
<1>0. /\ UNCHANGED <<platform, program, stage>> /\ Converter' = Converter
      /\ Converter \notin {"ffmpeg", "network", "timestamp"}
  BY ClosingOrder, OpeningOrder, ConverterKinds
<1> USE <1>0 DEF Turn, At, Goto
<1>1. CASE OpenConvert
  <2>1. CASE "convert" \in stage
    <3>1. PICK s \in Stages : s = Converter
      BY DEF Stages
    <3>2. /\ Opens(s) /\ Turn(s)
          /\ \/ pc' = pc /\ (Stg!Acquire(s) \/ Stg!Overlook(s))
             \/ pc' \in {"open_encode", "exit"} /\ (Stg!Fail(s) \/ Stg!Opened(s))
      <4>1. OpenStage(Converter, "open_encode")
        BY <1>1, <2>1 DEF OpenConvert, Skip
      <4>2. QED
        BY <1>1, <2>1, <3>1, <4>1
           DEF OpenConvert, OpenStage, GiveUp, Opens, Stg!Acquire, Stg!Overlook,
               Stg!Fail, Stg!Opened, Stg!Wanted, Stg!Undone, Stg!Steps
    <3>3. OpensFurther(s)
      BY <1>1, <2>1, <3>1, <3>2 DEF OpenConvert, OpensFurther
    <3>4. QED
      BY <3>3
  <2>2. CASE "convert" \notin stage
    <3>1. \A s \in Stages : ~Turn(s)
      BY <1>1, <2>2 DEF OpenConvert
    <3>2. UNCHANGED stgVars
      BY <1>1, <2>2 DEF OpenConvert, Skip, NoCall
    <3>3. QED
      BY <3>1, <3>2
  <2>3. QED
    BY <2>1, <2>2
<1>2. CASE OpenEncode
  <2>1. CASE OpenStage("ffmpeg", "open_pack") /\ "encode" \in stage /\ platform = "PC"
    <3>1. OpensFurther("ffmpeg")
      BY <1>2, <2>1 DEF OpenEncode, OpenStage, GiveUp, OpensFurther
    <3>2. QED
      BY <3>1 DEF Stages
  <2>2. CASE ~(OpenStage("ffmpeg", "open_pack") /\ "encode" \in stage /\ platform = "PC")
    BY <1>2, <2>2 DEF OpenEncode, Skip, NoCall, EncCall, stgVars
  <2>3. QED
    BY <2>1, <2>2
<1>3. CASE OpenNetwork
  <2>1. CASE OpenStage("network", "open_timestamp") /\ "network" \in stage
    <3>1. OpensFurther("network")
      BY <1>3, <2>1 DEF OpenNetwork, OpenStage, GiveUp, OpensFurther
    <3>2. QED
      BY <3>1 DEF Stages
  <2>2. CASE ~(OpenStage("network", "open_timestamp") /\ "network" \in stage)
    BY <1>3, <2>2 DEF OpenNetwork, Skip, NoCall, stgVars
  <2>3. QED
    BY <2>1, <2>2
<1>4. CASE OpenTimestamp
  <2>1. CASE program = "cktool" /\ StgCall
    <3>1. OpensFurther("timestamp")
      BY <1>4, <2>1 DEF OpenTimestamp, OpensFurther
    <3>2. QED
      BY <3>1 DEF Stages
  <2>2. CASE ~(program = "cktool" /\ StgCall)
    BY <1>4, <2>2 DEF OpenTimestamp, NoCall, stgVars
  <2>3. QED
    BY <2>1, <2>2
<1>5. CASE EncodeFFmpeg
  <2>1. \A s \in Stages : ~Turn(s)
    BY <1>5 DEF EncodeFFmpeg
  <2>2. got' = got /\ own' \cup {"packet"} = own \cup {"packet"}
    BY <1>5 DEF EncodeFFmpeg
  <2>3. QED
    BY <2>1, <2>2
<1>6. CASE OpenCapture \/ OpenPack \/ Start \/ LoopEnds \/ GetImage \/ Capture
           \/ ConvertKills \/ Convert \/ Headers \/ NoHeaders \/ Encode
           \/ Put \/ Send \/ Stop
  BY <1>6 DEF OpenCapture, OpenPack, Start, LoopEnds, GetImage, Capture,
              ConvertKills, Convert, Headers, NoHeaders, Encode, Put, Send, Stop,
              CapCall, EncCall, PacCall, NoCall
<1>7. CASE Closing
  <2>1. \A s \in Stages : ~Turn(s)
    BY <1>7 DEF Closing, CloseNetwork, ClosePack, CloseEncode, CloseConvert,
                CloseCapture, CloseTimestamp
  <2>2. UNCHANGED stgVars \/ \E s \in Stages : Stg!Close(s)
    BY <1>7 DEF Closing, CloseNetwork, ClosePack, CloseEncode, CloseConvert,
                CloseCapture, CloseTimestamp, CloseStage, CapCall, EncCall, PacCall,
                NoCall, Stages
  <2>3. QED
    BY <2>1, <2>2
<1>8. CASE Device \/ Interrupt \/ Exited \/ UNCHANGED vars
  BY <1>8 DEF Device, Interrupt, Exited, vars
<1>9. QED
  BY <1>1, <1>2, <1>3, <1>4, <1>5, <1>6, <1>7, <1>8 DEF Next, Main, Closing

(* A stage that a step leaves alone stays as it is.                        *)
LEMMA LeftAlone ==
  ASSUME NEW s \in StageNames, \A r \in Pieces(s) : r \in own' <=> r \in own
  PROVE  /\ Untouched(s) => Untouched(s)'
         /\ Stg!Whole(s) => Stg!Whole(s)'
         /\ Partly(s) /\ got' = got => Partly(s)'
         /\ Untouched(s) /\ got' = 0 => Partly(s)'
<1>1. Pieces(s)' = Pieces(s) /\ Stg!Steps' = Stg!Steps
  BY DEF Pieces, Stg!Steps, Stg!ToSet
<1>2. \A i \in DOMAIN Stg!Steps[s] : Stg!Steps[s][i] \in Pieces(s)
  BY DEF Pieces, Stg!ToSet
<1>3. Untouched(s) => Untouched(s)'
  BY <1>1 DEF Untouched
<1>4. Stg!Whole(s) => Stg!Whole(s)'
  <2>1. Stg!Whole(s) <=> Pieces(s) \ Stg!Mappings \subseteq own \/ Pieces(s) \cap own = {}
    BY DEF Stg!Whole, Pieces
  <2>2. Stg!Whole(s)' <=> \/ Pieces(s) \ Stg!Mappings \subseteq own'
                          \/ Pieces(s) \cap own' = {}
    BY <1>1 DEF Stg!Whole, Pieces, Stg!Mappings
  <2>3. QED
    BY <2>1, <2>2
<1>5. Partly(s) /\ got' = got => Partly(s)'
  BY <1>1, <1>2 DEF Partly, Stg!Mappings
<1>6. Untouched(s) /\ got' = 0 => Partly(s)'
  BY <1>1, <1>2, StepsAreSequences DEF Untouched, Partly
<1>7. QED
  BY <1>3, <1>4, <1>5, <1>6

(* One step of opening.                                                    *)
LEMMA OpensOn ==
  ASSUME NEW s \in StageNames, got \in Nat, Partly(s)
  PROVE  /\ Stg!Acquire(s) \/ Stg!Overlook(s) => Partly(s)' /\ got' \in Nat
         /\ Stg!Fail(s) => Untouched(s)' /\ got' = 0
         /\ Stg!Opened(s) => Stg!Whole(s)' /\ got' = 0
         /\ OpensFurther(s) => \A r : r \notin Pieces(s) => (r \in own' <=> r \in own)
<1> DEFINE next == Stg!Steps[s][got + 1]
<1>1. /\ DOMAIN Stg!Steps[s] = 1 .. Len(Stg!Steps[s])
      /\ Len(Stg!Steps[s]) \in 1 .. 6
  BY StepsAreSequences
<1>2. Stg!Steps' = Stg!Steps
  BY DEF Stg!Steps
<1>3. got < Len(Stg!Steps[s]) => got + 1 \in DOMAIN Stg!Steps[s] /\ next \in Pieces(s)
  <2>1. got < Len(Stg!Steps[s]) => got + 1 \in DOMAIN Stg!Steps[s]
    BY <1>1
  <2>2. QED
    BY <2>1 DEF Pieces, Stg!ToSet
<1>4. ASSUME Stg!Acquire(s) \/ Stg!Overlook(s)
      PROVE  Partly(s)' /\ got' \in Nat
  <2>1. /\ got < Len(Stg!Steps[s]) /\ got' = got + 1
        /\ \/ own' = own \cup {next}
           \/ own' = own /\ next \in Stg!Mappings
    BY <1>4 DEF Stg!Acquire, Stg!Overlook, Stg!Wanted
  <2>2. ASSUME NEW i \in DOMAIN Stg!Steps[s]
        PROVE  /\ Stg!Steps[s][i] \in own' => i <= got + 1
               /\ i <= got + 1 /\ Stg!Steps[s][i] \notin Stg!Mappings =>
                    Stg!Steps[s][i] \in own'
    <3>1. i \in Nat /\ (i <= got + 1 => i <= got \/ i = got + 1)
      BY <1>1
    <3>2. Stg!Steps[s][i] = next => i = got + 1
      BY <1>3, <2>1, StepsDiffer
    <3>3. /\ Stg!Steps[s][i] \in own => i <= got
          /\ i <= got /\ Stg!Steps[s][i] \notin Stg!Mappings => Stg!Steps[s][i] \in own
      BY DEF Partly
    <3>4. Stg!Steps[s][i] \in own' => i <= got + 1
      BY <2>1, <3>1, <3>2, <3>3
    <3>5. i <= got + 1 /\ Stg!Steps[s][i] \notin Stg!Mappings => Stg!Steps[s][i] \in own'
      BY <2>1, <3>1, <3>3
    <3>6. QED
      BY <3>4, <3>5
  <2>3. got + 1 <= Len(Stg!Steps[s])
    BY <1>1, <2>1
  <2>4. Stg!Mappings' = Stg!Mappings
    BY DEF Stg!Mappings
  <2>5. QED
    BY <1>2, <2>1, <2>2, <2>3, <2>4 DEF Partly
<1>5. Stg!Fail(s) => Untouched(s)' /\ got' = 0
  BY WaysOut
<1>6. Stg!Opened(s) => Stg!Whole(s)' /\ got' = 0
  BY NothingOrAll, LeftAlone DEF Stg!Opened
<1>7. ASSUME OpensFurther(s), NEW r, r \notin Pieces(s)
      PROVE  r \in own' <=> r \in own
  <2>1. CASE Stg!Acquire(s)
    BY <1>3, <1>7, <2>1 DEF Stg!Acquire, Stg!Wanted
  <2>2. CASE Stg!Overlook(s) \/ Stg!Opened(s)
    BY <2>2 DEF Stg!Overlook, Stg!Opened
  <2>3. CASE Stg!Fail(s)
    BY <1>7, <2>3, WaysOut
  <2>4. QED
    BY <1>7, <2>1, <2>2, <2>3 DEF OpensFurther
<1>8. QED
  BY <1>4, <1>5, <1>6, <1>7

LEMMA StaysInTurn == OpenedInTurn /\ [Next]_vars => OpenedInTurn'
<1> SUFFICES ASSUME OpenedInTurn, [Next]_vars PROVE OpenedInTurn'
  OBVIOUS
<1>1. /\ UNCHANGED platform /\ platform \in {"FSL", "PC", "RPI"} /\ got \in Nat
      /\ Stages' = Stages /\ Stages \subseteq StageNames
      /\ got # 0 => \E s \in Stages : Turn(s)
  <2>1. platform \in {"FSL", "PC", "RPI"}
    BY DEF OpenedInTurn
  <2>2. Converter' = Converter
    BY <2>1, OpeningOrder
  <2>3. QED
    BY <2>1, <2>2, ClosingOrder, ConverterKinds DEF OpenedInTurn, Stages
<1>2. \A s \in Stages : /\ Early(s) => Untouched(s)
                        /\ Turn(s) => Partly(s)
                        /\ ~Turn(s) => Stg!Whole(s)
  BY DEF OpenedInTurn
<1>3. \A s \in Stages : /\ Early(s)' => Early(s)
                        /\ Turn(s)' => Turn(s) \/ Early(s)
                        /\ Turn(s) => ~Early(s)
  BY <1>1, OpeningOrder, ConverterKinds DEF Turn, Early
<1>4. \A s, t \in Stages : /\ Turn(s) /\ Turn(t) => s = t
                           /\ Turn(s)' /\ Turn(t)' => s = t
  BY <1>1, OpeningOrder DEF Turn
(* Enough: each stage is as it should be, having been so.                  *)
<1>5. CASE UNCHANGED stgVars /\ \A s \in Stages : Turn(s) /\ got # 0 => Turn(s)'
  <2>1. got' \in Nat /\ (got' # 0 => \E s \in Stages : Turn(s)')
    BY <1>1, <1>5 DEF stgVars
  <2>2. ASSUME NEW s \in Stages
        PROVE  /\ Early(s)' => Untouched(s)'
               /\ Turn(s)' => Partly(s)'
               /\ ~Turn(s)' => Stg!Whole(s)'
    <3>1. /\ Untouched(s) => Untouched(s)'
          /\ Stg!Whole(s) => Stg!Whole(s)'
          /\ Partly(s) => Partly(s)'
      BY <1>1, <1>5, LeftAlone DEF stgVars
    <3>2. Turn(s)' => Partly(s)
      <4>1. SUFFICES ASSUME Turn(s)', ~Turn(s) PROVE Partly(s)
        BY <1>2
      <4>2. Untouched(s)
        BY <1>2, <1>3, <4>1
      <4>3. got = 0
        BY <1>1, <1>4, <1>5, <4>1
      <4>4. QED
        BY <1>1, <4>2, <4>3, NothingOrAll
    <3>3. ~Turn(s)' => Stg!Whole(s)
      <4>1. SUFFICES ASSUME ~Turn(s)', Turn(s) PROVE Stg!Whole(s)
        BY <1>2
      <4>2. got = 0 /\ Partly(s)
        BY <1>2, <1>5, <4>1
      <4>3. QED
        BY <1>1, <4>2, NothingOrAll
    <3>4. QED
      BY <1>2, <1>3, <3>1, <3>2, <3>3
  <2>3. QED
    BY <1>1, <2>1, <2>2 DEF OpenedInTurn
<1>6. ASSUME NEW s \in Stages, OpensFurther(s) PROVE OpenedInTurn'
  <2>1. Turn(s) /\ Partly(s) /\ s \in StageNames
    BY <1>1, <1>2, <1>6 DEF OpensFurther
  <2>2. /\ Stg!Acquire(s) \/ Stg!Overlook(s) => Partly(s)' /\ got' \in Nat
        /\ Stg!Fail(s) => Untouched(s)' /\ got' = 0
        /\ Stg!Opened(s) => Stg!Whole(s)' /\ got' = 0
        /\ \A r : r \notin Pieces(s) => (r \in own' <=> r \in own)
    BY <1>1, <1>6, <2>1, OpensOn
  <2>3. /\ got' \in Nat /\ (got' # 0 => Turn(s)')
        /\ ~Early(s)'
        /\ Turn(s)' => Partly(s)'
        /\ ~Turn(s)' => Stg!Whole(s)'
    <3>1. CASE (Stg!Acquire(s) \/ Stg!Overlook(s)) /\ Turn(s)'
      BY <1>3, <2>1, <2>2, <3>1
    <3>2. CASE (Stg!Fail(s) \/ Stg!Opened(s)) /\ ~Turn(s)'
      <4>1. Untouched(s)' => Stg!Whole(s)'
        BY DEF Untouched, Pieces, Stg!Whole
      <4>2. QED
        BY <1>3, <2>1, <2>2, <3>2, <4>1
    <3>3. QED
      BY <1>6, <3>1, <3>2 DEF OpensFurther
  <2>4. ASSUME NEW t \in Stages, t # s
        PROVE  /\ Early(t)' => Untouched(t)'
               /\ Turn(t)' => Partly(t)'
               /\ ~Turn(t)' => Stg!Whole(t)'
    <3>1. ~Turn(t) /\ Stg!Whole(t)
      BY <1>2, <1>4, <2>1, <2>4
    <3>2. /\ Untouched(t) => Untouched(t)'
          /\ Stg!Whole(t) => Stg!Whole(t)'
          /\ Untouched(t) /\ got' = 0 => Partly(t)'
      <4>1. \A r \in Pieces(t) : r \in own' <=> r \in own
        BY <1>1, <2>2, <2>4, PiecesApart
      <4>2. QED
        BY <1>1, <4>1, LeftAlone
    <3>3. Turn(t)' => Early(t) /\ got' = 0
      BY <1>3, <1>4, <2>3, <2>4, <3>1
    <3>4. QED
      BY <1>2, <1>3, <3>1, <3>2, <3>3
  <2>5. QED
    BY <1>1, <1>6, <2>3, <2>4 DEF OpenedInTurn
<1>7. CASE /\ \A s \in Stages : ~Turn(s)
           /\ \/ got' = got /\ own' \cup {"packet"} = own \cup {"packet"}
              \/ \E t \in Stages : Stg!Close(t)
  <2>1. got = 0 /\ got' = 0
    BY <1>1, <1>7 DEF Stg!Close
  <2>2. ASSUME NEW s \in Stages
        PROVE  /\ Early(s)' => Untouched(s)'
               /\ Turn(s)' => Partly(s)'
               /\ ~Turn(s)' => Stg!Whole(s)'
    <3>1. /\ Stg!Whole(s)
          /\ Early(s)' => Untouched(s)
          /\ Turn(s)' => Untouched(s)
      BY <1>2, <1>3, <1>7
    <3>2. CASE \A r \in Pieces(s) : r \in own' <=> r \in own
      BY <1>1, <2>1, <3>1, <3>2, LeftAlone
    <3>3. CASE Stg!Close(s)
      <4>1. Untouched(s)'
        BY <3>3 DEF Stg!Close, Stg!Released, Untouched, Pieces, Stg!Steps, Stg!ToSet
      <4>2. Stg!Whole(s)'
        BY <4>1 DEF Untouched, Pieces, Stg!Whole
      <4>3. own \cap Pieces(s) = {} => \A r \in Pieces(s) : r \in own' <=> r \in own
        BY <3>3 DEF Stg!Close
      <4>4. QED
        BY <1>1, <2>1, <3>1, <4>1, <4>2, <4>3, LeftAlone DEF Untouched
    <3>4. CASE got' = got /\ own' \cup {"packet"} = own \cup {"packet"}
      <4>1. "packet" \notin Pieces(s)
        BY <1>1, ConverterKinds, StagePieces DEF Stages
      <4>2. QED
        BY <3>2, <3>4, <4>1
    <3>5. ASSUME NEW t \in Stages, t # s, Stg!Close(t)
          PROVE  \A r \in Pieces(s) : r \in own' <=> r \in own
      BY <1>1, <3>5, PiecesApart DEF Stg!Close
    <3>6. QED
      BY <1>7, <3>2, <3>3, <3>4, <3>5
  <2>3. QED
    BY <1>1, <2>1, <2>2 DEF OpenedInTurn
<1>8. QED
  BY <1>1, <1>5, <1>6, <1>7, InTurn

(* No function that opens a stage leaves it half open, whichever of its    *)
(* acquisitions fails and whatever label it goes to; and main, giving up   *)
(* behind it, never takes a piece of another stage.                        *)
THEOREM NoStageHalfOpen == Spec => []NoneHalfOpen
<1>1. Init => OpenedInTurn
  <2>1. Init => own = {} /\ got = 0 /\ pc = "open_capture"
                /\ platform \in {"FSL", "PC", "RPI"}
    BY DEF Init, Stg!Init
  <2>2. own = {} => \A s : Untouched(s) /\ Stg!Whole(s)
    BY DEF Untouched, Stg!Whole
  <2>3. pc = "open_capture" => \A s : ~Turn(s)
    BY DEF Turn
  <2>4. QED
    BY <2>1, <2>2, <2>3 DEF OpenedInTurn
<1>2. OpenedInTurn => NoneHalfOpen
  BY NothingOrAll, ConverterKinds DEF OpenedInTurn, NoneHalfOpen, Stages
<1>3. QED
  BY <1>1, <1>2, StaysInTurn, PTL DEF Spec

================================================================================
