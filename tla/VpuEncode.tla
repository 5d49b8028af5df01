------------------------------ MODULE VpuEncode ------------------------------
(***************************************************************************)
(* The H.264 encoder on the i.MX6 VPU, src/vpu_encode.c, as its callers    *)
(* use it: before each picture they fetch the headers (SPS, PPS) with      *)
(* encode_get_headers until it returns 0, then call encode_do.  The        *)
(* encoder decides from gop_offset_counter, its own count of pictures,     *)
(* whether headers are due; the device counts on its own and decides which *)
(* pictures are intra pictures.                                            *)
(*                                                                         *)
(* next_stage and stage_end, how far the headers are, are static variables *)
(* of encode_get_headers: one pair for all handles.                        *)
(*                                                                         *)
(* mvc_extension is always 0, so the stages 1 and 3 never occur.           *)
(***************************************************************************)
EXTENDS Integers, Sequences

CONSTANTS
  Handles,      (* the encoders that may be open at the same time          *)
  MaxGop,       (* bound: largest group of pictures                        *)
  OneAtATime    (* whether one header loop ends before another begins      *)

ASSUME MaxGopAssumption  == MaxGop \in Nat \ {0}
ASSUME OneAtATimeAssumption == OneAtATime \in BOOLEAN

VARIABLES
  pc,                   (* where the caller is with a handle, see PCs      *)
  height,               (* src_picheight: "aligned" if a multiple of 16    *)
  gop,                  (* handle->params.gop                              *)
  gop_offset_counter,
  forceIPicture,        (* handle->enc_param.forceIPicture                 *)
  next_stage,           (* static, for all handles: 0 SPS, 2 PPS           *)
  stage_end,            (* static, for all handles                         *)
  headers,              (* the headers fetched since the last encode_do    *)
  pic,                  (* what encode_do gave, if it was called last      *)
  hwpos,                (* device: pictures since its last intra picture   *)
  astray,               (* device and handle may count differently         *)
  asked                 (* an intra picture was asked for, and came not    *)
                        (* yet: "early", before the headers, or "late"     *)

statics == <<next_stage, stage_end>>
device  == <<hwpos, astray>>
vars == <<pc, height, gop, gop_offset_counter, forceIPicture, statics,
          headers, pic, device, asked>>

(* "closed": no handle; "idle": between two pictures; "headers": in the    *)
(* header loop, at least one fetched; "encode": the loop has ended;        *)
(* "aborted": encode_do called abort().                                    *)
PCs == {"closed", "idle", "headers", "encode", "aborted"}

Live == \A g \in Handles : pc[g] # "aborted"

NoPic == [type |-> "none", headers |-> <<>>, asked |-> "no", astray |-> FALSE]

Complete == <<"SPS", "PPS">>

(* Bound: a third header in one loop is one too many, more are not noted.  *)
MaxHeaders == 3

--------------------------------------------------------------------------------

Init ==
  /\ pc = [h \in Handles |-> "closed"]
  /\ height = [h \in Handles |-> "aligned"]
  /\ gop = [h \in Handles |-> 1]
  /\ gop_offset_counter = [h \in Handles |-> 0]
  /\ forceIPicture = [h \in Handles |-> FALSE]
  /\ next_stage = 0 /\ stage_end = 0
  /\ headers = [h \in Handles |-> <<>>]
  /\ pic = [h \in Handles |-> NoPic]
  /\ hwpos = [h \in Handles |-> 0]
  /\ astray = [h \in Handles |-> FALSE]
  /\ asked = [h \in Handles |-> "no"]

(* A handle as encode_open leaves it, and as good as that when it is freed. *)
Fresh(h) ==
  /\ gop_offset_counter' = [gop_offset_counter EXCEPT ![h] = 0]
  /\ forceIPicture' = [forceIPicture EXCEPT ![h] = FALSE]
  /\ hwpos' = [hwpos EXCEPT ![h] = 0]
  /\ astray' = [astray EXCEPT ![h] = FALSE]
  /\ asked' = [asked EXCEPT ![h] = "no"]
  /\ headers' = [headers EXCEPT ![h] = <<>>]
  /\ pic' = [pic EXCEPT ![h] = NoPic]

(* encode_open, when it succeeds.  prepare_encode refuses a width that is  *)
(* not a multiple of 16, and takes any height; any group length is passed  *)
(* on, 0 too.                                                              *)
Open(h) ==
  /\ pc[h] = "closed"
  /\ pc' = [pc EXCEPT ![h] = "idle"]
  /\ \E x \in {"aligned", "unaligned"} : height' = [height EXCEPT ![h] = x]
  /\ \E g \in 0 .. MaxGop : gop' = [gop EXCEPT ![h] = g]
  /\ Fresh(h)
  /\ UNCHANGED statics

Close(h) ==
  /\ pc[h] = "idle"
  /\ pc' = [pc EXCEPT ![h] = "closed"]
  /\ height' = [height EXCEPT ![h] = "aligned"]
  /\ gop' = [gop EXCEPT ![h] = 1]
  /\ Fresh(h)
  /\ UNCHANGED statics

--------------------------------------------------------------------------------
(* encode_get_headers, called in a loop until it returns 0.                *)

Fetching(h) ==
  /\ pc[h] \in {"idle", "headers"}
  /\ OneAtATime => \A g \in Handles \ {h} : pc[g] # "headers"
  /\ pic' = [pic EXCEPT ![h] = NoPic]

LeaveLoop(h) == pc' = [pc EXCEPT ![h] = "encode"]

Fetch(h, header) ==
  /\ pc' = [pc EXCEPT ![h] = "headers"]
  /\ headers' = [headers EXCEPT ![h] =
                   IF Len(@) = MaxHeaders THEN @ ELSE Append(@, header)]

unfetched == <<height, gop, gop_offset_counter, forceIPicture, device, asked>>

NoneDue(h) ==
  /\ Fetching(h)
  /\ gop_offset_counter[h] # 0
  /\ LeaveLoop(h)
  /\ UNCHANGED <<unfetched, statics, headers>>

CircleComplete(h) ==
  /\ Fetching(h)
  /\ gop_offset_counter[h] = 0
  /\ stage_end = 1
  /\ stage_end' = 0
  /\ LeaveLoop(h)
  /\ UNCHANGED <<unfetched, next_stage, headers>>

GetSPS(h) ==
  /\ Fetching(h)
  /\ gop_offset_counter[h] = 0
  /\ stage_end = 0 /\ next_stage = 0
  /\ Fetch(h, "SPS")
  /\ next_stage' = 2
  /\ UNCHANGED <<unfetched, stage_end>>

(* Mistake: the end of the circle not noted.                               *)
GetPPSAndGoOn(h) ==
  /\ Fetching(h)
  /\ gop_offset_counter[h] = 0
  /\ stage_end = 0 /\ next_stage = 2
  /\ Fetch(h, "PPS")
  /\ next_stage' = 0
  /\ UNCHANGED <<unfetched, stage_end>>

GetPPS(h) ==
  /\ Fetching(h)
  /\ gop_offset_counter[h] = 0
  /\ stage_end = 0 /\ next_stage = 2
  /\ Fetch(h, "PPS")
  /\ next_stage' = 0
  /\ stage_end' = 1
  /\ UNCHANGED unfetched

GetHeaders(h) == NoneDue(h) \/ CircleComplete(h) \/ GetSPS(h) \/ GetPPS(h)

--------------------------------------------------------------------------------
(* encode_do.                                                              *)

Encoding(h) ==
  /\ pc[h] = "encode"
  /\ headers' = [headers EXCEPT ![h] = <<>>]
  /\ UNCHANGED <<height, gop, statics>>

(* encode_fill_data: the source frame buffer was allocated for the height  *)
(* rounded up to 16, the image is not rounded, and the sizes must agree.   *)
(* Or they do, but what the caller gives is shorter.                       *)
FillAborts(h) ==
  /\ Encoding(h)
  /\ pc' = [pc EXCEPT ![h] = "aborted"]
  /\ UNCHANGED <<gop_offset_counter, forceIPicture, pic, device, asked>>

(* The picture is given to the device; the request for an intra picture is *)
(* reset then, whatever becomes of it.                                     *)
StartOneFrame(h) ==
  /\ Encoding(h)
  /\ height[h] = "aligned"
  /\ pc' = [pc EXCEPT ![h] = "idle"]
  /\ forceIPicture' = [forceIPicture EXCEPT ![h] = FALSE]

(* Not started, not ready after 21 waits (the VPU is reset then), or no    *)
(* output: encode_do returns -1.  Where the device is in its group of      *)
(* pictures then, is not known.                                            *)
EncodeFails(h) ==
  /\ StartOneFrame(h)
  /\ \E p \in 0 .. MaxGop - 1 : hwpos' = [hwpos EXCEPT ![h] = p]
  /\ astray' = [astray EXCEPT ![h] = TRUE]
  /\ UNCHANGED <<gop_offset_counter, pic, asked>>

(* The device: intra pictures come when asked for, and at the start of a   *)
(* group; one that was asked for starts a group.  How long a group is for  *)
(* it that was set to 0, is not known.                                     *)
Intra(h) == forceIPicture[h] \/ hwpos[h] = 0

Advance(h) ==
  LET next == IF Intra(h) THEN 1 ELSE hwpos[h] + 1
  IN  \E p \in 0 .. MaxGop - 1 :
        /\ gop[h] # 0 => p = IF next >= gop[h] THEN 0 ELSE next
        /\ hwpos' = [hwpos EXCEPT ![h] = p]

Picture(h, type) ==
  /\ pic' = [pic EXCEPT ![h] =
               [type |-> type, headers |-> headers[h], asked |-> asked[h],
                astray |-> astray[h]]]
  /\ asked' = [asked EXCEPT ![h] = "no"]

(* Mistake: the counter wraps one picture late.                            *)
CountPictureLate(h) ==
  gop_offset_counter' = [gop_offset_counter EXCEPT ![h] =
                           IF @ >= gop[h] THEN 0 ELSE @ + 1]

CountPicture(h) ==
  gop_offset_counter' = [gop_offset_counter EXCEPT ![h] =
                           IF @ + 1 >= gop[h] THEN 0 ELSE @ + 1]

EncodeOk(h) ==
  /\ StartOneFrame(h)
  /\ Picture(h, IF Intra(h) THEN "I" ELSE "P")
  /\ Advance(h)
  /\ CountPicture(h)
  /\ astray' = [astray EXCEPT ![h] = @ \/ gop[h] = 0]

(* enableAutoSkip: the device may skip the picture; whether it counts it   *)
(* is not known.                                                           *)
EncodeSkips(h) ==
  /\ StartOneFrame(h)
  /\ ~Intra(h)
  /\ Picture(h, "NONE")
  /\ Advance(h) \/ UNCHANGED hwpos
  /\ CountPicture(h)
  /\ astray' = [astray EXCEPT ![h] = TRUE]

EncodeDo(h) == FillAborts(h) \/ EncodeFails(h) \/ EncodeOk(h) \/ EncodeSkips(h)

--------------------------------------------------------------------------------

Ask(h) ==
  asked' = [asked EXCEPT ![h] = IF @ # "no" THEN @
                                ELSE IF pc[h] = "idle" THEN "early" ELSE "late"]

(* Mistake: the group not counted anew.                                    *)
ForceIpicOnly(h) ==
  /\ pc[h] \in {"idle", "encode"}
  /\ forceIPicture' = [forceIPicture EXCEPT ![h] = TRUE]
  /\ Ask(h)
  /\ astray' = [astray EXCEPT ![h] = FALSE]
  /\ UNCHANGED <<pc, height, gop, gop_offset_counter, statics, headers, pic,
                 hwpos>>

(* encode_force_Ipic, called before the headers are fetched or after.      *)
ForceIpic(h) ==
  /\ pc[h] \in {"idle", "encode"}
  /\ forceIPicture' = [forceIPicture EXCEPT ![h] = TRUE]
  /\ gop_offset_counter' = [gop_offset_counter EXCEPT ![h] = 0]
  /\ Ask(h)
  /\ astray' = [astray EXCEPT ![h] = FALSE]
  /\ UNCHANGED <<pc, height, gop, statics, headers, pic, hwpos>>

(* encode_set_gop.  When it is accepted in the middle of a group, whether  *)
(* the device ends the group at the old or at the new length is not known, *)
(* nor what it does when the length is 0.                                  *)
SetGop(h, val) ==
  /\ pc[h] = "idle"
  /\ gop' = [gop EXCEPT ![h] = val]
  /\ hwpos' = [hwpos EXCEPT ![h] = IF val = 0 THEN @ ELSE @ % val]
  /\ astray' = [astray EXCEPT ![h] = @ \/ gop_offset_counter[h] # 0 \/ val = 0]
  /\ UNCHANGED <<pc, height, gop_offset_counter, forceIPicture, statics,
                 headers, pic, asked>>

Step(h) == \/ Open(h) \/ Close(h) \/ GetHeaders(h) \/ EncodeDo(h)
           \/ ForceIpic(h) \/ \E val \in 0 .. MaxGop : SetGop(h, val)

Next == Live /\ \E h \in Handles : Step(h)

Spec == Init /\ [][Next]_vars

(* A caller in the header loop goes on calling.                            *)
FairSpec == Spec /\ \A h \in Handles : WF_vars(Live /\ GetHeaders(h))

--------------------------------------------------------------------------------
(* Properties.                                                             *)

(* Every variable has a value of its type.                                 *)
TypeOK ==
  /\ pc \in [Handles -> PCs]
  /\ height \in [Handles -> {"aligned", "unaligned"}]
  /\ gop \in [Handles -> 0 .. MaxGop]
  /\ gop_offset_counter \in [Handles -> 0 .. MaxGop - 1]
  /\ forceIPicture \in [Handles -> BOOLEAN]
  /\ next_stage \in {0, 2} /\ stage_end \in {0, 1}
  /\ headers \in [Handles -> Seq({"SPS", "PPS"})]
  /\ pic \in [Handles -> [type : {"none", "I", "P", "NONE"},
                          headers : Seq({"SPS", "PPS"}),
                          asked : {"no", "early", "late"}, astray : BOOLEAN]]
  /\ hwpos \in [Handles -> 0 .. MaxGop - 1]
  /\ astray \in [Handles -> BOOLEAN]
  /\ asked \in [Handles -> {"no", "early", "late"}]

(* Every header loop gives SPS and PPS, in this order and once, or nothing *)
(* at all: the stage one encoder left behind is none that another enters.  *)
HeadersInOrder ==
  \A h \in Handles :
    /\ headers[h] \in {<<>>, <<"SPS">>, Complete}
    /\ pc[h] \in {"idle", "closed"} => headers[h] = <<>>
    /\ pc[h] = "encode" => headers[h] \in {<<>>, Complete}

(* The stages are where the one header loop under way has brought them,    *)
(* and at their start when there is none.                                  *)
StagesInStep ==
  /\ (\A h \in Handles : pc[h] # "headers") => next_stage = 0 /\ stage_end = 0
  /\ \A h \in Handles : pc[h] = "headers" =>
       /\ gop_offset_counter[h] = 0
       /\ headers[h] = IF stage_end = 1 THEN Complete ELSE <<"SPS">>
       /\ next_stage = IF stage_end = 1 THEN 0 ELSE 2
       /\ \A g \in Handles \ {h} : pc[g] # "headers"

(* Handle and device agree on the place in the group of pictures, unless   *)
(* an error, a skipped picture or a new group length came between them and *)
(* no intra picture was asked for since.                                   *)
GopInStep ==
  \A h \in Handles :
    ~astray[h] => gop_offset_counter[h] = IF forceIPicture[h] THEN 0 ELSE hwpos[h]

(* As long as they agree, the headers are sent before every intra picture, *)
(* where a viewer can begin to decode, and before no other; an intra       *)
(* picture asked for after the headers were due may come without.          *)
HeadersBeforeIntra ==
  \A h \in Handles :
    pic[h].type # "none" /\ ~pic[h].astray /\ pic[h].asked # "late" =>
      (pic[h].type = "I" <=> pic[h].headers = Complete)

(* What the loop that has ended left to encode_do: all headers if they are *)
(* due, none otherwise; a picture asked for early makes them due.          *)
HeadersReady ==
  \A h \in Handles :
    /\ asked[h] = "early" => gop_offset_counter[h] = 0
    /\ pc[h] = "encode" /\ asked[h] # "late" =>
         (headers[h] = Complete <=> gop_offset_counter[h] = 0)

(* The inductive invariant, if one header loop runs at a time.             *)
IInv == TypeOK /\ HeadersInOrder /\ StagesInStep /\ GopInStep /\ HeadersReady
        /\ HeadersBeforeIntra

(* A header loop ends.                                                     *)
HeaderLoopEnds ==
  \A h \in Handles : pc[h] = "headers" ~> (pc[h] = "encode" \/ ~Live)

(* encode.h: "Force the next encoded frame to be I-frame".                 *)
ForcedIsIntra ==
  \A h \in Handles : pic[h].type # "none" /\ pic[h].asked # "no" => pic[h].type = "I"

================================================================================
