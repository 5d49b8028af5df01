------------------------------- MODULE RtpPack -------------------------------
(***************************************************************************)
(* The RTP packer, src/rtp_pack.c: pack_put hands it a buffer of NALUs in  *)
(* Annex B form, every pack_get returns the next RTP packet (RFC 6184,     *)
(* single NAL unit packets and FU-A fragments) until it returns 0.         *)
(*                                                                         *)
(* A buffer is the sequence of the lengths of its NALUs: how the bytes are *)
(* cut at the start codes is the subject of module AnnexB.  The buffer in  *)
(* which no start code was found at the front is <<>>.  A packet is what   *)
(* pack_get writes of it: its header fields, and which bytes of which NALU *)
(* it copies.                                                              *)
(***************************************************************************)
EXTENDS Integers, Sequences

CONSTANTS
  MaxNaluLen,   (* bound: longest NALU of the model                        *)
  MaxNalus,     (* bound: most NALUs in one buffer                         *)
  PktLens,      (* the values of pac_param.max_pkt_len to consider         *)
  OutbufSize,   (* MAX_OUTBUF_SIZE, the size of the output buffer          *)
  SeqMod,       (* 2^16: seq_num is an unsigned short                      *)
  TsMod,        (* 2^32: ts_current_sample is a U32                        *)
  Millis,       (* milliseconds since pack_open the clock may show, a U32  *)
  SSRC,         (* pac_param.ssrc                                          *)
  ULongBytes    (* sizeof(unsigned long) on the target: 4 (ARM), 8 (LP64)  *)

ASSUME BoundsAssumption  == MaxNaluLen \in Nat \ {0} /\ MaxNalus \in Nat
ASSUME PktLensAssumption == PktLens \subseteq Nat \ {0}
ASSUME OutbufAssumption  == OutbufSize \in Nat
ASSUME WidthAssumption   == SeqMod \in Nat \ {0} /\ TsMod \in Nat \ {0}
ASSUME ClockAssumption   == Millis \subseteq Nat
ASSUME TargetAssumption  == SSRC \in Nat /\ ULongBytes \in {4, 8}

VARIABLES
  status,           (* "fresh" (pack_open), "open" (once put to), "closed" *)
                    (* (pack_close) or "aborted" (abort)                   *)
  max_pkt_len,      (* params.max_pkt_len                                  *)
  inbuf,            (* the buffer of the last pack_put                     *)
  next_nalu_ptr,    (* which NALU of inbuf is next; NULL past the last     *)
  inbuf_complete,
  nalu_complete,
  nalu,             (* the NALU at hand: its place in inbuf, its length    *)
  FU_counter, last_FU_size, FU_index,
  seq_num,
  ts_current_sample,
  pkt               (* what the caller got: the packet in outbuf           *)

params == <<status, max_pkt_len>>
fu     == <<FU_counter, last_FU_size, FU_index>>
vars   == <<params, inbuf, next_nalu_ptr, inbuf_complete, nalu_complete,
            nalu, fu, seq_num, ts_current_sample, pkt>>

NULL == 0

NaluLens == 1 .. MaxNaluLen

(* The buffers a caller may put: at most MaxNalus NALUs.                   *)
Buffers == UNION {[1 .. n -> NaluLens] : n \in 0 .. MaxNalus}

--------------------------------------------------------------------------------
(* Conversions.                                                            *)

(* Mistake: the cast taken for a plain assignment.                         *)
WideCast(x) == {x}

(* (U32) of a double.  Out of range it is undefined: the x86-64 build      *)
(* keeps the low 32 bits, the ARM build saturates.                         *)
CastU32(x) == IF x < TsMod THEN {x} ELSE {x % TsMod, TsMod - 1}

(* Samples of 1/90000 s in ms milliseconds.                                *)
Samples(ms) == CastU32(ms * 90)

(* Mistakes: the case of a NALU of a whole number of fragments forgotten;  *)
(* the NALU header counted twice.                                          *)
FUCounterInexact(len, m)  == len \div m
LastFUSizeInexact(len, m) == len % m
LastFUSizeHeader(len, m)  == (len % m) + 1

(* Number of the last FU (the first has number 0) and its size, the NALU   *)
(* header included.                                                        *)
FUCounter(len, m)  == IF len % m = 0 THEN len \div m - 1 ELSE len \div m
LastFUSize(len, m) == IF len % m = 0 THEN m ELSE len % m

(* The header as the receiver sees it: bytes 4-7 and 8-11.  The struct     *)
(* rtp_header declares both fields unsigned long; where that has 8 bytes   *)
(* the fields start at bytes 8 and 16, bytes 4-7 are padding the memset    *)
(* cleared, and the payload is written over the second field.              *)
Bytes4to7(p)  == IF ULongBytes = 4 THEN p.ts ELSE 0
Bytes8to11(p) == IF ULongBytes = 4 THEN SSRC ELSE p.ts

NoPkt == [kind |-> "none", nalu |-> 0, from |-> 0, count |-> 0, size |-> 0,
          marker |-> FALSE, seq |-> 0, ts |-> 0]

Kinds == {"none", "single", "first", "middle", "last"}

--------------------------------------------------------------------------------

(* pack_open: the handle is cleared.  inbuf_complete and nalu_complete are *)
(* 0 then, so a pack_get before the first pack_put would take the NULL     *)
(* NALU for one with a last fragment of -1 bytes to send; both programs    *)
(* put first, and so does the model.                                       *)
Init ==
  /\ status = "fresh"
  /\ max_pkt_len \in PktLens
  /\ inbuf = <<>>
  /\ next_nalu_ptr = NULL
  /\ inbuf_complete = FALSE
  /\ nalu_complete = FALSE
  /\ nalu = [data |-> 0, len |-> 0]
  /\ FU_counter = 0 /\ last_FU_size = 0 /\ FU_index = 0
  /\ seq_num = 0
  /\ ts_current_sample = 0
  /\ pkt = NoPkt

(* A put is accepted at any time, also with packets of the last buffer     *)
(* still to get: they are given up.                                        *)
PackPut(buf) ==
  /\ status \in {"fresh", "open"}
  /\ status' = "open"
  /\ inbuf' = buf
  /\ next_nalu_ptr' = 1
  /\ FU_counter' = 0 /\ last_FU_size' = 0 /\ FU_index' = 0
  /\ inbuf_complete' = FALSE
  /\ nalu_complete' = TRUE
  /\ UNCHANGED <<max_pkt_len, nalu, seq_num, ts_current_sample, pkt>>

--------------------------------------------------------------------------------
(* pack_get.                                                               *)

Getting == status = "open" /\ ~inbuf_complete

(* get_next_nalu has one to give: a start code stands at next_nalu_ptr.    *)
NaluFollows == next_nalu_ptr \in DOMAIN inbuf

NextLen == inbuf[next_nalu_ptr]

(* get_next_nalu                                                           *)
TakeNalu ==
  /\ NaluFollows
  /\ nalu' = [data |-> next_nalu_ptr, len |-> NextLen]
  /\ next_nalu_ptr' = IF next_nalu_ptr = Len(inbuf) THEN NULL
                      ELSE next_nalu_ptr + 1

(* The packet handed over: count bytes of NALU n's payload, the first of   *)
(* them byte number from, after overhead header bytes.                     *)
Emit(kind, n, from, count, overhead, marker) ==
  /\ count + overhead <= OutbufSize
  /\ pkt' = [kind |-> kind, nalu |-> n, from |-> from, count |-> count,
             size |-> count + overhead, marker |-> marker, seq |-> seq_num,
             ts |-> ts_current_sample']
  /\ seq_num' = (seq_num + 1) % SeqMod

StartNalu ==
  /\ Getting
  /\ nalu_complete
  /\ TakeNalu
  /\ \E ms \in Millis : ts_current_sample' \in Samples(ms)
  /\ UNCHANGED <<params, inbuf, inbuf_complete>>

(* A NALU that fits travels alone; its header is byte 12 of the packet.    *)
GetSingle ==
  /\ StartNalu
  /\ NextLen <= max_pkt_len
  /\ Emit("single", next_nalu_ptr, 1, NextLen - 1, 13, TRUE)
  /\ nalu_complete' = TRUE
  /\ UNCHANGED fu

GetFirstFU ==
  /\ StartNalu
  /\ NextLen > max_pkt_len
  /\ Emit("first", next_nalu_ptr, 1, max_pkt_len, 14, FALSE)
  /\ FU_counter' = FUCounter(NextLen, max_pkt_len)
  /\ last_FU_size' = LastFUSize(NextLen, max_pkt_len)
  /\ FU_index' = 1
  /\ nalu_complete' = FALSE

(* Mistake: a timestamp for each packet instead of each NALU.              *)
NextFUStamped ==
  /\ Getting
  /\ ~nalu_complete
  /\ \E ms \in Millis : ts_current_sample' \in Samples(ms)
  /\ UNCHANGED <<params, inbuf, next_nalu_ptr, inbuf_complete, nalu,
                 FU_counter, last_FU_size>>

NextFU ==
  /\ Getting
  /\ ~nalu_complete
  /\ UNCHANGED <<params, inbuf, next_nalu_ptr, inbuf_complete, nalu,
                 FU_counter, last_FU_size, ts_current_sample>>

FUStart == 1 + FU_index * max_pkt_len

(* Mistake: the index not advanced.                                        *)
GetMiddleFUAgain ==
  /\ NextFU
  /\ FU_index # FU_counter
  /\ Emit("middle", nalu.data, FUStart, max_pkt_len, 14, FALSE)
  /\ UNCHANGED <<FU_index, nalu_complete>>

GetMiddleFU ==
  /\ NextFU
  /\ FU_index # FU_counter
  /\ Emit("middle", nalu.data, FUStart, max_pkt_len, 14, FALSE)
  /\ FU_index' = FU_index + 1
  /\ UNCHANGED nalu_complete

GetLastFU ==
  /\ NextFU
  /\ FU_index = FU_counter
  /\ Emit("last", nalu.data, FUStart, last_FU_size - 1, 14, TRUE)
  /\ nalu_complete' = TRUE
  /\ FU_index' = 0

(* No NALU left, or no start code where one is due: pack_get returns 0.    *)
GetNothing ==
  /\ Getting
  /\ nalu_complete
  /\ ~NaluFollows
  /\ inbuf_complete' = TRUE
  /\ UNCHANGED <<params, inbuf, next_nalu_ptr, nalu_complete, nalu, fu,
                 seq_num, ts_current_sample, pkt>>

(* Mistake: the size of the NALU checked instead of the packet's.          *)
OutSizeOfNalu == IF nalu_complete THEN NextLen + 12 ELSE max_pkt_len + 14

(* Size of the packet pack_get is about to build.                          *)
OutSize ==
  IF nalu_complete
  THEN IF NextLen <= max_pkt_len THEN NextLen + 12 ELSE max_pkt_len + 14
  ELSE IF FU_index = FU_counter THEN last_FU_size + 13 ELSE max_pkt_len + 14

(* It does not fit into outbuf: abort(), before anything is copied.        *)
Abort ==
  /\ Getting
  /\ nalu_complete => NaluFollows
  /\ OutSize > OutbufSize
  /\ status' = "aborted"
  /\ UNCHANGED <<max_pkt_len, inbuf, next_nalu_ptr, inbuf_complete,
                 nalu_complete, nalu, fu, seq_num, ts_current_sample, pkt>>

PackGet == GetSingle \/ GetFirstFU \/ GetMiddleFU \/ GetLastFU \/ GetNothing
           \/ Abort

PackClose ==
  /\ status \in {"fresh", "open"}
  /\ status' = "closed"
  /\ UNCHANGED <<max_pkt_len, inbuf, next_nalu_ptr, inbuf_complete,
                 nalu_complete, nalu, fu, seq_num, ts_current_sample, pkt>>

Next == (\E buf \in Buffers : PackPut(buf)) \/ PackGet \/ PackClose

Spec == Init /\ [][Next]_vars

(* The caller's loop calls pack_get as long as it returns 1.               *)
FairSpec == Spec /\ WF_vars(PackGet)

--------------------------------------------------------------------------------
(* Properties.                                                             *)

(* Every field has a value of its type; the packet's fields are widths the *)
(* header holds.                                                           *)
TypeOK ==
  /\ status \in {"fresh", "open", "closed", "aborted"}
  /\ max_pkt_len \in PktLens
  /\ inbuf \in Buffers
  /\ next_nalu_ptr \in Nat
  /\ inbuf_complete \in BOOLEAN
  /\ nalu_complete \in BOOLEAN
  /\ nalu \in [data : Nat, len : Nat]
  /\ FU_counter \in Nat /\ last_FU_size \in Nat /\ FU_index \in Nat
  /\ seq_num \in 0 .. SeqMod - 1
  /\ ts_current_sample \in 0 .. TsMod - 1
  /\ pkt \in [kind : Kinds, nalu : Nat, from : Nat, count : Nat, size : Nat,
              marker : BOOLEAN, seq : 0 .. SeqMod - 1, ts : 0 .. TsMod - 1]

(* A NALU is being cut: its first FU was sent, its last one was not.       *)
Cutting == ~nalu_complete /\ nalu.data # 0

(* Between the first and the last FU of a NALU: the fragment sizes         *)
(* computed with the first still add up to the NALU in hand, the index has *)
(* not run past the last fragment, and the pointer is past this NALU only. *)
FragmentsAddUp ==
  /\ status = "open" => (Cutting <=> ~nalu_complete)
  /\ Cutting =>
    /\ ~inbuf_complete
    /\ nalu.data \in DOMAIN inbuf
    /\ nalu.len = inbuf[nalu.data]
    /\ next_nalu_ptr = IF nalu.data = Len(inbuf) THEN NULL ELSE nalu.data + 1
    /\ FU_index \in 1 .. FU_counter
    /\ last_FU_size \in 1 .. max_pkt_len
    /\ FU_counter * max_pkt_len + last_FU_size = nalu.len

(* While a NALU is cut, the packet last handed out is a fragment of it,    *)
(* and it ends where the next one will start; between two NALUs of a       *)
(* buffer it is the one with the marker that closed the first.             *)
PacketBehindNext ==
  /\ Cutting =>
    /\ pkt.kind \in {"first", "middle"}
    /\ pkt.nalu = nalu.data
    /\ pkt.from + pkt.count = FUStart
    /\ pkt.ts = ts_current_sample
    /\ (pkt.seq + 1) % SeqMod = seq_num
  /\ nalu_complete /\ next_nalu_ptr > 1 => pkt.marker

(* A packet overruns neither the output buffer it is built in (no memcpy   *)
(* or header past OutbufSize) nor the NALU it is copied from.              *)
CopiesInBounds ==
  /\ pkt.size <= OutbufSize
  /\ pkt.kind # "none" =>
       /\ pkt.size >= pkt.count + 13
       /\ pkt.from + pkt.count <= nalu.len

(* abort() is reached only with a max_pkt_len that a full fragment cannot  *)
(* have in outbuf: with any smaller one no NALU of any length kills the    *)
(* program.                                                                *)
AbortsOnlyIfTooLong == status = "aborted" => max_pkt_len + 14 > OutbufSize

IInv == TypeOK /\ FragmentsAddUp /\ PacketBehindNext /\ CopiesInBounds
        /\ AbortsOnlyIfTooLong

(* A fragment that continues a NALU continues the packet before it: same   *)
(* NALU and timestamp, next sequence number, next byte; and a NALU is      *)
(* begun only when the previous one of its buffer was closed by a packet   *)
(* with the marker.                                                        *)
ChainStep ==
  pkt' # pkt =>
    /\ pkt'.kind \in {"middle", "last"} =>
         /\ pkt.kind \in {"first", "middle"}
         /\ pkt'.nalu = pkt.nalu
         /\ pkt'.ts = pkt.ts
         /\ pkt'.seq = (pkt.seq + 1) % SeqMod
         /\ pkt'.from = pkt.from + pkt.count
    /\ pkt'.kind \in {"single", "first"} /\ pkt'.nalu > 1 => pkt.marker

FragmentsChain == [][ChainStep]_vars

(* The NALUs of inbuf not wholly sent: from the one being cut, or else     *)
(* from the next one.                                                      *)
TodoFrom == IF Cutting THEN nalu.data
            ELSE IF NaluFollows THEN next_nalu_ptr ELSE Len(inbuf) + 1

(* The piece of a NALU the last packet carried.                            *)
LastPiece == [seq |-> pkt.seq, from |-> pkt.from,
              upto |-> IF pkt.kind = "none" THEN 0 ELSE pkt.from + pkt.count - 1,
              marker |-> pkt.marker]

Stream == INSTANCE NaluStream WITH
  Nalus <- NaluLens,
  todo  <- SubSeq(inbuf, TodoFrom, Len(inbuf)),
  got   <- IF Cutting THEN FU_index * max_pkt_len ELSE 0,
  seq   <- seq_num,
  last  <- LastPiece

(* The packer delivers its buffers as NaluStream says.                     *)
ImplementsStream == Stream!Spec

(* A fragmented NALU is closed in the end (or abandoned by a put, or the   *)
(* program ends), if the caller goes on getting: no fragment is sent over  *)
(* and over.                                                               *)
NaluEventuallyCloses == Cutting ~> (~Cutting \/ status # "open")

(* rtp_pack.c: the ssrc is "constant for a RTP session", in bytes 8-11.    *)
SsrcConstant == pkt.kind # "none" => Bytes8to11(pkt) = SSRC

================================================================================
