-------------------------------- MODULE AnnexB --------------------------------
(***************************************************************************)
(* How the packer finds the NALUs in a buffer: get_next_nalu of            *)
(* src/rtp_pack.c, byte by byte.  The encoder wrote the buffer as a series *)
(* of NALUs, each behind a start code 00 00 01 or 00 00 00 01 (H.264,      *)
(* Annex B); the scan must cut it at exactly the places where it was put   *)
(* together.  The scan looks ahead, past the end of the buffer too: what   *)
(* memory holds there is arbitrary.                                        *)
(*                                                                         *)
(* Offsets count from 0 as in C; sequences count from 1.                   *)
(***************************************************************************)
EXTENDS Integers, Sequences, FiniteSetsExt, SequencesExt

CONSTANTS
  MaxNalus,      (* bound: NALUs in a buffer the encoder wrote             *)
  MaxNaluBytes,  (* bound: bytes in a NALU                                 *)
  MaxRawBytes    (* bound: bytes of a buffer with arbitrary contents       *)

ASSUME BoundsAssumption == {MaxNalus, MaxNaluBytes, MaxRawBytes} \subseteq Nat

Byte == {0, 1, 2}        \* 2 stands for every value but 0 and 1

(* The bytes past the end of a buffer that the scan may read.              *)
Behind == [1 .. 4 -> {0, 1}]

VARIABLES
  written,               (* the NALUs the encoder wrote; <<>> if the       *)
                         (* buffer was not written by an encoder           *)
  mem,                   (* inbuf, and the memory behind it                *)
  inbuf_size,
  next_nalu_ptr,         (* offset in inbuf, or NULL                       *)
  nalu,                  (* the NALU found last                            *)
  found,                 (* the contents of the NALUs found so far         *)
  ret                    (* result of the last get_next_nalu               *)

vars == <<written, mem, inbuf_size, next_nalu_ptr, nalu, found, ret>>

NULL == -1

StartCode3 == <<0, 0, 1>>
StartCode4 == <<0, 0, 0, 1>>

IsStartCode3(p) == SubSeq(mem, p + 1, p + 3) = StartCode3
IsStartCode4(p) == SubSeq(mem, p + 1, p + 4) = StartCode4

--------------------------------------------------------------------------------
(* Buffers.                                                                *)

ByteSeqs(lo, hi) == UNION {[1 .. n -> Byte] : n \in lo .. hi}

(* A NALU an encoder may write: it holds no start code (emulation          *)
(* prevention) and does not end with a zero byte.                          *)
IsNalu(s) ==
  /\ s # <<>>
  /\ s[Len(s)] # 0
  /\ \A i \in 1 .. Len(s) - 2 : SubSeq(s, i, i + 2) # StartCode3

NaluSet == {s \in ByteSeqs(1, MaxNaluBytes) : IsNalu(s)}

(* The buffer with the NALUs ns, each behind its start code.               *)
WithStartCodes(ns, codes) ==
  FlattenSeq([i \in 1 .. Len(ns) |-> codes[i] \o ns[i]])

(* pack_put                                                                *)
PackPut(buf, behind) ==
  /\ mem = buf \o behind
  /\ inbuf_size = Len(buf)
  /\ next_nalu_ptr = 0
  /\ nalu = [startcodeprefix_len |-> 0, data |-> NULL, len |-> 0]
  /\ found = <<>>
  /\ ret = 1

InitWritten ==
  \E n \in 1 .. MaxNalus :
    /\ written \in [1 .. n -> NaluSet]
    /\ \E codes \in [1 .. n -> {StartCode3, StartCode4}],
          behind \in Behind :
         PackPut(WithStartCodes(written, codes), behind)

InitRaw ==
  /\ written = <<>>
  /\ \E buf \in ByteSeqs(1, MaxRawBytes),
        behind \in Behind : PackPut(buf, behind)

Init == InitWritten \/ InitRaw

--------------------------------------------------------------------------------
(* get_next_nalu                                                           *)

(* Mistakes: only the short start code looked for; the first byte not      *)
(* skipped; the end of the data missed by one.                             *)
ScanForCode3(first) ==
  Min({p \in first + 1 .. Max({first + 1, inbuf_size}) :
         p >= inbuf_size \/ IsStartCode3(p)})
ScanAtFirst(first) ==
  Min({p \in first .. Max({first, inbuf_size}) :
         p >= inbuf_size \/ IsStartCode3(p) \/ IsStartCode4(p)})
ScanPastEnd(first) ==
  Min({p \in first + 1 .. Max({first + 1, inbuf_size + 1}) :
         p > inbuf_size \/ IsStartCode3(p) \/ IsStartCode4(p)})

(* Where the scan that starts behind the start code at cur stops: at the   *)
(* next start code after the first byte, or at the end of the data.        *)
ScanFrom(first) ==
  Min({p \in first + 1 .. Max({first + 1, inbuf_size}) :
         p >= inbuf_size \/ IsStartCode3(p) \/ IsStartCode4(p)})

PrefixLen(p) == IF IsStartCode3(p) THEN 3 ELSE 4

FindNalu ==
  /\ next_nalu_ptr # NULL
  /\ IsStartCode3(next_nalu_ptr) \/ IsStartCode4(next_nalu_ptr)
  /\ LET data == next_nalu_ptr + PrefixLen(next_nalu_ptr)
         next == ScanFrom(data)
     IN  /\ nalu' = [startcodeprefix_len |-> PrefixLen(next_nalu_ptr),
                     data |-> data, len |-> next - data]
         /\ next_nalu_ptr' = IF next >= inbuf_size THEN NULL ELSE next
         /\ found' = Append(found, SubSeq(mem, data + 1, next))
  /\ ret' = 1
  /\ UNCHANGED <<written, mem, inbuf_size>>

DataEnd ==
  /\ next_nalu_ptr = NULL
  /\ ret' = 0
  /\ UNCHANGED <<written, mem, inbuf_size, next_nalu_ptr, nalu, found>>

NoStartCode ==
  /\ next_nalu_ptr # NULL
  /\ ~IsStartCode3(next_nalu_ptr) /\ ~IsStartCode4(next_nalu_ptr)
  /\ ret' = -1
  /\ UNCHANGED <<written, mem, inbuf_size, next_nalu_ptr, nalu, found>>

(* pack_get asks for a NALU as long as it got one.                         *)
Next == ret = 1 /\ (FindNalu \/ DataEnd \/ NoStartCode)

Spec == Init /\ [][Next]_vars /\ WF_vars(Next)

--------------------------------------------------------------------------------
(* Properties.                                                             *)

(* The NALUs found are, in order, the ones the encoder wrote, whatever     *)
(* their start codes and whatever stands behind the buffer; and the scan   *)
(* ends only when it has found all of them.                                *)
CutsAsWritten ==
  written # <<>> => /\ IsPrefix(found, written)
                    /\ ret # 1 => found = written /\ ret = 0

(* Whatever the buffer holds, a NALU found has at least its header byte:   *)
(* pack_get copies nalu.len - 1 bytes of it, a negative number otherwise.  *)
NaluHasHeader == found # <<>> => nalu.len >= 1

(* In a buffer that does not end in a zero byte, or in a start code, all   *)
(* bytes of a NALU are bytes of the buffer, in spite of the look-ahead.    *)
EndsClean ==
  /\ mem[inbuf_size] # 0
  /\ inbuf_size >= 3 => ~IsStartCode3(inbuf_size - 3)

NaluInsideBuffer ==
  EndsClean /\ found # <<>> => nalu.data + nalu.len <= inbuf_size
================================================================================
