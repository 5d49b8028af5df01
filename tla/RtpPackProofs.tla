---------------------------- MODULE RtpPackProofs ----------------------------
(***************************************************************************)
(* Proofs about the RTP packer, for every buffer size, packet length,      *)
(* NALU length and counter width: its inductive invariant, that fragments  *)
(* chain, and that it implements NaluStream.                               *)
(***************************************************************************)
EXTENDS RtpPack, SequenceTheorems, TLAPS

(* Multiplication by a natural number is monotonic.                        *)
LEMMA TimesMonotonic ==
  ASSUME NEW m \in Nat, NEW a \in Nat, NEW b \in Nat, a <= b
  PROVE  a * m <= b * m
<1>1. (b - a) * m >= 0
  BY SMT
<1>2. QED
  BY <1>1, SMT

(* Division with remainder, as pack_get uses it.                           *)
LEMMA DivisionFacts ==
  ASSUME NEW len \in Nat, NEW m \in Nat \ {0}
  PROVE  /\ len \div m \in Nat
         /\ len % m \in 0 .. m - 1
         /\ len = (len \div m) * m + (len % m)
  BY SMT

(* The sizes computed with the first FU add up to the NALU, the last FU is *)
(* neither empty nor longer than the others, and it is not the first.      *)
LEMMA FragmentSizes ==
  ASSUME NEW len \in Nat, NEW m \in Nat \ {0}, len > m
  PROVE  /\ FUCounter(len, m) \in Nat \ {0}
         /\ LastFUSize(len, m) \in 1 .. m
         /\ FUCounter(len, m) * m + LastFUSize(len, m) = len
<1> DEFINE q == len \div m
           r == len % m
<1>1. q \in Nat /\ r \in 0 .. m - 1 /\ len = q * m + r
  BY DivisionFacts
<1> HIDE DEF q, r
<1>2. q >= 1
  <2>1. CASE q = 0
    BY <1>1, <2>1, SMT
  <2>2. CASE q # 0
    BY <1>1, <2>2, SMT
  <2>3. QED
    BY <2>1, <2>2
<1>3. r = 0 => q >= 2
  <2>1. CASE q = 1
    BY <1>1, <2>1, SMT
  <2>2. CASE q # 1
    BY <1>1, <1>2, <2>2, SMT
  <2>3. QED
    BY <2>1, <2>2
<1>4. (q - 1) * m + m = q * m
  BY <1>1, SMT
<1>5. CASE r = 0
  <2>1. FUCounter(len, m) = q - 1 /\ LastFUSize(len, m) = m
    BY <1>5 DEF FUCounter, LastFUSize, q, r
  <2>2. QED
    BY <2>1, <1>1, <1>3, <1>4, <1>5, SMT
<1>6. CASE r # 0
  <2>1. FUCounter(len, m) = q /\ LastFUSize(len, m) = r
    BY <1>6 DEF FUCounter, LastFUSize, q, r
  <2>2. QED
    BY <2>1, <1>1, <1>2, <1>6, SMT
<1>7. QED
  BY <1>5, <1>6

(* A buffer is a sequence of NALU lengths.                                 *)
LEMMA BuffersAreSequences ==
  ASSUME NEW buf \in Buffers
  PROVE  /\ buf \in Seq(NaluLens)
         /\ Len(buf) \in Nat
         /\ DOMAIN buf = 1 .. Len(buf)
         /\ \A i \in DOMAIN buf : buf[i] \in NaluLens
<1>1. PICK n \in 0 .. MaxNalus : buf \in [1 .. n -> NaluLens]
  BY DEF Buffers
<1>2. n \in Nat
  BY BoundsAssumption, SMT
<1>3. QED
  BY <1>1, <1>2, SMT

(* A cast to U32 stays in range.                                           *)
LEMMA SamplesInRange ==
  ASSUME NEW ms \in Millis, NEW ts \in Samples(ms)
  PROVE  ts \in 0 .. TsMod - 1
<1>1. ms * 90 \in Nat
  BY ClockAssumption, SMT
<1>2. (ms * 90) % TsMod \in 0 .. TsMod - 1
  BY <1>1, WidthAssumption, DivisionFacts
<1>3. QED
  BY <1>1, <1>2, WidthAssumption, SMT DEF Samples, CastU32

--------------------------------------------------------------------------------
(* The inductive invariant.                                                *)

(* pack_open leaves a handle that satisfies it.                            *)
LEMMA InitEstablishesIInv == Init => IInv
<1> SUFFICES ASSUME Init PROVE IInv
  OBVIOUS
<1>1. <<>> \in Buffers
  <2>1. <<>> \in [1 .. 0 -> NaluLens]
    BY SMT
  <2>2. 0 \in 0 .. MaxNalus
    BY BoundsAssumption, SMT
  <2>3. QED
    BY <2>1, <2>2 DEF Buffers
<1>2. 0 \in 0 .. SeqMod - 1 /\ 0 \in 0 .. TsMod - 1
  BY WidthAssumption, SMT
<1>3. TypeOK
  <2>1. NoPkt \in [kind : Kinds, nalu : Nat, from : Nat, count : Nat,
                  size : Nat, marker : BOOLEAN, seq : 0 .. SeqMod - 1,
                  ts : 0 .. TsMod - 1]
    BY <1>2 DEF NoPkt, Kinds
  <2>2. [data |-> 0, len |-> 0] \in [data : Nat, len : Nat]
    OBVIOUS
  <2>3. QED
    BY <1>1, <1>2, <2>1, <2>2 DEF Init, TypeOK, NULL
<1>4. ~Cutting
  BY DEF Init, Cutting
<1>5. QED
  BY <1>3, <1>4, OutbufAssumption, SMT
     DEF Init, IInv, FragmentsAddUp, PacketBehindNext, CopiesInBounds,
         AbortsOnlyIfTooLong, NoPkt

(* What the invariant says of the NALU get_next_nalu finds.                *)
LEMMA NextNaluFacts ==
  ASSUME IInv, NaluFollows
  PROVE  /\ next_nalu_ptr \in 1 .. Len(inbuf)
         /\ Len(inbuf) \in Nat
         /\ NextLen \in Nat \ {0}
<1>1. inbuf \in Buffers
  BY DEF IInv, TypeOK
<1>2. NaluLens \subseteq Nat \ {0}
  BY BoundsAssumption, SMT DEF NaluLens
<1>3. QED
  BY <1>1, <1>2, BuffersAreSequences DEF NaluFollows, NextLen

(* Sequence numbers stay in range.                                         *)
LEMMA SeqNumInRange ==
  ASSUME NEW n \in 0 .. SeqMod - 1
  PROVE  (n + 1) % SeqMod \in 0 .. SeqMod - 1
<1>1. n + 1 \in Nat
  BY WidthAssumption, SMT
<1>2. QED
  BY <1>1, WidthAssumption, DivisionFacts

(* What starting a NALU does, whichever packet carries it.                 *)
LEMMA StartNaluFacts ==
  ASSUME IInv, StartNalu
  PROVE  /\ nalu' = [data |-> next_nalu_ptr, len |-> NextLen]
         /\ nalu' \in [data : Nat, len : Nat]
         /\ nalu'.data = next_nalu_ptr /\ nalu'.len = NextLen
         /\ nalu'.data \in 1 .. Len(inbuf)
         /\ NextLen \in Nat \ {0}
         /\ next_nalu_ptr' \in Nat
         /\ next_nalu_ptr' = IF nalu'.data = Len(inbuf) THEN NULL
                             ELSE nalu'.data + 1
         /\ ts_current_sample' \in 0 .. TsMod - 1
         /\ NaluFollows
         /\ max_pkt_len \in Nat \ {0}
<1>1. NaluFollows
  BY DEF StartNalu, TakeNalu
<1>2. /\ next_nalu_ptr \in 1 .. Len(inbuf) /\ Len(inbuf) \in Nat
      /\ NextLen \in Nat \ {0}
  BY <1>1, NextNaluFacts
<1>3. nalu' = [data |-> next_nalu_ptr, len |-> NextLen]
  BY DEF StartNalu, TakeNalu
<1>4. next_nalu_ptr' = IF next_nalu_ptr = Len(inbuf) THEN NULL
                       ELSE next_nalu_ptr + 1
  BY DEF StartNalu, TakeNalu
<1>5. ts_current_sample' \in 0 .. TsMod - 1
  BY SamplesInRange DEF StartNalu
<1>6. max_pkt_len \in Nat \ {0}
  BY PktLensAssumption DEF IInv, TypeOK
<1>7. QED
  BY <1>1, <1>2, <1>3, <1>4, <1>5, <1>6, SMT DEF NULL

(* A NALU that fits: one packet, and nothing is being cut afterwards.      *)
LEMMA GetSingleKeepsIInv == IInv /\ GetSingle => IInv'
<1> SUFFICES ASSUME IInv, GetSingle PROVE IInv'
  OBVIOUS
<1> USE DEF GetSingle
<1>1. StartNalu
  OBVIOUS
<1>2. /\ next_nalu_ptr \in Nat /\ 1 \in Nat /\ NextLen - 1 \in Nat
      /\ 13 \in Nat /\ "single" \in Kinds
  BY <1>1, StartNaluFacts, NextNaluFacts DEF Kinds
<1>3. seq_num \in 0 .. SeqMod - 1 /\ ts_current_sample' \in 0 .. TsMod - 1
  BY <1>1, StartNaluFacts DEF IInv, TypeOK
<1>4. /\ seq_num' \in 0 .. SeqMod - 1
      /\ pkt' \in [kind : Kinds, nalu : Nat, from : Nat, count : Nat,
                   size : Nat, marker : BOOLEAN, seq : 0 .. SeqMod - 1,
                   ts : 0 .. TsMod - 1]
      /\ pkt'.from = 1 /\ pkt'.count = NextLen - 1 /\ pkt'.marker
      /\ pkt'.size = NextLen - 1 + 13 /\ pkt'.size <= OutbufSize
  BY <1>2, <1>3, SeqNumInRange, SMT DEF Emit
<1>5. TypeOK'
  BY <1>1, <1>3, <1>4, StartNaluFacts
     DEF IInv, TypeOK, StartNalu, Getting, params, fu
<1>6. ~Cutting'
  BY DEF Cutting
<1>7. CopiesInBounds'
  <2>1. NextLen \in Nat /\ nalu'.len = NextLen
    BY <1>1, StartNaluFacts
  <2>2. QED
    BY <1>4, <2>1, SMT DEF CopiesInBounds
<1>8. QED
  BY <1>1, <1>4, <1>5, <1>6, <1>7
     DEF IInv, FragmentsAddUp, PacketBehindNext, AbortsOnlyIfTooLong,
         StartNalu, Getting, params

(* The first fragment: its successors will add up to the NALU.             *)
LEMMA GetFirstFUKeepsIInv == IInv /\ GetFirstFU => IInv'
<1> SUFFICES ASSUME IInv, GetFirstFU PROVE IInv'
  OBVIOUS
<1> USE DEF GetFirstFU
<1>1. StartNalu
  OBVIOUS
<1>2. /\ next_nalu_ptr \in Nat /\ max_pkt_len \in Nat \ {0}
      /\ NextLen \in Nat /\ NextLen > max_pkt_len /\ "first" \in Kinds
  BY <1>1, StartNaluFacts DEF Kinds, IInv, TypeOK
<1>3. seq_num \in 0 .. SeqMod - 1 /\ ts_current_sample' \in 0 .. TsMod - 1
  BY <1>1, StartNaluFacts DEF IInv, TypeOK
<1>4. /\ seq_num' \in 0 .. SeqMod - 1
      /\ pkt' \in [kind : Kinds, nalu : Nat, from : Nat, count : Nat,
                   size : Nat, marker : BOOLEAN, seq : 0 .. SeqMod - 1,
                   ts : 0 .. TsMod - 1]
      /\ pkt'.kind = "first" /\ pkt'.nalu = next_nalu_ptr
      /\ pkt'.from = 1 /\ pkt'.count = max_pkt_len
      /\ pkt'.size = max_pkt_len + 14 /\ pkt'.size <= OutbufSize
      /\ pkt'.ts = ts_current_sample' /\ (pkt'.seq + 1) % SeqMod = seq_num'
  BY <1>2, <1>3, SeqNumInRange, SMT DEF Emit
<1>5. /\ FU_counter' \in Nat \ {0} /\ last_FU_size' \in 1 .. max_pkt_len
      /\ FU_counter' * max_pkt_len + last_FU_size' = NextLen
  BY <1>2, FragmentSizes
<1>6. TypeOK'
  <2>1. FU_counter' \in Nat /\ last_FU_size' \in Nat /\ FU_index' \in Nat
    BY <1>2, <1>5, SMT
  <2>2. QED
    BY <1>1, <1>3, <1>4, <2>1, StartNaluFacts
       DEF IInv, TypeOK, StartNalu, Getting, params
<1>7. /\ nalu'.data \in DOMAIN inbuf /\ nalu'.data # 0
      /\ nalu'.len = inbuf[nalu'.data]
  BY <1>1, StartNaluFacts DEF NaluFollows, NextLen
<1>8. FragmentsAddUp'
  <2>1. FU_index' \in 1 .. FU_counter'
    BY <1>5, SMT
  <2>2. nalu'.len = NextLen
    BY <1>1, StartNaluFacts
  <2>3. next_nalu_ptr' = IF nalu'.data = Len(inbuf) THEN NULL
                         ELSE nalu'.data + 1
    BY <1>1, StartNaluFacts
  <2>4. QED
    BY <1>1, <1>5, <1>7, <2>1, <2>2, <2>3
       DEF FragmentsAddUp, Cutting, StartNalu, Getting, params, NULL
<1>9. PacketBehindNext'
  <2>1. FUStart' = 1 + max_pkt_len
    BY <1>1, <1>2, SMT DEF FUStart, StartNalu, params
  <2>2. pkt'.nalu = nalu'.data
    BY <1>1, <1>4, StartNaluFacts
  <2>3. QED
    BY <1>2, <1>4, <2>1, <2>2, SMT DEF PacketBehindNext
<1>10. CopiesInBounds'
  <2>1. nalu'.len = NextLen
    BY <1>1, StartNaluFacts
  <2>2. QED
    BY <1>2, <1>4, <2>1, SMT DEF CopiesInBounds
<1>11. QED
  BY <1>1, <1>6, <1>8, <1>9, <1>10
     DEF IInv, AbortsOnlyIfTooLong, StartNalu, Getting, params

(* While a NALU is cut: where the fragment at FU_index starts and ends.    *)
LEMMA FragmentFacts ==
  ASSUME IInv, NextFU
  PROVE  /\ Cutting
         /\ max_pkt_len \in Nat \ {0} /\ nalu \in [data : Nat, len : Nat]
         /\ FU_index \in Nat \ {0} /\ FU_counter \in Nat
         /\ FU_index <= FU_counter /\ last_FU_size \in 1 .. max_pkt_len
         /\ FU_index * max_pkt_len \in Nat
         /\ FU_counter * max_pkt_len + last_FU_size = nalu.len
         /\ FUStart \in Nat
         /\ FU_index = FU_counter => FUStart + (last_FU_size - 1) = nalu.len
         /\ FU_index # FU_counter => FUStart + max_pkt_len <= nalu.len
<1>1. Cutting
  BY DEF NextFU, Getting, IInv, FragmentsAddUp
<1>2. /\ max_pkt_len \in Nat \ {0} /\ nalu \in [data : Nat, len : Nat]
      /\ FU_index \in Nat /\ FU_counter \in Nat
      /\ FU_index \in 1 .. FU_counter /\ last_FU_size \in 1 .. max_pkt_len
      /\ FU_counter * max_pkt_len + last_FU_size = nalu.len
  BY <1>1, PktLensAssumption DEF IInv, TypeOK, FragmentsAddUp
<1>3. FU_index * max_pkt_len \in Nat /\ FU_counter * max_pkt_len \in Nat
  BY <1>2, SMT
<1>4. FUStart \in Nat /\ FUStart = 1 + FU_index * max_pkt_len
  BY <1>3, SMT DEF FUStart
<1>5. FU_index = FU_counter => FUStart + (last_FU_size - 1) = nalu.len
  BY <1>2, <1>3, <1>4, SMT
<1>6. ASSUME FU_index # FU_counter
      PROVE  FUStart + max_pkt_len <= nalu.len
  <2>1. FU_index + 1 <= FU_counter
    BY <1>2, <1>6, SMT
  <2>2. (FU_index + 1) * max_pkt_len <= FU_counter * max_pkt_len
    BY <1>2, <2>1, TimesMonotonic
  <2>3. (FU_index + 1) * max_pkt_len = FU_index * max_pkt_len + max_pkt_len
    BY <1>2, SMT
  <2>4. QED
    BY <1>2, <1>3, <1>4, <2>2, <2>3, SMT
<1>7. QED
  BY <1>1, <1>2, <1>3, <1>4, <1>5, <1>6, SMT

(* A middle fragment: there is room for it before the last one.            *)
LEMMA GetMiddleFUKeepsIInv == IInv /\ GetMiddleFU => IInv'
<1> SUFFICES ASSUME IInv, GetMiddleFU PROVE IInv'
  OBVIOUS
<1> USE DEF GetMiddleFU
<1>1. NextFU
  OBVIOUS
<1>2. /\ seq_num \in 0 .. SeqMod - 1 /\ "middle" \in Kinds
      /\ ts_current_sample' = ts_current_sample
      /\ ts_current_sample \in 0 .. TsMod - 1
      /\ nalu.data \in Nat /\ max_pkt_len \in Nat /\ FUStart \in Nat
  BY <1>1, FragmentFacts DEF NextFU, IInv, TypeOK, Kinds
<1>3. /\ seq_num' \in 0 .. SeqMod - 1
      /\ pkt' \in [kind : Kinds, nalu : Nat, from : Nat, count : Nat,
                   size : Nat, marker : BOOLEAN, seq : 0 .. SeqMod - 1,
                   ts : 0 .. TsMod - 1]
      /\ pkt'.kind = "middle" /\ pkt'.nalu = nalu.data
      /\ pkt'.from = FUStart /\ pkt'.count = max_pkt_len
      /\ pkt'.size = max_pkt_len + 14 /\ pkt'.size <= OutbufSize
      /\ pkt'.ts = ts_current_sample /\ (pkt'.seq + 1) % SeqMod = seq_num'
  BY <1>2, SeqNumInRange, SMT DEF Emit
<1>4. FU_index' \in 1 .. FU_counter /\ FU_index' \in Nat
  BY <1>1, FragmentFacts, SMT
<1>5. TypeOK'
  BY <1>1, <1>2, <1>3, <1>4 DEF IInv, TypeOK, NextFU, params
<1>6. FragmentsAddUp'
  BY <1>1, <1>4, FragmentFacts
     DEF IInv, FragmentsAddUp, Cutting, NextFU, params, NULL
<1>7. PacketBehindNext'
  <2>1. (FU_index + 1) * max_pkt_len = FU_index * max_pkt_len + max_pkt_len
    BY <1>1, FragmentFacts, SMT
  <2>2. FUStart' = 1 + (FU_index + 1) * max_pkt_len
    BY <1>1 DEF FUStart, NextFU, params
  <2>3. pkt'.from + pkt'.count = FUStart'
    BY <1>1, <1>3, <2>1, <2>2, FragmentFacts, SMT DEF FUStart
  <2>4. ~nalu_complete' /\ nalu' = nalu
    BY <1>1 DEF NextFU
  <2>5. QED
    BY <1>2, <1>3, <2>3, <2>4 DEF PacketBehindNext
<1>8. CopiesInBounds'
  BY <1>1, <1>3, FragmentFacts, SMT DEF CopiesInBounds, NextFU
<1>9. QED
  BY <1>1, <1>5, <1>6, <1>7, <1>8
     DEF IInv, AbortsOnlyIfTooLong, NextFU, Getting, params

(* The last fragment ends with the NALU.                                   *)
LEMMA GetLastFUKeepsIInv == IInv /\ GetLastFU => IInv'
<1> SUFFICES ASSUME IInv, GetLastFU PROVE IInv'
  OBVIOUS
<1> USE DEF GetLastFU
<1>1. NextFU
  OBVIOUS
<1>2. /\ seq_num \in 0 .. SeqMod - 1 /\ "last" \in Kinds
      /\ ts_current_sample' = ts_current_sample
      /\ ts_current_sample \in 0 .. TsMod - 1
      /\ nalu.data \in Nat /\ FUStart \in Nat
  BY <1>1, FragmentFacts DEF NextFU, IInv, TypeOK, Kinds
<1>3. last_FU_size - 1 \in Nat
  BY <1>1, FragmentFacts, SMT
<1>4. /\ seq_num' \in 0 .. SeqMod - 1
      /\ pkt' \in [kind : Kinds, nalu : Nat, from : Nat, count : Nat,
                   size : Nat, marker : BOOLEAN, seq : 0 .. SeqMod - 1,
                   ts : 0 .. TsMod - 1]
      /\ pkt'.from = FUStart /\ pkt'.count = last_FU_size - 1
      /\ pkt'.size = last_FU_size - 1 + 14 /\ pkt'.size <= OutbufSize
      /\ pkt'.marker
  BY <1>2, <1>3, SeqNumInRange, SMT DEF Emit
<1>5. TypeOK'
  BY <1>1, <1>2, <1>4 DEF IInv, TypeOK, NextFU, params
<1>6. ~Cutting'
  BY DEF Cutting
<1>7. CopiesInBounds'
  <2>1. FUStart + (last_FU_size - 1) <= nalu.len /\ nalu.len \in Nat
    BY <1>1, <1>3, FragmentFacts, SMT
  <2>2. QED
    BY <1>1, <1>3, <1>4, <2>1, SMT DEF CopiesInBounds, NextFU
<1>8. QED
  BY <1>1, <1>4, <1>5, <1>6, <1>7
     DEF IInv, FragmentsAddUp, PacketBehindNext, AbortsOnlyIfTooLong,
         NextFU, Getting, params

(* The other operations leave the packet alone.                            *)
LEMMA PackPutKeepsIInv ==
  ASSUME IInv, NEW buf \in Buffers, PackPut(buf)
  PROVE  IInv'
<1>1. TypeOK'
  BY DEF IInv, TypeOK, PackPut
<1>2. ~Cutting'
  BY DEF PackPut, Cutting
<1>3. QED
  BY <1>1, <1>2
     DEF PackPut, IInv, FragmentsAddUp, PacketBehindNext, CopiesInBounds,
         AbortsOnlyIfTooLong

LEMMA GetNothingKeepsIInv == IInv /\ GetNothing => IInv'
<1> SUFFICES ASSUME IInv, GetNothing PROVE IInv'
  OBVIOUS
<1>1. TypeOK'
  BY DEF IInv, TypeOK, GetNothing, params, fu
<1>2. ~Cutting'
  BY DEF GetNothing, Cutting
<1>3. QED
  BY <1>1, <1>2
     DEF GetNothing, Getting, IInv, FragmentsAddUp, PacketBehindNext,
         CopiesInBounds, AbortsOnlyIfTooLong, params

(* abort() and pack_close change nothing but the status.                   *)
LEMMA StatusStepKeepsIInv ==
  ASSUME IInv, Abort \/ PackClose
  PROVE  IInv'
<1>1. /\ status' \in {"closed", "aborted"}
      /\ UNCHANGED <<max_pkt_len, inbuf, next_nalu_ptr, inbuf_complete,
                    nalu_complete, nalu, fu, seq_num, ts_current_sample, pkt>>
  BY DEF Abort, PackClose
<1>2. TypeOK' /\ FragmentsAddUp' /\ PacketBehindNext' /\ CopiesInBounds'
  BY <1>1 DEF IInv, TypeOK, FragmentsAddUp, PacketBehindNext, CopiesInBounds,
              Cutting, FUStart, fu
<1>3. ASSUME Abort
      PROVE  max_pkt_len + 14 > OutbufSize
  <2>1. max_pkt_len \in Nat \ {0}
    BY PktLensAssumption DEF IInv, TypeOK
  <2>2. CASE nalu_complete
    <3>1. NextLen \in Nat
      BY <1>3, <2>2, NextNaluFacts DEF Abort
    <3>2. QED
      BY <1>3, <2>1, <2>2, <3>1, OutbufAssumption, SMT DEF Abort, OutSize
  <2>3. CASE ~nalu_complete
    <3>1. last_FU_size \in 1 .. max_pkt_len
      BY <1>3, <2>3 DEF Abort, Getting, IInv, FragmentsAddUp
    <3>2. QED
      BY <1>3, <2>1, <2>3, <3>1, OutbufAssumption, SMT DEF Abort, OutSize
  <2>4. QED
    BY <2>2, <2>3
<1>4. AbortsOnlyIfTooLong'
  BY <1>1, <1>3 DEF AbortsOnlyIfTooLong, Abort, PackClose
<1>5. QED
  BY <1>2, <1>4 DEF IInv

(* The invariant is inductive.                                             *)
LEMMA NextKeepsIInv == IInv /\ [Next]_vars => IInv'
<1> SUFFICES ASSUME IInv, [Next]_vars PROVE IInv'
  OBVIOUS
<1>1. ASSUME NEW buf \in Buffers, PackPut(buf) PROVE IInv'
  BY <1>1, PackPutKeepsIInv
<1>2. CASE GetSingle
  BY <1>2, GetSingleKeepsIInv
<1>3. CASE GetFirstFU
  BY <1>3, GetFirstFUKeepsIInv
<1>4. CASE GetMiddleFU
  BY <1>4, GetMiddleFUKeepsIInv
<1>5. CASE GetLastFU
  BY <1>5, GetLastFUKeepsIInv
<1>6. CASE GetNothing
  BY <1>6, GetNothingKeepsIInv
<1>7. CASE Abort \/ PackClose
  BY <1>7, StatusStepKeepsIInv
<1>8. CASE UNCHANGED vars
  BY <1>8 DEF vars, params, fu, IInv, TypeOK, FragmentsAddUp, PacketBehindNext,
              CopiesInBounds, AbortsOnlyIfTooLong, Cutting, FUStart
<1>9. QED
  BY <1>1, <1>2, <1>3, <1>4, <1>5, <1>6, <1>7, <1>8 DEF Next, PackGet

(* Whatever a caller puts and gets, in every reachable state: the handle   *)
(* is well typed, the fragments still to come add up to the NALU in hand,  *)
(* the last packet ends where the next begins, no copy leaves its buffers, *)
(* and abort() is reached only with a max_pkt_len outbuf has no room for.  *)
THEOREM PackerInvariant == Spec => []IInv
<1>1. Init => IInv
  BY InitEstablishesIInv
<1>2. IInv /\ [Next]_vars => IInv'
  BY NextKeepsIInv
<1>3. QED
  BY <1>1, <1>2, PTL DEF Spec

(* The packer's variables keep their types, for any lengths.               *)
THEOREM PackerTypes == Spec => []TypeOK
<1>1. IInv => TypeOK
  BY DEF IInv
<1>2. QED
  BY <1>1, PackerInvariant, PTL

(* The safety parts of the invariant, by name.                             *)
THEOREM PackerSafety ==
  Spec => /\ []FragmentsAddUp
          /\ []PacketBehindNext
          /\ []CopiesInBounds
          /\ []AbortsOnlyIfTooLong
<1>1. IInv => /\ FragmentsAddUp /\ PacketBehindNext /\ CopiesInBounds
              /\ AbortsOnlyIfTooLong
  BY DEF IInv
<1>2. QED
  BY <1>1, PackerInvariant, PTL

--------------------------------------------------------------------------------
(* The packets as the receiver sees them.                                  *)

(* A fragment that continues a NALU continues the packet sent before it,   *)
(* and no NALU of a buffer begins before the previous one was closed.      *)
THEOREM PackerChains == Spec => FragmentsChain
<1>1. ASSUME IInv, Next PROVE ChainStep
  <2>1. CASE GetSingle \/ GetFirstFU
    <3>1. StartNalu /\ nalu_complete
      BY <2>1 DEF GetSingle, GetFirstFU, StartNalu
    <3>2. pkt'.kind \in {"single", "first"} /\ pkt'.nalu = next_nalu_ptr
      BY <2>1 DEF GetSingle, GetFirstFU, Emit
    <3>3. QED
      BY <1>1, <3>1, <3>2 DEF ChainStep, IInv, PacketBehindNext
  <2>2. CASE GetMiddleFU \/ GetLastFU
    <3>1. NextFU
      BY <2>2 DEF GetMiddleFU, GetLastFU
    <3>2. Cutting /\ PacketBehindNext
      BY <1>1, <3>1, FragmentFacts DEF IInv
    <3>3. /\ pkt'.kind \in {"middle", "last"} /\ pkt'.nalu = nalu.data
          /\ pkt'.from = FUStart /\ pkt'.seq = seq_num
          /\ pkt'.ts = ts_current_sample
      BY <2>2, <3>1 DEF GetMiddleFU, GetLastFU, Emit, NextFU
    <3>4. QED
      BY <3>2, <3>3 DEF ChainStep, PacketBehindNext
  <2>3. CASE GetNothing \/ Abort \/ PackClose
    BY <2>3 DEF GetNothing, Abort, PackClose, ChainStep
  <2>4. ASSUME NEW buf \in Buffers, PackPut(buf) PROVE ChainStep
    BY <2>4 DEF PackPut, ChainStep
  <2>5. QED
    BY <1>1, <2>1, <2>2, <2>3, <2>4 DEF Next, PackGet
<1>2. IInv /\ [Next]_vars => [ChainStep]_vars
  BY <1>1
<1>3. QED
  BY <1>2, PackerInvariant, PTL DEF Spec, FragmentsChain

(* What is left of a buffer from its p-th NALU on.                         *)
LEMMA SuffixFacts ==
  ASSUME NEW buf \in Buffers, NEW p \in 1 .. Len(buf)
  PROVE  /\ SubSeq(buf, p, Len(buf)) # <<>>
         /\ Head(SubSeq(buf, p, Len(buf))) = buf[p]
         /\ Tail(SubSeq(buf, p, Len(buf))) = SubSeq(buf, p + 1, Len(buf))
<1>1. buf \in Seq(NaluLens) /\ Len(buf) \in Nat
  BY BuffersAreSequences
<1>2. Len(SubSeq(buf, p, Len(buf))) = Len(buf) - p + 1
  BY <1>1, SubSeqProperties, SMT
<1>3. SubSeq(buf, p, Len(buf)) # <<>>
  <2>1. Len(SubSeq(buf, p, Len(buf))) # 0
    BY <1>1, <1>2, SMT
  <2>2. Len(<<>>) = 0
    OBVIOUS
  <2>3. QED
    BY <2>1, <2>2, Zenon
<1>4. QED
  BY <1>1, <1>3, HeadTailOfSubSeq, SMT

(* The receiver's view of a packet just handed over.                       *)
LEMMA LastPieceFacts ==
  ASSUME pkt'.kind # "none", pkt'.from \in Nat, pkt'.count \in Nat
  PROVE  LastPiece' = [seq |-> pkt'.seq, from |-> pkt'.from,
                       upto |-> pkt'.from + pkt'.count - 1,
                       marker |-> pkt'.marker]
BY DEF LastPiece

(* The receiver's state under the refinement mapping: what is left of the  *)
(* buffer, and how much of its first NALU was sent.                        *)
Left == SubSeq(inbuf, TodoFrom, Len(inbuf))
Got  == IF Cutting THEN FU_index * max_pkt_len ELSE 0

(* A packet that starts a NALU: the receiver expects exactly this NALU.    *)
LEMMA StartMapped ==
  ASSUME IInv, StartNalu
  PROVE  /\ ~Cutting /\ Got = 0
         /\ Left # <<>>
         /\ Head(Left) = NextLen
         /\ Tail(Left) = SubSeq(inbuf, next_nalu_ptr + 1, Len(inbuf))
         /\ TodoFrom = next_nalu_ptr
<1>1. ~Cutting /\ Got = 0
  BY DEF StartNalu, Cutting, Got
<1>2. TodoFrom = next_nalu_ptr
  BY <1>1, StartNaluFacts DEF TodoFrom
<1>3. inbuf \in Buffers /\ next_nalu_ptr \in 1 .. Len(inbuf)
  BY StartNaluFacts, NextNaluFacts DEF IInv, TypeOK
<1>4. QED
  BY <1>1, <1>2, <1>3, SuffixFacts DEF Left, NextLen

(* A fragment that continues a NALU.                                       *)
LEMMA ContinueMapped ==
  ASSUME IInv, NextFU
  PROVE  /\ Cutting /\ Got = FU_index * max_pkt_len
         /\ Left # <<>>
         /\ Head(Left) = nalu.len
         /\ Tail(Left) = SubSeq(inbuf, nalu.data + 1, Len(inbuf))
<1>1. Cutting
  BY FragmentFacts
<1>2. inbuf \in Buffers /\ nalu.data \in DOMAIN inbuf
      /\ nalu.len = inbuf[nalu.data]
  BY <1>1 DEF IInv, TypeOK, FragmentsAddUp
<1>3. nalu.data \in 1 .. Len(inbuf)
  BY <1>2, BuffersAreSequences
<1>4. QED
  BY <1>1, <1>2, <1>3, SuffixFacts DEF Left, Got, TodoFrom

(* After the packet that closes a NALU, the suffix behind it is left.      *)
LEMMA ClosedMapped ==
  ASSUME IInv, ~Cutting', inbuf' = inbuf, NEW p \in 1 .. Len(inbuf),
         next_nalu_ptr' = IF p = Len(inbuf) THEN NULL ELSE p + 1
  PROVE  Got' = 0 /\ Left' = SubSeq(inbuf, p + 1, Len(inbuf))
<1>1. Len(inbuf) \in Nat /\ DOMAIN inbuf = 1 .. Len(inbuf)
  BY BuffersAreSequences DEF IInv, TypeOK
<1>2. TodoFrom' = p + 1
  <2>1. CASE p = Len(inbuf)
    <3>1. ~NaluFollows'
      BY <1>1, <2>1, SMT DEF NaluFollows, NULL
    <3>2. QED
      BY <2>1, <3>1 DEF TodoFrom
  <2>2. CASE p # Len(inbuf)
    <3>1. NaluFollows'
      <4>1. \A n \in Nat : \A i \in 1 .. n : i # n => i + 1 \in 1 .. n
        BY SMT
      <4>2. QED
        BY <1>1, <2>2, <4>1, Zenon DEF NaluFollows
    <3>2. QED
      BY <2>2, <3>1 DEF TodoFrom
  <2>3. QED
    BY <2>1, <2>2
<1>3. QED
  BY <1>2 DEF Got, Left

(* What the receiver sees of each operation.                               *)
LEMMA SingleMapped == IInv /\ GetSingle => Stream!CloseNalu
<1> SUFFICES ASSUME IInv, GetSingle PROVE Stream!CloseNalu
  OBVIOUS
<1>1. StartNalu
  BY DEF GetSingle
<1>2. /\ next_nalu_ptr \in 1 .. Len(inbuf) /\ NextLen \in Nat \ {0}
      /\ inbuf' = inbuf
      /\ next_nalu_ptr' = IF next_nalu_ptr = Len(inbuf) THEN NULL
                          ELSE next_nalu_ptr + 1
  BY <1>1, StartNaluFacts, NextNaluFacts DEF StartNalu, TakeNalu
<1>3. ~Cutting'
  BY DEF GetSingle, Cutting
<1>4. Got' = 0 /\ Left' = Tail(Left)
  BY <1>1, <1>2, <1>3, ClosedMapped, StartMapped
<1>5. /\ pkt'.kind = "single" /\ pkt'.from = 1 /\ pkt'.count = NextLen - 1
      /\ pkt'.seq = seq_num /\ pkt'.marker = TRUE
      /\ seq_num' = (seq_num + 1) % SeqMod
  BY DEF GetSingle, Emit
<1>6. LastPiece' = [seq |-> seq_num, from |-> 0 + 1, upto |-> NextLen - 1,
                    marker |-> TRUE]
  <2>1. pkt'.from \in Nat /\ pkt'.count \in Nat
    BY <1>2, <1>5, SMT
  <2>2. pkt'.from + pkt'.count - 1 = NextLen - 1
    BY <1>2, <1>5, SMT
  <2>3. QED
    BY <1>5, <2>1, <2>2, LastPieceFacts
<1>7. NextLen - 1 \in 0 .. NextLen - 1
  BY <1>2, SMT
<1>8. QED
  BY <1>1, <1>4, <1>5, <1>6, <1>7, StartMapped
     DEF Stream!CloseNalu, Stream!Piece, Left, Got

LEMMA FirstFUMapped == IInv /\ GetFirstFU => Stream!SendPiece
<1> SUFFICES ASSUME IInv, GetFirstFU PROVE Stream!SendPiece
  OBVIOUS
<1>1. StartNalu
  BY DEF GetFirstFU
<1>2. /\ NextLen \in Nat \ {0} /\ max_pkt_len \in Nat \ {0}
      /\ NextLen > max_pkt_len /\ inbuf' = inbuf /\ FU_index' = 1
      /\ max_pkt_len' = max_pkt_len
  BY <1>1, StartNaluFacts DEF GetFirstFU, StartNalu, params
<1>3. nalu'.data = next_nalu_ptr /\ nalu'.data # 0 /\ Cutting'
  BY <1>1, StartNaluFacts, NextNaluFacts, SMT DEF GetFirstFU, Cutting
<1>4. Got' = max_pkt_len /\ Left' = Left
  <2>1. TodoFrom' = TodoFrom
    BY <1>1, <1>3, StartMapped DEF TodoFrom
  <2>2. Got' = 1 * max_pkt_len
    BY <1>2, <1>3 DEF Got
  <2>3. QED
    BY <1>2, <2>1, <2>2, SMT DEF Left
<1>5. /\ pkt'.kind = "first" /\ pkt'.from = 1 /\ pkt'.count = max_pkt_len
      /\ pkt'.seq = seq_num /\ pkt'.marker = FALSE
      /\ seq_num' = (seq_num + 1) % SeqMod
  BY DEF GetFirstFU, Emit
<1>6. LastPiece' = [seq |-> seq_num, from |-> 0 + 1, upto |-> max_pkt_len,
                    marker |-> FALSE]
  <2>1. pkt'.from \in Nat /\ pkt'.count \in Nat
    BY <1>2, <1>5, SMT
  <2>2. pkt'.from + pkt'.count - 1 = max_pkt_len
    BY <1>2, <1>5, SMT
  <2>3. QED
    BY <1>5, <2>1, <2>2, LastPieceFacts
<1>7. max_pkt_len \in 0 .. NextLen - 1
  BY <1>2, SMT
<1>8. QED
  BY <1>1, <1>4, <1>5, <1>6, <1>7, StartMapped
     DEF Stream!SendPiece, Stream!Piece, Left, Got

LEMMA MiddleFUMapped == IInv /\ GetMiddleFU => Stream!SendPiece
<1> SUFFICES ASSUME IInv, GetMiddleFU PROVE Stream!SendPiece
  OBVIOUS
<1>1. NextFU
  BY DEF GetMiddleFU
<1>2. /\ max_pkt_len' = max_pkt_len /\ inbuf' = inbuf /\ nalu' = nalu
      /\ FU_index' = FU_index + 1 /\ Cutting /\ Cutting'
  BY <1>1, FragmentFacts DEF GetMiddleFU, NextFU, params, Cutting
<1> DEFINE upto == FU_index * max_pkt_len + max_pkt_len
<1>3. Got' = upto /\ Left' = Left
  <2>1. Got' = (FU_index + 1) * max_pkt_len
    BY <1>2 DEF Got
  <2>2. (FU_index + 1) * max_pkt_len = upto
    BY <1>1, FragmentFacts, SMT
  <2>3. QED
    BY <1>2, <2>1, <2>2 DEF Left, TodoFrom
<1>4. /\ pkt'.kind = "middle" /\ pkt'.from = FUStart
      /\ pkt'.count = max_pkt_len
      /\ pkt'.seq = seq_num /\ pkt'.marker = FALSE
      /\ seq_num' = (seq_num + 1) % SeqMod
  BY DEF GetMiddleFU, Emit
<1>5. LastPiece' = [seq |-> seq_num, from |-> FU_index * max_pkt_len + 1,
                    upto |-> upto, marker |-> FALSE]
  <2>1. FUStart = FU_index * max_pkt_len + 1
    BY <1>1, FragmentFacts, SMT DEF FUStart
  <2>2. pkt'.from \in Nat /\ pkt'.count \in Nat
    BY <1>1, <1>4, FragmentFacts, SMT
  <2>3. pkt'.from + pkt'.count - 1 = upto
    BY <1>1, <1>4, <2>1, FragmentFacts, SMT
  <2>4. QED
    BY <1>4, <2>1, <2>2, <2>3, LastPieceFacts
<1>6. upto \in FU_index * max_pkt_len .. nalu.len - 1
  <2>1. FUStart + max_pkt_len <= nalu.len
    BY <1>1, FragmentFacts DEF GetMiddleFU
  <2>2. QED
    BY <1>1, <2>1, FragmentFacts, SMT DEF FUStart
<1> HIDE DEF upto
<1>7. QED
  BY <1>1, <1>3, <1>4, <1>5, <1>6, ContinueMapped
     DEF Stream!SendPiece, Stream!Piece, Left, Got

LEMMA LastFUMapped == IInv /\ GetLastFU => Stream!CloseNalu
<1> SUFFICES ASSUME IInv, GetLastFU PROVE Stream!CloseNalu
  OBVIOUS
<1>1. NextFU
  BY DEF GetLastFU
<1>2. inbuf' = inbuf /\ next_nalu_ptr' = next_nalu_ptr /\ ~Cutting'
  BY <1>1 DEF GetLastFU, NextFU, Cutting
<1>3. /\ nalu.data \in 1 .. Len(inbuf)
      /\ next_nalu_ptr = IF nalu.data = Len(inbuf) THEN NULL
                         ELSE nalu.data + 1
  BY <1>1, FragmentFacts, BuffersAreSequences DEF IInv, TypeOK, FragmentsAddUp
<1>4. Got' = 0 /\ Left' = Tail(Left)
  BY <1>1, <1>2, <1>3, ClosedMapped, ContinueMapped
<1>5. /\ pkt'.kind = "last" /\ pkt'.from = FUStart
      /\ pkt'.count = last_FU_size - 1
      /\ pkt'.seq = seq_num /\ pkt'.marker = TRUE
      /\ seq_num' = (seq_num + 1) % SeqMod
  BY DEF GetLastFU, Emit
<1>6. LastPiece' = [seq |-> seq_num, from |-> FU_index * max_pkt_len + 1,
                    upto |-> nalu.len - 1, marker |-> TRUE]
  <2>1. FUStart = FU_index * max_pkt_len + 1
    BY <1>1, FragmentFacts, SMT DEF FUStart
  <2>2. pkt'.from \in Nat /\ pkt'.count \in Nat
    BY <1>1, <1>5, FragmentFacts, SMT
  <2>3. pkt'.from + pkt'.count - 1 = nalu.len - 1
    BY <1>1, <1>5, FragmentFacts DEF GetLastFU
  <2>4. QED
    BY <1>5, <2>1, <2>2, <2>3, LastPieceFacts
<1>7. nalu.len - 1 \in FU_index * max_pkt_len .. nalu.len - 1
  <2>1. FUStart + (last_FU_size - 1) = nalu.len
    BY <1>1, FragmentFacts DEF GetLastFU
  <2>2. QED
    BY <1>1, <2>1, FragmentFacts, SMT DEF FUStart
<1>8. QED
  BY <1>1, <1>4, <1>5, <1>6, <1>7, ContinueMapped
     DEF Stream!CloseNalu, Stream!Piece, Left, Got

LEMMA PutMapped ==
  ASSUME IInv, NEW buf \in Buffers, PackPut(buf)
  PROVE  Stream!Put
<1>1. ~Cutting' /\ Got' = 0
  BY DEF PackPut, Cutting, Got
<1>2. inbuf' = buf
  BY DEF PackPut
<1>3. buf \in Seq(NaluLens) /\ Len(buf) \in Nat /\ DOMAIN buf = 1 .. Len(buf)
      /\ \A i \in 1 .. Len(buf) : buf[i] \in NaluLens
  BY BuffersAreSequences
<1>4. TodoFrom' \in 1 .. Len(buf) + 1
  <2>1. next_nalu_ptr' = 1
    BY DEF PackPut
  <2>2. QED
    BY <1>1, <1>2, <1>3, <2>1, SMT DEF TodoFrom
<1>5. Left' \in Seq(NaluLens)
  <2>1. TodoFrom' \in Int /\ Len(buf) \in Int
    BY <1>3, <1>4, SMT
  <2>2. \A i \in TodoFrom' .. Len(buf) : buf[i] \in NaluLens
    BY <1>3, <1>4, SMT
  <2>3. SubSeq(buf, TodoFrom', Len(buf)) \in Seq(NaluLens)
    BY <2>1, <2>2, SubSeqProperties
  <2>4. QED
    BY <1>2, <2>3 DEF Left
<1>6. seq_num' = seq_num /\ LastPiece' = LastPiece
  BY DEF PackPut, LastPiece
<1>7. QED
  BY <1>1, <1>5, <1>6 DEF Stream!Put, Left, Got

LEMMA StutterMapped ==
  ASSUME IInv, GetNothing \/ Abort \/ PackClose \/ UNCHANGED vars
  PROVE  UNCHANGED Stream!svars
<1>1. UNCHANGED <<max_pkt_len, inbuf, next_nalu_ptr, nalu_complete, nalu, fu,
                  seq_num, pkt>>
  BY DEF GetNothing, Abort, PackClose, vars, params, fu
<1>2. UNCHANGED <<Cutting, TodoFrom, LastPiece>>
  BY <1>1 DEF Cutting, TodoFrom, LastPiece, NaluFollows
<1>3. QED
  BY <1>1, <1>2 DEF Stream!svars, fu

(* The packer implements the stream of NALUs NaluStream describes.         *)
THEOREM PackerImplementsStream == Spec => ImplementsStream
<1>1. Init => Stream!Init
  <2> SUFFICES ASSUME Init PROVE Stream!Init
    OBVIOUS
  <2>1. ~Cutting /\ inbuf = <<>>
    BY DEF Init, Cutting
  <2>2. TodoFrom = 1
    BY <2>1 DEF Init, TodoFrom, NaluFollows, NULL
  <2>3. SubSeq(inbuf, TodoFrom, Len(inbuf)) = <<>>
    <3>1. SubSeq(<<>>, 1, 0) = <<>>
      BY SubSeqEmpty
    <3>2. QED
      BY <2>1, <2>2, <3>1
  <2>4. LastPiece = [seq |-> 0, from |-> 0, upto |-> 0, marker |-> FALSE]
    BY DEF Init, LastPiece, NoPkt
  <2>5. QED
    BY <2>1, <2>3, <2>4 DEF Stream!Init, Init
<1>2. IInv /\ [Next]_vars => [Stream!Next]_(Stream!svars)
  <2> SUFFICES ASSUME IInv, [Next]_vars
               PROVE  [Stream!Next]_(Stream!svars)
    OBVIOUS
  <2>1. ASSUME NEW buf \in Buffers, PackPut(buf) PROVE Stream!Next
    BY <2>1, PutMapped DEF Stream!Next
  <2>2. CASE GetSingle
    BY <2>2, SingleMapped DEF Stream!Next
  <2>3. CASE GetFirstFU
    BY <2>3, FirstFUMapped DEF Stream!Next
  <2>4. CASE GetMiddleFU
    BY <2>4, MiddleFUMapped DEF Stream!Next
  <2>5. CASE GetLastFU
    BY <2>5, LastFUMapped DEF Stream!Next
  <2>6. CASE GetNothing \/ Abort \/ PackClose \/ UNCHANGED vars
    BY <2>6, StutterMapped
  <2>7. QED
    BY <2>1, <2>2, <2>3, <2>4, <2>5, <2>6 DEF Next, PackGet
<1>3. QED
  BY <1>1, <1>2, PackerInvariant, PTL DEF Spec, ImplementsStream, Stream!Spec

(* No copy leaves the output buffer or the NALU.                           *)
THEOREM CopiesStayInBounds == Spec => []CopiesInBounds
<1>1. IInv => CopiesInBounds
  BY DEF IInv
<1>2. QED
  BY <1>1, PackerInvariant, PTL

(* abort() is reached only with a max_pkt_len outbuf has no room for.      *)
THEOREM AbortsForLength == Spec => []AbortsOnlyIfTooLong
<1>1. IInv => AbortsOnlyIfTooLong
  BY DEF IInv
<1>2. QED
  BY <1>1, PackerInvariant, PTL

================================================================================
