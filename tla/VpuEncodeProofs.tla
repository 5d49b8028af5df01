--------------------------- MODULE VpuEncodeProofs ---------------------------
(***************************************************************************)
(* Proofs about the VPU encoder, for any number of handles and any length  *)
(* of the group of pictures: as long as one header loop runs at a time,    *)
(* every loop gives SPS and PPS or nothing, and the intra pictures come    *)
(* behind the headers.                                                     *)
(***************************************************************************)
EXTENDS VpuEncode, SequenceTheorems, TLAPS

(* What is noted of a header loop are sequences, and different ones.       *)
LEMMA HeaderSeqs ==
  /\ <<>> \in Seq({"SPS", "PPS"}) /\ <<"SPS">> \in Seq({"SPS", "PPS"})
  /\ Complete \in Seq({"SPS", "PPS"})
  /\ <<>> # Complete /\ <<"SPS">> # Complete /\ <<>> # <<"SPS">>
  /\ Len(<<>>) # MaxHeaders /\ Len(<<"SPS">>) # MaxHeaders
  /\ Append(<<>>, "SPS") = <<"SPS">> /\ Append(<<"SPS">>, "PPS") = Complete
<1> DEFINE S == {"SPS", "PPS"}
<1>1. <<>> \in Seq(S) /\ <<"SPS">> \in Seq(S) /\ Complete \in Seq(S)
  BY SMT DEF Complete
<1>2. Len(<<>>) = 0 /\ Len(<<"SPS">>) = 1 /\ Len(Complete) = 2
  BY SMT DEF Complete
<1>3. <<>> # Complete /\ <<"SPS">> # Complete /\ <<>> # <<"SPS">>
  <2>1. 0 # 2 /\ 1 # 2 /\ 0 # 1
    BY SMT
  <2>2. QED
    BY <1>2, <2>1, Zenon
<1>4. Len(<<>>) # MaxHeaders /\ Len(<<"SPS">>) # MaxHeaders
  BY <1>2, SMT DEF MaxHeaders
<1>5. Append(<<>>, "SPS") = <<"SPS">>
  <2>1. /\ Append(<<>>, "SPS") \in Seq(S) /\ Len(Append(<<>>, "SPS")) = 1
        /\ Append(<<>>, "SPS")[1] = "SPS" /\ <<"SPS">>[1] = "SPS"
    BY <1>1, SMT
  <2>2. QED
    BY <1>1, <1>2, <2>1, SeqEqual, SMT
<1>6. Append(<<"SPS">>, "PPS") = Complete
  <2>1. /\ Append(<<"SPS">>, "PPS") \in Seq(S)
        /\ Len(Append(<<"SPS">>, "PPS")) = 2
        /\ Append(<<"SPS">>, "PPS")[1] = "SPS"
        /\ Append(<<"SPS">>, "PPS")[2] = "PPS"
        /\ Complete[1] = "SPS" /\ Complete[2] = "PPS"
    BY <1>1, <1>2, SMT DEF Complete
  <2>2. QED
    BY <1>1, <1>2, <2>1, SeqEqual, SMT
<1>7. QED
  BY <1>1, <1>3, <1>4, <1>5, <1>6, Zenon

(* Nothing is open at first.                                               *)
LEMMA InitEstablishesIInv == Init => IInv
<1> SUFFICES ASSUME Init PROVE IInv
  OBVIOUS
<1>1. 0 \in 0 .. MaxGop - 1 /\ 0 \in 0 .. MaxGop /\ 1 \in 0 .. MaxGop
  BY MaxGopAssumption, SMT
<1>2. TypeOK
  BY <1>1, HeaderSeqs, Zenon DEF Init, TypeOK, PCs, NoPic
<1>3. QED
  BY <1>2, HeaderSeqs, Zenon
     DEF Init, IInv, HeadersInOrder, StagesInStep, GopInStep, HeadersReady,
         HeadersBeforeIntra, NoPic

(* Opening and closing leave a handle as encode_open makes it, and do not  *)
(* touch the stages: no header loop is under way for that handle.          *)
LEMMA OpenCloseKeepsIInv ==
  ASSUME IInv, NEW h \in Handles, Open(h) \/ Close(h)
  PROVE  IInv'
<1>1. /\ Fresh(h) /\ UNCHANGED statics
      /\ pc[h] \in {"closed", "idle"}
      /\ pc' = [pc EXCEPT ![h] = "idle"] \/ pc' = [pc EXCEPT ![h] = "closed"]
  BY DEF Open, Close
<1>2. 0 \in 0 .. MaxGop - 1 /\ 0 \in 0 .. MaxGop /\ 1 \in 0 .. MaxGop
  BY MaxGopAssumption, SMT
<1>3. /\ height' \in [Handles -> {"aligned", "unaligned"}]
      /\ gop' \in [Handles -> 0 .. MaxGop]
  <2>1. CASE Open(h)
    BY <2>1 DEF Open, IInv, TypeOK
  <2>2. CASE Close(h)
    BY <1>2, <2>2 DEF Close, IInv, TypeOK
  <2>3. QED
    BY <2>1, <2>2
<1>4. TypeOK'
  BY <1>1, <1>2, <1>3, HeaderSeqs DEF Fresh, NoPic, statics, PCs, IInv, TypeOK
<1>5. HeadersInOrder'
  BY <1>1 DEF Fresh, IInv, TypeOK, HeadersInOrder
<1>6. \A g \in Handles : pc'[g] = "headers" <=> pc[g] = "headers"
  BY <1>1 DEF IInv, TypeOK
<1>7. StagesInStep'
  BY <1>1, <1>6 DEF Fresh, statics, IInv, TypeOK, StagesInStep
<1>8. GopInStep' /\ HeadersReady'
  BY <1>1 DEF Fresh, IInv, TypeOK, GopInStep, HeadersReady
<1>9. HeadersBeforeIntra'
  BY <1>1 DEF Fresh, NoPic, IInv, TypeOK, HeadersBeforeIntra
<1>10. QED
  BY <1>4, <1>5, <1>7, <1>8, <1>9 DEF IInv

(* A call of encode_get_headers, when no other loop is under way.          *)
LEMMA GetHeadersKeepsIInv ==
  ASSUME IInv, OneAtATime, NEW h \in Handles, GetHeaders(h)
  PROVE  IInv'
<1>1. /\ pc[h] \in {"idle", "headers"}
      /\ \A g \in Handles \ {h} : pc[g] # "headers"
      /\ pic' = [pic EXCEPT ![h] = NoPic]
      /\ UNCHANGED <<height, gop, gop_offset_counter, forceIPicture, hwpos,
                     astray, asked>>
  BY DEF GetHeaders, NoneDue, CircleComplete, GetSPS, GetPPS, Fetching,
         unfetched, device
<1>2. GopInStep'
  BY <1>1 DEF IInv, GopInStep
<1>3. HeadersBeforeIntra'
  BY <1>1 DEF NoPic, IInv, TypeOK, HeadersBeforeIntra
<1>4. pic' \in [Handles -> [type : {"none", "I", "P", "NONE"},
                            headers : Seq({"SPS", "PPS"}),
                            asked : {"no", "early", "late"}, astray : BOOLEAN]]
  BY <1>1, HeaderSeqs DEF NoPic, IInv, TypeOK
<1>5. CASE NoneDue(h)
  <2>1. /\ pc' = [pc EXCEPT ![h] = "encode"]
        /\ UNCHANGED <<next_stage, stage_end, headers>>
        /\ gop_offset_counter[h] # 0
    BY <1>5 DEF NoneDue, LeaveLoop, statics
  <2>2. pc[h] = "idle" /\ headers[h] = <<>>
    BY <1>1, <2>1 DEF IInv, StagesInStep, HeadersInOrder
  <2>3. TypeOK'
    BY <1>1, <1>4, <2>1 DEF IInv, TypeOK, PCs
  <2>4. HeadersInOrder' /\ HeadersReady'
    BY <1>1, <2>1, <2>2, HeaderSeqs
       DEF IInv, TypeOK, HeadersInOrder, HeadersReady
  <2>5. StagesInStep'
    BY <1>1, <2>1, <2>2 DEF IInv, TypeOK, StagesInStep
  <2>6. QED
    BY <1>2, <1>3, <2>3, <2>4, <2>5 DEF IInv
<1>6. CASE CircleComplete(h)
  <2>1. /\ pc' = [pc EXCEPT ![h] = "encode"]
        /\ UNCHANGED <<next_stage, headers>>
        /\ stage_end = 1 /\ stage_end' = 0
        /\ gop_offset_counter[h] = 0
    BY <1>6 DEF CircleComplete, LeaveLoop
  <2>2. pc[h] = "headers" /\ headers[h] = Complete /\ next_stage = 0
    BY <1>1, <2>1 DEF IInv, StagesInStep
  <2>3. TypeOK'
    BY <1>1, <1>4, <2>1 DEF IInv, TypeOK, PCs
  <2>4. HeadersInOrder' /\ HeadersReady'
    BY <1>1, <2>1, <2>2, HeaderSeqs
       DEF IInv, TypeOK, HeadersInOrder, HeadersReady
  <2>5. StagesInStep'
    BY <1>1, <2>1, <2>2 DEF IInv, TypeOK, StagesInStep
  <2>6. QED
    BY <1>2, <1>3, <2>3, <2>4, <2>5 DEF IInv
<1>7. CASE GetSPS(h)
  <2>1. /\ Fetch(h, "SPS")
        /\ stage_end = 0 /\ next_stage = 0
        /\ next_stage' = 2 /\ stage_end' = 0
        /\ gop_offset_counter[h] = 0
    BY <1>7 DEF GetSPS
  <2>2. pc[h] = "idle" /\ headers[h] = <<>>
    BY <1>1, <2>1 DEF IInv, StagesInStep, HeadersInOrder
  <2>3. /\ pc' = [pc EXCEPT ![h] = "headers"]
        /\ headers' = [headers EXCEPT ![h] = <<"SPS">>]
    BY <2>1, <2>2, HeaderSeqs DEF Fetch, IInv, TypeOK
  <2>4. TypeOK'
    BY <1>1, <1>4, <2>1, <2>3, HeaderSeqs DEF IInv, TypeOK, PCs
  <2>5. HeadersInOrder' /\ HeadersReady'
    BY <1>1, <2>3, HeaderSeqs DEF IInv, TypeOK, HeadersInOrder, HeadersReady
  <2>6. StagesInStep'
    BY <1>1, <2>1, <2>3 DEF IInv, TypeOK, StagesInStep
  <2>7. QED
    BY <1>2, <1>3, <2>4, <2>5, <2>6 DEF IInv
<1>8. CASE GetPPS(h)
  <2>1. /\ Fetch(h, "PPS")
        /\ stage_end = 0 /\ next_stage = 2
        /\ next_stage' = 0 /\ stage_end' = 1
        /\ gop_offset_counter[h] = 0
    BY <1>8 DEF GetPPS
  <2>2. pc[h] = "headers" /\ headers[h] = <<"SPS">>
    BY <1>1, <2>1 DEF IInv, StagesInStep
  <2>3. /\ pc' = [pc EXCEPT ![h] = "headers"]
        /\ headers' = [headers EXCEPT ![h] = Complete]
    BY <2>1, <2>2, HeaderSeqs DEF Fetch, IInv, TypeOK
  <2>4. TypeOK'
    BY <1>1, <1>4, <2>1, <2>3, HeaderSeqs DEF IInv, TypeOK, PCs
  <2>5. HeadersInOrder' /\ HeadersReady'
    BY <1>1, <2>3, HeaderSeqs DEF IInv, TypeOK, HeadersInOrder, HeadersReady
  <2>6. StagesInStep'
    BY <1>1, <2>1, <2>3 DEF IInv, TypeOK, StagesInStep
  <2>7. QED
    BY <1>2, <1>3, <2>4, <2>5, <2>6 DEF IInv
<1>9. QED
  BY <1>5, <1>6, <1>7, <1>8 DEF GetHeaders

(* encode_do that fails or aborts: the counter stays where it is, so that  *)
(* the headers will be due again if they were.                             *)
LEMMA FailedEncodeKeepsIInv ==
  ASSUME IInv, NEW h \in Handles, FillAborts(h) \/ EncodeFails(h)
  PROVE  IInv'
<1>1. /\ pc[h] = "encode"
      /\ headers' = [headers EXCEPT ![h] = <<>>]
      /\ UNCHANGED <<height, gop, next_stage, stage_end, gop_offset_counter,
                     pic, asked>>
      /\ pc' = [pc EXCEPT ![h] = "aborted"] \/ pc' = [pc EXCEPT ![h] = "idle"]
  BY DEF FillAborts, EncodeFails, StartOneFrame, Encoding, statics
<1>2. \/ UNCHANGED <<forceIPicture, hwpos, astray>>
      \/ /\ forceIPicture' = [forceIPicture EXCEPT ![h] = FALSE]
         /\ hwpos' \in [Handles -> 0 .. MaxGop - 1]
         /\ \A g \in Handles \ {h} : hwpos'[g] = hwpos[g]
         /\ astray' = [astray EXCEPT ![h] = TRUE]
  <2>1. CASE FillAborts(h)
    BY <2>1 DEF FillAborts, device
  <2>2. CASE EncodeFails(h)
    BY <2>2 DEF EncodeFails, StartOneFrame, IInv, TypeOK
  <2>3. QED
    BY <2>1, <2>2
<1>3. TypeOK'
  BY <1>1, <1>2, HeaderSeqs DEF IInv, TypeOK, PCs
<1>4. HeadersInOrder' /\ HeadersReady'
  BY <1>1, HeaderSeqs DEF IInv, TypeOK, HeadersInOrder, HeadersReady
<1>5. \A g \in Handles : /\ pc'[g] = "headers" <=> pc[g] = "headers"
                         /\ pc[g] = "headers" => headers'[g] = headers[g]
  BY <1>1 DEF IInv, TypeOK
<1>6. StagesInStep'
  BY <1>1, <1>5 DEF IInv, StagesInStep
<1>7. GopInStep'
  BY <1>1, <1>2 DEF IInv, TypeOK, GopInStep
<1>8. HeadersBeforeIntra'
  BY <1>1 DEF IInv, HeadersBeforeIntra
<1>9. QED
  BY <1>3, <1>4, <1>6, <1>7, <1>8 DEF IInv

(* Counter and device position stay within the group, as numbers.          *)
LEMMA Counting ==
  ASSUME TypeOK, NEW h \in Handles
  PROVE  /\ gop[h] \in 0 .. MaxGop /\ gop_offset_counter[h] \in Nat
         /\ hwpos[h] \in Nat
         /\ (IF gop_offset_counter[h] + 1 >= gop[h] THEN 0
             ELSE gop_offset_counter[h] + 1) \in 0 .. MaxGop - 1
         /\ (IF hwpos[h] + 1 >= gop[h] THEN 0 ELSE hwpos[h] + 1)
              \in 0 .. MaxGop - 1
         /\ (IF 1 >= gop[h] THEN 0 ELSE 1) \in 0 .. MaxGop - 1
<1>1. /\ gop[h] \in 0 .. MaxGop /\ gop_offset_counter[h] \in 0 .. MaxGop - 1
      /\ hwpos[h] \in 0 .. MaxGop - 1
  BY Zenon DEF TypeOK
<1>2. QED
  BY <1>1, MaxGopAssumption, SMT

(* A picture, or one the device skipped.  Both counts advance by one, from *)
(* the same place if they agreed, and from the start of a group if an      *)
(* intra picture had been asked for.                                       *)
LEMMA EncodedKeepsIInv ==
  ASSUME IInv, NEW h \in Handles, EncodeOk(h) \/ EncodeSkips(h)
  PROVE  IInv'
<1>1. /\ pc[h] = "encode"
      /\ pc' = [pc EXCEPT ![h] = "idle"]
      /\ headers' = [headers EXCEPT ![h] = <<>>]
      /\ forceIPicture' = [forceIPicture EXCEPT ![h] = FALSE]
      /\ asked' = [asked EXCEPT ![h] = "no"]
      /\ CountPicture(h)
      /\ UNCHANGED <<height, gop, next_stage, stage_end>>
  BY DEF EncodeOk, EncodeSkips, StartOneFrame, Encoding, Picture, statics
<1>2. /\ hwpos' \in [Handles -> 0 .. MaxGop - 1]
      /\ \A g \in Handles \ {h} : hwpos'[g] = hwpos[g]
  <2>1. CASE Advance(h)
    <3>1. \E p \in 0 .. MaxGop - 1 : hwpos' = [hwpos EXCEPT ![h] = p]
      BY <2>1 DEF Advance
    <3>2. QED
      BY <3>1 DEF IInv, TypeOK
  <2>2. CASE UNCHANGED hwpos
    BY <2>2 DEF IInv, TypeOK
  <2>3. QED
    BY <2>1, <2>2 DEF EncodeOk, EncodeSkips
<1>3. gop_offset_counter' \in [Handles -> 0 .. MaxGop - 1]
  BY <1>1, Counting, Zenon DEF CountPicture, IInv, TypeOK
<1>4. headers[h] \in {<<>>, Complete} /\ headers[h] \in Seq({"SPS", "PPS"})
      /\ asked[h] \in {"no", "early", "late"} /\ astray[h] \in BOOLEAN
  BY <1>1 DEF IInv, TypeOK, HeadersInOrder
<1>5. ASSUME NEW type \in {"I", "P", "NONE"}, Picture(h, type),
             astray' \in [Handles -> BOOLEAN],
             \A g \in Handles \ {h} : astray'[g] = astray[g],
             ~astray[h] /\ asked[h] # "late" =>
               (type = "I" <=> headers[h] = Complete),
             ~astray'[h] => gop_offset_counter'[h] = hwpos'[h]
      PROVE  IInv'
  <2>1. pic' = [pic EXCEPT ![h] =
                  [type |-> type, headers |-> headers[h], asked |-> asked[h],
                   astray |-> astray[h]]]
    BY <1>5 DEF Picture
  <2>2. TypeOK'
    <3>1. pic' \in [Handles -> [type : {"none", "I", "P", "NONE"},
                                headers : Seq({"SPS", "PPS"}),
                                asked : {"no", "early", "late"},
                                astray : BOOLEAN]]
      BY <1>4, <2>1 DEF IInv, TypeOK
    <3>2. QED
      BY <1>1, <1>2, <1>3, <1>5, <3>1, HeaderSeqs DEF IInv, TypeOK, PCs
  <2>3. HeadersInOrder'
    BY <1>1 DEF IInv, TypeOK, HeadersInOrder
  <2>4. StagesInStep'
    <3>1. \A g \in Handles :
            /\ pc'[g] = "headers" <=> pc[g] = "headers"
            /\ pc[g] = "headers" => /\ headers'[g] = headers[g]
                                    /\ gop_offset_counter'[g] = gop_offset_counter[g]
      BY <1>1 DEF CountPicture, IInv, TypeOK
    <3>2. QED
      BY <1>1, <3>1 DEF IInv, StagesInStep
  <2>5. GopInStep'
    BY <1>1, <1>2, <1>5 DEF CountPicture, IInv, TypeOK, GopInStep
  <2>6. HeadersReady'
    BY <1>1 DEF CountPicture, IInv, TypeOK, HeadersReady
  <2>7. HeadersBeforeIntra'
    BY <1>5, <2>1 DEF IInv, TypeOK, HeadersBeforeIntra
  <2>8. QED
    BY <2>2, <2>3, <2>4, <2>5, <2>6, <2>7 DEF IInv
<1>6. asked[h] # "late" => (headers[h] = Complete <=> gop_offset_counter[h] = 0)
  BY <1>1 DEF IInv, HeadersReady
<1>7. ~astray[h] => (Intra(h) <=> gop_offset_counter[h] = 0)
  BY DEF Intra, IInv, GopInStep
<1>8. CASE EncodeOk(h)
  <2>1. /\ Picture(h, IF Intra(h) THEN "I" ELSE "P") /\ Advance(h)
        /\ astray' = [astray EXCEPT ![h] = astray[h] \/ gop[h] = 0]
    BY <1>8 DEF EncodeOk
  <2>2. ASSUME ~astray[h], gop[h] # 0 PROVE gop_offset_counter'[h] = hwpos'[h]
    <3>1. gop_offset_counter[h] \in Nat /\ hwpos[h] \in Nat
      BY Counting DEF IInv
    <3>2. gop_offset_counter'[h] = IF gop_offset_counter[h] + 1 >= gop[h] THEN 0
                                   ELSE gop_offset_counter[h] + 1
      BY <1>1 DEF CountPicture, IInv, TypeOK
    <3>3. (IF Intra(h) THEN 1 ELSE hwpos[h] + 1) = gop_offset_counter[h] + 1
      <4>1. CASE Intra(h)
        BY <1>7, <2>2, <4>1, SMT
      <4>2. CASE ~Intra(h)
        BY <2>2, <4>2 DEF Intra, IInv, GopInStep
      <4>3. QED
        BY <4>1, <4>2
    <3>4. hwpos'[h] = LET next == IF Intra(h) THEN 1 ELSE hwpos[h] + 1
                      IN  IF next >= gop[h] THEN 0 ELSE next
      BY <2>1, <2>2 DEF Advance, IInv, TypeOK
    <3>5. hwpos'[h] = IF gop_offset_counter[h] + 1 >= gop[h] THEN 0
                      ELSE gop_offset_counter[h] + 1
      BY <3>3, <3>4
    <3>6. QED
      BY <3>2, <3>5
  <2>3. /\ astray' \in [Handles -> BOOLEAN]
        /\ ~astray'[h] => ~astray[h] /\ gop[h] # 0
        /\ \A g \in Handles \ {h} : astray'[g] = astray[g]
    BY <1>4, <2>1 DEF IInv, TypeOK
  <2>4. QED
    BY <1>5, <1>6, <1>7, <2>1, <2>2, <2>3
<1>9. CASE EncodeSkips(h)
  <2>1. Picture(h, "NONE") /\ ~Intra(h) /\ astray' = [astray EXCEPT ![h] = TRUE]
    BY <1>9 DEF EncodeSkips
  <2>2. astray' \in [Handles -> BOOLEAN] /\ astray'[h]
        /\ \A g \in Handles \ {h} : astray'[g] = astray[g]
    BY <2>1 DEF IInv, TypeOK
  <2>3. QED
    BY <1>5, <1>6, <1>7, <2>1, <2>2
<1>10. QED
  BY <1>8, <1>9

(* An intra picture asked for: the group starts anew on both sides.        *)
LEMMA ForceIpicKeepsIInv ==
  ASSUME IInv, NEW h \in Handles, ForceIpic(h)
  PROVE  IInv'
<1>1. /\ pc[h] \in {"idle", "encode"}
      /\ forceIPicture' = [forceIPicture EXCEPT ![h] = TRUE]
      /\ gop_offset_counter' = [gop_offset_counter EXCEPT ![h] = 0]
      /\ astray' = [astray EXCEPT ![h] = FALSE]
      /\ UNCHANGED <<pc, height, gop, next_stage, stage_end, headers, pic, hwpos>>
  BY DEF ForceIpic, statics
<1>2. /\ asked' \in [Handles -> {"no", "early", "late"}]
      /\ \A g \in Handles \ {h} : asked'[g] = asked[g]
      /\ pc[h] = "encode" /\ asked'[h] # "late" => asked[h] = "early"
  BY <1>1 DEF ForceIpic, Ask, IInv, TypeOK
<1>3. TypeOK'
  <2>1. 0 \in 0 .. MaxGop - 1
    BY MaxGopAssumption, SMT
  <2>2. QED
    BY <1>1, <1>2, <2>1 DEF IInv, TypeOK
<1>4. HeadersInOrder' /\ HeadersBeforeIntra'
  BY <1>1 DEF IInv, HeadersInOrder, HeadersBeforeIntra
<1>5. StagesInStep'
  BY <1>1 DEF IInv, TypeOK, StagesInStep
<1>6. GopInStep'
  BY <1>1 DEF IInv, TypeOK, GopInStep
<1>7. HeadersReady'
  BY <1>1, <1>2 DEF IInv, TypeOK, HeadersReady
<1>8. QED
  BY <1>3, <1>4, <1>5, <1>6, <1>7 DEF IInv

(* A new length of the group: harmless at the start of one.                *)
LEMMA SetGopKeepsIInv ==
  ASSUME IInv, NEW h \in Handles, NEW val \in 0 .. MaxGop, SetGop(h, val)
  PROVE  IInv'
<1>1. /\ gop' = [gop EXCEPT ![h] = val]
      /\ hwpos' = [hwpos EXCEPT ![h] = IF val = 0 THEN hwpos[h] ELSE hwpos[h] % val]
      /\ astray' = [astray EXCEPT ![h] = astray[h] \/ gop_offset_counter[h] # 0
                                         \/ val = 0]
      /\ UNCHANGED <<pc, height, gop_offset_counter, forceIPicture, next_stage,
                     stage_end, headers, pic, asked>>
  BY DEF SetGop, statics
<1>2. /\ (IF val = 0 THEN hwpos[h] ELSE hwpos[h] % val) \in 0 .. MaxGop - 1
      /\ val # 0 => 0 % val = 0
  <2>1. hwpos[h] \in 0 .. MaxGop - 1
    BY DEF IInv, TypeOK
  <2>2. QED
    BY <2>1, MaxGopAssumption, SMT
<1>3. TypeOK'
  BY <1>1, <1>2 DEF IInv, TypeOK
<1>4. HeadersInOrder' /\ HeadersBeforeIntra' /\ StagesInStep' /\ HeadersReady'
  BY <1>1 DEF IInv, HeadersInOrder, HeadersBeforeIntra, StagesInStep, HeadersReady
<1>5. GopInStep'
  BY <1>1, <1>2 DEF IInv, TypeOK, GopInStep
<1>6. QED
  BY <1>3, <1>4, <1>5 DEF IInv

(* Every operation keeps the invariant, if one header loop runs at a time. *)
LEMMA StepKeepsIInv ==
  ASSUME OneAtATime, IInv, NEW h \in Handles, Step(h)
  PROVE  IInv'
  BY OpenCloseKeepsIInv, GetHeadersKeepsIInv, FailedEncodeKeepsIInv,
     EncodedKeepsIInv, ForceIpicKeepsIInv, SetGopKeepsIInv, Zenon
     DEF Step, EncodeDo

LEMMA StutterKeepsIInv == IInv /\ UNCHANGED vars => IInv'
  BY DEF vars, statics, device, IInv, TypeOK, HeadersInOrder, StagesInStep,
         GopInStep, HeadersReady, HeadersBeforeIntra

(* Whatever the encoders, their callers and the device do, the invariant   *)
(* holds, if one header loop runs at a time.                               *)
THEOREM EncoderInvariant ==
  ASSUME OneAtATime
  PROVE  Spec => []IInv
<1>1. Init => IInv
  BY InitEstablishesIInv
<1>2. IInv /\ [Next]_vars => IInv'
  BY StepKeepsIInv, StutterKeepsIInv, Zenon DEF Next
<1>3. QED
  BY <1>1, <1>2, PTL DEF Spec

(* Every header loop gives SPS and PPS, in this order, or nothing, though  *)
(* all handles share the stages.                                           *)
THEOREM HeadersComeInOrder ==
  ASSUME OneAtATime
  PROVE  Spec => []HeadersInOrder
<1>1. IInv => HeadersInOrder
  BY DEF IInv
<1>2. QED
  BY <1>1, EncoderInvariant, PTL

(* As long as handle and device count alike, a picture is an intra picture *)
(* exactly if the headers were sent before it.                             *)
THEOREM IntraBehindHeaders ==
  ASSUME OneAtATime
  PROVE  Spec => []HeadersBeforeIntra
<1>1. IInv => HeadersBeforeIntra
  BY DEF IInv
<1>2. QED
  BY <1>1, EncoderInvariant, PTL

(* Handle and device agree on the place in the group of pictures, unless   *)
(* something astray came between them.                                     *)
THEOREM CountersAgree ==
  ASSUME OneAtATime
  PROVE  Spec => []GopInStep
<1>1. IInv => GopInStep
  BY DEF IInv
<1>2. QED
  BY <1>1, EncoderInvariant, PTL

(* encode_do finds all headers fetched if they are due, and none otherwise.*)
THEOREM HeadersAreReady ==
  ASSUME OneAtATime
  PROVE  Spec => []HeadersReady
<1>1. IInv => HeadersReady
  BY DEF IInv
<1>2. QED
  BY <1>1, EncoderInvariant, PTL

================================================================================
