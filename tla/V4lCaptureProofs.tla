-------------------------- MODULE V4lCaptureProofs --------------------------
(***************************************************************************)
(* Proofs about the capture of images, for any number of buffers and any   *)
(* behaviour of the device: a program that starts the stream once always   *)
(* reads images nobody writes to, loses no buffer, and leaves the device   *)
(* one to fill.                                                            *)
(***************************************************************************)
EXTENDS V4lCapture, TLAPS

(* Buffers are numbered from 0; NONE is not one of them.                   *)
LEMMA BufferNumbers ==
  /\ NONE \notin Bufs
  /\ 0 \in Bufs
  /\ Bufs \subseteq Nat
  /\ \A n \in 0 .. MaxBufs : 0 .. n - 1 \subseteq Bufs
  /\ \A n \in 0 .. MaxBufs, b \in Bufs : b < n <=> b \in 0 .. n - 1
  BY MaxBufsAssumption, SMT DEF NONE, Bufs

(* A handle that does not exist yet satisfies the invariant.               *)
LEMMA InitEstablishesIInv == Init => IInv
<1> SUFFICES ASSUME Init PROVE IInv
  OBVIOUS
<1>1. 0 \in 0 .. MaxBufs /\ 0 .. 0 - 1 = {}
  BY MaxBufsAssumption, SMT
<1>2. TypeOK
  BY <1>1, BufferNumbers, Zenon DEF Init, TypeOK, PCs
<1>3. HandleConsistent
  BY <1>1, BufferNumbers, Zenon DEF Init, HandleConsistent, Owned
<1>4. QED
  BY <1>2, <1>3, Zenon
     DEF IInv, Init, HeldIsOurs, NoBufferLost, MappingsReleased

(* With two buffers or more, the program cannot have all of them: the one  *)
(* to be put back is the only one that is not with the device.             *)
LEMMA NeverStarvedFollows ==
  ASSUME TypeOK, HandleConsistent, NoBufferLost
  PROVE  NeverStarved
<1> SUFFICES ASSUME streaming
             PROVE  \E b \in Bufs : b < nbuffers /\ buf[b] # "user"
  BY DEF NeverStarved
<1>1. nbuffers >= 2 /\ nbuffers \in 0 .. MaxBufs
  BY DEF HandleConsistent, TypeOK, PCs
<1>2. 0 \in Bufs /\ 1 \in Bufs /\ 0 < nbuffers /\ 1 < nbuffers /\ 0 # 1
  BY <1>1, MaxBufsAssumption, SMT DEF Bufs
<1>3. QED
  BY <1>2 DEF NoBufferLost

(* capture_open up to the first mapping, and its failures.                 *)
LEMMA OpeningKeepsIInv ==
  ASSUME IInv, OpenFails \/ InitDeviceFails \/ RequestBuffers \/ Opened
  PROVE  IInv'
<1> USE DEF IInv
<1>1. /\ pc \in {"new", "map"} /\ pc' \in {"failed", "map", "idle"}
      /\ pc = "map" <=> pc' = "idle"
      /\ UNCHANGED <<nbuffers, mapped, v4lbuf, v4lbuf_put, held, ret,
                    streaming, buf, used>>
      /\ fd' \in BOOLEAN
      /\ held = NONE /\ ~streaming /\ ~used
  BY DEF OpenFails, InitDeviceFails, RequestBuffers, Opened, handle, device,
         TypeOK, HandleConsistent
<1>2. req_count' \in 0 .. MaxBufs /\ (pc' = "map" => req_count' >= 2)
  BY SMT DEF OpenFails, InitDeviceFails, RequestBuffers, Opened, handle, TypeOK
<1>3. pc' = "idle" => nbuffers >= 2
  BY <1>1 DEF OpenFails, InitDeviceFails, RequestBuffers, Opened,
              HandleConsistent
<1>4. pc' = "failed" => mapped = {} /\ nbuffers = 0
  <2>1. 0 .. 0 - 1 = {}
    BY SMT
  <2>2. QED
    BY <1>1, <2>1 DEF HandleConsistent, Owned
<1>5. TypeOK'
  BY <1>1, <1>2 DEF TypeOK, PCs
<1>6. HandleConsistent'
  BY <1>1, <1>2, <1>3, <1>4 DEF HandleConsistent, Owned
<1>7. HeldIsOurs' /\ NoBufferLost' /\ MappingsReleased'
  BY <1>1, <1>4 DEF HeldIsOurs, NoBufferLost, MappingsReleased
<1>8. QED
  BY <1>5, <1>6, <1>7

(* The loop of init_mmap, and its unwinding.                               *)
LEMMA MapKeepsIInv ==
  ASSUME IInv, MapBuffer \/ MapFails
  PROVE  IInv'
<1> USE DEF IInv
<1>1. /\ pc = "map" /\ pc' \in {"failed", "map"}
      /\ UNCHANGED <<fd, req_count, v4lbuf, v4lbuf_put, held, ret,
                    streaming, buf, used>>
      /\ held = NONE /\ ~streaming /\ v4lbuf_put /\ ~used
      /\ req_count >= 2
      /\ \A b \in Bufs : buf[b] # "user" => b \in Owned
      /\ mapped = Owned
  BY DEF MapBuffer, MapFails, device, HandleConsistent
<1>2. nbuffers \in Nat /\ req_count \in Nat /\ nbuffers < req_count
      /\ req_count <= MaxBufs
  BY MaxBufsAssumption, SMT DEF MapBuffer, MapFails, TypeOK
<1>3. CASE MapBuffer
  <2>1. nbuffers' = nbuffers + 1 /\ pc' = "map"
    BY <1>3 DEF MapBuffer
  <2>2. Owned' = Owned \cup {nbuffers} /\ Owned' \subseteq Bufs
        /\ nbuffers' \in 0 .. MaxBufs
    BY <1>2, <2>1, MaxBufsAssumption, SMT DEF Owned, Bufs
  <2>3. mapped' = Owned'
    BY <1>1, <1>3, <2>2 DEF MapBuffer
  <2>4. QED
    BY <1>1, <2>1, <2>2, <2>3
       DEF TypeOK, PCs, HandleConsistent, HeldIsOurs, NoBufferLost,
           MappingsReleased
<1>4. CASE MapFails
  <2>1. /\ nbuffers' = 0 /\ pc' = "failed" /\ mapped' = {}
        /\ Owned' = {} /\ nbuffers' \in 0 .. MaxBufs
    BY <1>1, <1>4, MaxBufsAssumption, SMT DEF MapFails, Owned
  <2>2. \A b \in Bufs : buf[b] = "user"
    BY <1>1 DEF HandleConsistent
  <2>3. QED
    BY <1>1, <2>1, <2>2
       DEF TypeOK, PCs, HandleConsistent, HeldIsOurs, NoBufferLost,
           MappingsReleased
<1>5. QED
  BY <1>3, <1>4

(* capture_start: the first start puts every buffer into the queue.        *)
LEMMA StartKeepsIInv ==
  ASSUME ~MayRestart, IInv, Start \/ StartFails
  PROVE  IInv'
<1> USE DEF IInv
<1>1. /\ pc = "idle" /\ ~streaming /\ ~used /\ used'
      /\ UNCHANGED <<pc, fd, handle, held>>
      /\ ret' \in {"ok", "error"} /\ (streaming' = TRUE \/ streaming' = streaming)
  <2>1. CASE Start
    BY <2>1, Zenon DEF Start, MayStart
  <2>2. CASE StartFails
    BY <2>2, Zenon DEF StartFails, MayStart
  <2>3. QED
    BY <2>1, <2>2
<1>2. v4lbuf_put /\ held = NONE
  BY <1>1 DEF HandleConsistent
<1>3. UNCHANGED <<nbuffers, req_count, mapped, v4lbuf, v4lbuf_put, Owned>>
  BY <1>1 DEF handle, Owned
<1>4. PICK k \in 0 .. nbuffers : QueueFirst(k) /\ (streaming' => k = nbuffers)
  <2>1. nbuffers \in 0 .. nbuffers
    BY MaxBufsAssumption, SMT DEF TypeOK
  <2>2. QED
    BY <1>1, <2>1 DEF Start, StartFails
<1>5. /\ k \in 0 .. MaxBufs /\ k <= nbuffers
      /\ buf' = [b \in Bufs |-> IF b < k THEN "queued" ELSE buf[b]]
  BY <1>4, MaxBufsAssumption, SMT DEF QueueFirst, TypeOK
<1>6. buf' \in [Bufs -> {"user", "queued", "filled"}]
  BY <1>5 DEF TypeOK
<1>7. TypeOK'
  BY <1>1, <1>3, <1>6 DEF TypeOK
<1>8. \A b \in Bufs : buf'[b] # "user" => b \in Owned
  <2>1. ASSUME NEW b \in Bufs, b < k PROVE b \in Owned
    BY <1>5, <2>1, MaxBufsAssumption, SMT DEF Owned, Bufs, TypeOK
  <2>2. QED
    BY <1>5, <2>1 DEF HandleConsistent
<1>9. HandleConsistent'
  BY <1>1, <1>2, <1>3, <1>8 DEF HandleConsistent
<1>10. NoBufferLost'
  <2>1. ASSUME streaming', NEW b \in Bufs, b < nbuffers
        PROVE  buf'[b] = "queued"
    BY <1>4, <1>5, <2>1
  <2>2. QED
    BY <1>2, <1>3, <2>1 DEF NoBufferLost
<1>11. QED
  BY <1>1, <1>2, <1>3, <1>7, <1>9, <1>10 DEF HeldIsOurs, MappingsReleased

(* capture_stop and capture_close.                                         *)
LEMMA StopCloseKeepsIInv ==
  ASSUME IInv, Stop \/ Close
  PROVE  IInv'
<1> USE DEF IInv
<1>1. /\ pc = "idle" /\ pc' \in {"idle", "closed"}
      /\ UNCHANGED <<nbuffers, req_count, v4lbuf, v4lbuf_put, ret, used>>
      /\ fd' = fd \/ fd' = FALSE
      /\ held' = NONE
      /\ mapped' = IF pc' = "closed" THEN mapped \ Owned ELSE mapped
      /\ \/ streaming' = FALSE /\ buf' = [b \in Bufs |-> "user"]
         \/ pc' = "idle" /\ UNCHANGED <<streaming, buf>>
  <2>1. CASE Stop
    BY <2>1, Zenon DEF Stop, handle, device
  <2>2. CASE Close
    BY <2>2, Zenon DEF Close
  <2>3. QED
    BY <2>1, <2>2
<1>2. mapped = Owned
  BY <1>1 DEF HandleConsistent
<1>3. TypeOK'
  <2>1. buf' \in [Bufs -> {"user", "queued", "filled"}]
    BY <1>1 DEF TypeOK
  <2>2. QED
    BY <1>1, <2>1 DEF TypeOK, PCs
<1>4. HandleConsistent'
  <2>1. (\A b \in Bufs : buf'[b] = "user") \/ buf' = buf
    BY <1>1
  <2>2. QED
    BY <1>1, <2>1 DEF HandleConsistent, Owned
<1>5. HeldIsOurs' /\ NoBufferLost' /\ MappingsReleased'
  BY <1>1, <1>2 DEF HeldIsOurs, NoBufferLost, MappingsReleased
<1>6. QED
  BY <1>3, <1>4, <1>5

(* The steps of capture_get_data that leave the buffers where they are.    *)
LEMMA CallKeepsIInv ==
  ASSUME IInv, Call \/ SelectFails \/ Ready \/ PutBackFails \/ DequeueFails
  PROVE  IInv'
<1> USE DEF IInv
<1>1. /\ pc \in {"idle", "select", "put", "dequeue"} /\ used
      /\ pc' \in {"idle", "select", "put", "dequeue"}
      /\ UNCHANGED <<fd, nbuffers, req_count, mapped, v4lbuf_put, streaming,
                    buf, used>>
      /\ ret' \in {"none", "ok", "again", "timeout", "interrupted", "error"}
      /\ held' = NONE
      /\ (pc' = "put" => ~v4lbuf_put) /\ (pc' = "dequeue" => v4lbuf_put)
      /\ v4lbuf' \in {0, v4lbuf} /\ (~v4lbuf_put => v4lbuf' = v4lbuf)
  BY DEF Call, SelectFails, Ready, PutBackFails, DequeueFails, Return, handle,
         device, TypeOK, HandleConsistent
<1>2. v4lbuf' \in Bufs
  BY <1>1, BufferNumbers DEF TypeOK
<1>3. TypeOK'
  BY <1>1, <1>2 DEF TypeOK, PCs
<1>4. HandleConsistent'
  BY <1>1 DEF HandleConsistent, Owned
<1>5. HeldIsOurs' /\ MappingsReleased'
  BY <1>1 DEF HeldIsOurs, MappingsReleased
<1>6. NoBufferLost'
  BY <1>1 DEF NoBufferLost
<1>7. QED
  BY <1>3, <1>4, <1>5, <1>6

(* QBUF of the buffer of the previous call.                                *)
LEMMA PutBackKeepsIInv == IInv /\ PutBack => IInv'
<1> SUFFICES ASSUME IInv, PutBack PROVE IInv'
  OBVIOUS
<1> USE DEF IInv
<1>1. /\ pc = "put" /\ pc' = "dequeue" /\ v4lbuf_put' = TRUE
      /\ UNCHANGED <<fd, nbuffers, req_count, mapped, v4lbuf, held, ret,
                    streaming, used>>
      /\ buf' = [buf EXCEPT ![v4lbuf] = "queued"]
  BY DEF PutBack
<1>2. ~v4lbuf_put /\ held = NONE /\ v4lbuf \in Owned /\ v4lbuf \in Bufs
  BY <1>1 DEF HandleConsistent, TypeOK
<1>3. /\ buf' \in [Bufs -> {"user", "queued", "filled"}]
      /\ \A b \in Bufs : buf'[b] = IF b = v4lbuf THEN "queued" ELSE buf[b]
  BY <1>1, <1>2 DEF TypeOK
<1>4. TypeOK'
  BY <1>1, <1>3 DEF TypeOK, PCs
<1>5. HandleConsistent'
  BY <1>1, <1>2, <1>3 DEF HandleConsistent, Owned
<1>6. NoBufferLost'
  BY <1>1, <1>2, <1>3 DEF NoBufferLost
<1>7. QED
  BY <1>1, <1>2, <1>4, <1>5, <1>6 DEF HeldIsOurs, MappingsReleased

(* DQBUF of a filled buffer.                                               *)
LEMMA DequeueKeepsIInv == IInv /\ Dequeue => IInv'
<1> SUFFICES ASSUME IInv, Dequeue PROVE IInv'
  OBVIOUS
<1> USE DEF IInv
<1>1. PICK d \in Filled : buf' = [buf EXCEPT ![d] = "user"] /\ v4lbuf' = d
                          /\ held' = d
  BY DEF Dequeue
<1>2. /\ pc = "dequeue" /\ pc' = "idle" /\ v4lbuf_put' = FALSE /\ ret' = "ok"
      /\ UNCHANGED <<fd, nbuffers, req_count, mapped, streaming, used>>
      /\ streaming
  BY DEF Dequeue, Return
<1>3. d \in Bufs /\ d \in Owned /\ v4lbuf_put /\ used /\ mapped = Owned
  BY <1>1, <1>2 DEF Filled, HandleConsistent
<1>4. /\ buf' \in [Bufs -> {"user", "queued", "filled"}]
      /\ \A b \in Bufs : buf'[b] = IF b = d THEN "user" ELSE buf[b]
  BY <1>1, <1>3 DEF TypeOK
<1>5. TypeOK'
  BY <1>1, <1>2, <1>3, <1>4 DEF TypeOK, PCs
<1>6. HandleConsistent'
  BY <1>1, <1>2, <1>3, <1>4 DEF HandleConsistent, Owned
<1>7. NoBufferLost'
  BY <1>1, <1>2, <1>3, <1>4 DEF NoBufferLost
<1>8. HeldIsOurs' /\ MappingsReleased'
  BY <1>1, <1>2, <1>3, <1>4 DEF HeldIsOurs, MappingsReleased
<1>9. QED
  BY <1>5, <1>6, <1>7, <1>8

(* The device fills a buffer: never the one the program holds.             *)
LEMMA FillKeepsIInv == IInv /\ Fill => IInv'
<1> SUFFICES ASSUME IInv, Fill PROVE IInv'
  OBVIOUS
<1> USE DEF IInv
<1>1. PICK f \in Bufs : buf[f] = "queued" /\ buf' = [buf EXCEPT ![f] = "filled"]
  BY DEF Fill
<1>2. UNCHANGED <<pc, fd, nbuffers, req_count, mapped, v4lbuf, v4lbuf_put, held,
                  ret, streaming, used>>
  BY DEF Fill, handle
<1>3. /\ buf' \in [Bufs -> {"user", "queued", "filled"}]
      /\ \A b \in Bufs : buf'[b] = IF b = f THEN "filled" ELSE buf[b]
  BY <1>1 DEF TypeOK
<1>4. TypeOK'
  BY <1>2, <1>3 DEF TypeOK
<1>5. HandleConsistent'
  BY <1>1, <1>2, <1>3 DEF HandleConsistent, Owned
<1>6. NoBufferLost'
  BY <1>1, <1>2, <1>3 DEF NoBufferLost
<1>7. HeldIsOurs'
  BY <1>1, <1>2, <1>3 DEF HeldIsOurs, TypeOK
<1>8. QED
  BY <1>2, <1>4, <1>5, <1>6, <1>7 DEF MappingsReleased

(* Every step of a program that starts the stream once keeps the invariant. *)
LEMMA StepKeepsIInv ==
  ASSUME ~MayRestart, IInv, [Next]_vars
  PROVE  IInv'
<1>1. CASE OpenFails \/ InitDeviceFails \/ RequestBuffers \/ Opened
  BY <1>1, OpeningKeepsIInv
<1>2. CASE MapBuffer \/ MapFails
  BY <1>2, MapKeepsIInv
<1>3. CASE Start \/ StartFails
  BY <1>3, StartKeepsIInv
<1>4. CASE Stop \/ Close
  BY <1>4, StopCloseKeepsIInv
<1>5. CASE Call \/ SelectFails \/ Ready \/ PutBackFails \/ DequeueFails
  BY <1>5, CallKeepsIInv
<1>6. CASE PutBack
  BY <1>6, PutBackKeepsIInv
<1>7. CASE Dequeue
  BY <1>7, DequeueKeepsIInv
<1>8. CASE Fill
  BY <1>8, FillKeepsIInv
<1>9. CASE UNCHANGED vars
  BY <1>9 DEF vars, handle, device, IInv, TypeOK, HandleConsistent,
              HeldIsOurs, NoBufferLost, MappingsReleased, Owned
<1>10. QED
  BY <1>1, <1>2, <1>3, <1>4, <1>5, <1>6, <1>7, <1>8, <1>9 DEF Next, GetData

(* If the program starts the stream once, as cktool and simple_demo do,    *)
(* then in every reachable state the image it reads is not with the        *)
(* device, no buffer is lost, and no mapping outlives its handle.          *)
THEOREM CaptureInvariant ==
  ASSUME ~MayRestart
  PROVE  Spec => []IInv
<1>1. Init => IInv
  BY InitEstablishesIInv
<1>2. IInv /\ [Next]_vars => IInv'
  BY StepKeepsIInv
<1>3. QED
  BY <1>1, <1>2, PTL DEF Spec

(* The program never sits in select with all buffers in its own hands.     *)
THEOREM DeviceNeverStarved ==
  ASSUME ~MayRestart
  PROVE  Spec => [](NeverStarved /\ HeldIsOurs /\ NoBufferLost)
<1>1. IInv => NeverStarved /\ HeldIsOurs /\ NoBufferLost
  BY NeverStarvedFollows DEF IInv
<1>2. QED
  BY <1>1, CaptureInvariant, PTL

(* The image a caller reads is not with the device, and it is mapped.      *)
THEOREM ImageIsHeld ==
  ASSUME ~MayRestart
  PROVE  Spec => []HeldIsOurs
<1>1. IInv => HeldIsOurs
  BY DEF IInv
<1>2. QED
  BY <1>1, CaptureInvariant, PTL

(* While the stream runs, every buffer but the one to be put back is with  *)
(* the device, whatever failed before.                                     *)
THEOREM BuffersAreKept ==
  ASSUME ~MayRestart
  PROVE  Spec => []NoBufferLost
<1>1. IInv => NoBufferLost
  BY DEF IInv
<1>2. QED
  BY <1>1, CaptureInvariant, PTL

(* No mapping outlives a failed capture_open or capture_close.             *)
THEOREM MappingsAreReleased ==
  ASSUME ~MayRestart
  PROVE  Spec => []MappingsReleased
<1>1. IInv => MappingsReleased
  BY DEF IInv
<1>2. QED
  BY <1>1, CaptureInvariant, PTL

================================================================================
