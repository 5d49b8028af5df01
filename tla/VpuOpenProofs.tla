--------------------------- MODULE VpuOpenProofs ---------------------------
(***************************************************************************)
(* Proofs about opening and closing the VPU encoder (module VpuOpen), for  *)
(* a pool of descriptors of any size and any number of frame buffers the   *)
(* VPU may ask for.                                                        *)
(***************************************************************************)
EXTENDS VpuOpen, TLAPS

(* The variables the pool and the frame buffers live in.                   *)
FrameTypes ==
  /\ totalfb \in Nat
  /\ myfbarray \in [Slots -> Slots \cup {NULL}]
  /\ myfb_index \in Slots
  /\ pfbpool \in Seq(Slots)
  /\ phys \subseteq Slots /\ virt \subseteq Slots

PoolInv == FrameTypes /\ InOnePlace /\ RoomToPut /\ FramesAccounted

--------------------------------------------------------------------------------
(* The ring.                                                               *)

(* The index stays in the ring, and -- undoes ++ in it.                    *)
LEMMA IndexInRing ==
  ASSUME NEW i \in Slots
  PROVE  /\ After(i) \in Slots
         /\ Before(i) \in Slots
BY NumFrameBufsAssumption, SMT DEF After, Before, Slots

(* The slots before the index, seen from the next and from the previous    *)
(* index.                                                                  *)
LEMMA SlotsShift ==
  ASSUME NEW i \in Slots, NEW d \in 1 .. NumFrameBufs
  PROVE  LET Back(j, e) == IF e <= j THEN j - e ELSE j - e + NumFrameBufs
         IN  /\ Back(i, d) \in Slots
             /\ Back(After(i), 1) = i
             /\ d > 1 => Back(After(i), d) = Back(i, d - 1)
             /\ d < NumFrameBufs => Back(Before(i), d) = Back(i, d + 1)
             /\ d < NumFrameBufs => Back(i, d) # i
             /\ d > 1 => Back(i, d) # Back(i, 1)
             /\ Back(i, 1) = Before(i)
             /\ d = NumFrameBufs => Back(i, d) = i
BY NumFrameBufsAssumption, SMT DEF After, Before, Slots

--------------------------------------------------------------------------------
(* Sequences of descriptors.                                               *)

(* What Append and Tail do to the elements of a sequence.                  *)
LEMMA AppendElements ==
  ASSUME NEW s \in Seq(Slots), NEW x \in Slots
  PROVE  /\ Append(s, x) \in Seq(Slots)
         /\ Len(Append(s, x)) = Len(s) + 1
         /\ \A i \in 1 .. Len(s) : Append(s, x)[i] = s[i]
         /\ Append(s, x)[Len(s) + 1] = x
         /\ Range(Append(s, x)) = Range(s) \cup {x}
<1>1. /\ Append(s, x) \in Seq(Slots)
      /\ Len(Append(s, x)) = Len(s) + 1
      /\ DOMAIN Append(s, x) = 1 .. Len(s) + 1
      /\ DOMAIN s = 1 .. Len(s)
      /\ \A i \in 1 .. Len(s) : Append(s, x)[i] = s[i]
      /\ Append(s, x)[Len(s) + 1] = x
      /\ Len(s) \in Nat
  OBVIOUS
<1>2. Range(Append(s, x)) = Range(s) \cup {x}
  BY <1>1, SMT DEF Range
<1>3. QED
  BY <1>1, <1>2

LEMMA TailElements ==
  ASSUME NEW s \in Seq(Slots), s # <<>>,
         \A i, j \in DOMAIN s : s[i] = s[j] => i = j
  PROVE  /\ Tail(s) \in Seq(Slots)
         /\ Len(Tail(s)) = Len(s) - 1
         /\ Len(s) > 0
         /\ Head(s) \in Slots
         /\ \A i \in 1 .. Len(s) - 1 : Tail(s)[i] = s[i + 1]
         /\ Range(Tail(s)) = Range(s) \ {Head(s)}
         /\ Head(s) \in Range(s)
<1>1. /\ Tail(s) \in Seq(Slots)
      /\ Len(Tail(s)) = Len(s) - 1
      /\ Len(s) \in Nat /\ Len(s) > 0
      /\ Head(s) = s[1]
      /\ s[1] \in Slots
      /\ DOMAIN s = 1 .. Len(s)
      /\ DOMAIN Tail(s) = 1 .. Len(s) - 1
      /\ \A i \in 1 .. Len(s) - 1 : Tail(s)[i] = s[i + 1]
  OBVIOUS
<1>2. Range(Tail(s)) \subseteq Range(s) \ {Head(s)}
  BY <1>1, SMT DEF Range
<1>3. ASSUME NEW x \in Range(s) \ {Head(s)} PROVE x \in Range(Tail(s))
  <2>1. PICK i \in DOMAIN s : x = s[i]
    BY <1>3 DEF Range
  <2>2. i # 1 /\ i \in 1 .. Len(s)
    BY <1>1, <1>3, <2>1
  <2>3. i - 1 \in DOMAIN Tail(s) /\ Tail(s)[i - 1] = x
    BY <1>1, <2>1, <2>2
  <2>4. QED
    BY <2>3 DEF Range
<1>4. Head(s) \in Range(s)
  BY <1>1 DEF Range
<1>5. QED
  BY <1>1, <1>2, <1>3, <1>4

--------------------------------------------------------------------------------
(* The steps on the pool.                                                  *)

(* Taking a descriptor, or finding none, leaves one empty slot more before *)
(* the index.                                                              *)
LEMMA TakeMakesRoom ==
  ASSUME PoolInv, Take
  PROVE  /\ myfbarray' \in [Slots -> Slots \cup {NULL}]
         /\ myfb_index' \in Slots
         /\ \A i \in Slots : myfbarray'[i] \in {myfbarray[i], NULL}
         /\ myfbarray'[myfb_index] = NULL
         /\ \A d \in 1 .. Len(pfbpool) + 1 :
              d <= NumFrameBufs => myfbarray'[SlotBefore(d)'] = NULL
         /\ Taken # NULL => Len(pfbpool) < NumFrameBufs
<1>1. /\ myfb_index \in Slots /\ myfbarray \in [Slots -> Slots \cup {NULL}]
      /\ Len(pfbpool) \in Nat /\ Len(pfbpool) <= NumFrameBufs
      /\ NumFrameBufs \in Nat \ {0}
  BY NumFrameBufsAssumption DEF PoolInv, FrameTypes, RoomToPut
<1>2. /\ myfb_index' = After(myfb_index) /\ myfb_index' \in Slots
      /\ myfbarray' = [myfbarray EXCEPT ![myfb_index] = NULL]
  BY <1>1, IndexInRing DEF Take
<1>3. /\ myfbarray' \in [Slots -> Slots \cup {NULL}]
      /\ \A i \in Slots : myfbarray'[i] \in {myfbarray[i], NULL}
      /\ myfbarray'[myfb_index] = NULL
  BY <1>1, <1>2
<1>4. ASSUME NEW d \in 1 .. Len(pfbpool) + 1, d <= NumFrameBufs
      PROVE  myfbarray'[SlotBefore(d)'] = NULL
  <2>1. d \in 1 .. NumFrameBufs
    BY <1>1, <1>4
  <2>2. CASE d = 1
    <3>1. SlotBefore(d)' = myfb_index
      BY <1>1, <1>2, <2>1, <2>2, SlotsShift DEF SlotBefore
    <3>2. QED
      BY <1>3, <3>1
  <2>3. CASE d > 1
    <3>1. SlotBefore(d)' = SlotBefore(d - 1) /\ d - 1 \in 1 .. Len(pfbpool)
      BY <1>1, <1>2, <2>1, <2>3, SlotsShift DEF SlotBefore
    <3>2. SlotBefore(d - 1) \in Slots
      BY <1>1, <3>1, SlotsShift DEF SlotBefore
    <3>3. myfbarray[SlotBefore(d - 1)] = NULL
      BY <3>1 DEF PoolInv, RoomToPut
    <3>4. QED
      BY <1>3, <3>1, <3>2, <3>3
  <2>4. QED
    BY <1>1, <2>1, <2>2, <2>3
<1>5. Taken # NULL => Len(pfbpool) < NumFrameBufs
  <2>1. SUFFICES ASSUME Len(pfbpool) = NumFrameBufs PROVE Taken = NULL
    BY <1>1
  <2>2. SlotBefore(NumFrameBufs) = myfb_index /\ NumFrameBufs \in 1 .. Len(pfbpool)
    BY <1>1, <2>1, SlotsShift DEF SlotBefore
  <2>3. QED
    BY <2>2 DEF PoolInv, RoomToPut, Taken
<1>6. QED
  BY <1>2, <1>3, <1>4, <1>5

(* A frame buffer more: its descriptor was in the ring, so it is in none   *)
(* of the others.                                                          *)
LEMMA AllocKeepsPool ==
  ASSUME PoolInv, FramebufAlloc, UNCHANGED totalfb
  PROVE  PoolInv' /\ Len(pfbpool') = Len(pfbpool) + 1
<1>1. /\ Take /\ Taken # NULL
      /\ pfbpool' = Append(pfbpool, Taken)
      /\ phys' = phys \cup {Taken} /\ virt' \in {virt, virt \cup {Taken}}
  BY DEF FramebufAlloc
<1>2. /\ myfb_index \in Slots /\ myfbarray \in [Slots -> Slots \cup {NULL}]
      /\ pfbpool \in Seq(Slots) /\ Len(pfbpool) \in Nat
      /\ DOMAIN pfbpool = 1 .. Len(pfbpool)
      /\ Taken \in Slots /\ Taken \notin Range(pfbpool)
      /\ \A i \in Slots : myfbarray[i] = Taken => i = myfb_index
  BY <1>1 DEF PoolInv, FrameTypes, InOnePlace, Taken
<1>3. /\ pfbpool' \in Seq(Slots)
      /\ Len(pfbpool') = Len(pfbpool) + 1
      /\ \A i \in 1 .. Len(pfbpool) : pfbpool'[i] = pfbpool[i]
      /\ pfbpool'[Len(pfbpool) + 1] = Taken
      /\ Range(pfbpool') = Range(pfbpool) \cup {Taken}
      /\ DOMAIN pfbpool' = 1 .. Len(pfbpool) + 1
  BY <1>1, <1>2, AppendElements
<1>4. FrameTypes'
  BY <1>1, <1>2, <1>3, TakeMakesRoom DEF PoolInv, FrameTypes
<1>5. FramesAccounted'
  BY <1>1, <1>3 DEF PoolInv, FramesAccounted
<1>6. RoomToPut'
  <2>1. Len(pfbpool) < NumFrameBufs
    BY <1>1, TakeMakesRoom
  <2>2. Len(pfbpool') <= NumFrameBufs
    BY <1>2, <1>3, <2>1, NumFrameBufsAssumption
  <2>3. \A d \in 1 .. Len(pfbpool') : myfbarray'[SlotBefore(d)'] = NULL
    <3>1. \A d \in 1 .. Len(pfbpool) + 1 : d <= NumFrameBufs
      BY <1>2, <2>1, NumFrameBufsAssumption
    <3>2. \A d \in 1 .. Len(pfbpool) + 1 : myfbarray'[SlotBefore(d)'] = NULL
      BY <1>1, <3>1, TakeMakesRoom
    <3>3. QED
      BY <1>3, <3>2
  <2>4. QED
    BY <2>2, <2>3 DEF RoomToPut, SlotBefore
<1>7. InOnePlace'
  <2>1. \A i \in Slots : /\ myfbarray'[i] \in {myfbarray[i], NULL}
                         /\ myfbarray'[i] # Taken
    BY <1>1, <1>2, TakeMakesRoom
  <2>2. \A i, j \in Slots : myfbarray'[i] = myfbarray'[j] /\ i # j => myfbarray'[i] = NULL
    BY <2>1 DEF PoolInv, InOnePlace
  <2>3. \A i \in 1 .. Len(pfbpool) : pfbpool'[i] # Taken
    BY <1>2, <1>3 DEF Range
  <2>4. \A i, j \in DOMAIN pfbpool' : pfbpool'[i] = pfbpool'[j] => i = j
    <3>1. SUFFICES ASSUME NEW i \in 1 .. Len(pfbpool) + 1,
                          NEW j \in 1 .. Len(pfbpool) + 1,
                          pfbpool'[i] = pfbpool'[j]
                   PROVE  i = j
      BY <1>3
    <3>2. CASE i = Len(pfbpool) + 1 \/ j = Len(pfbpool) + 1
      BY <1>2, <1>3, <2>3, <3>1, <3>2
    <3>3. CASE i \in 1 .. Len(pfbpool) /\ j \in 1 .. Len(pfbpool)
      BY <1>2, <1>3, <3>1, <3>3 DEF PoolInv, InOnePlace
    <3>4. QED
      BY <1>2, <3>2, <3>3
  <2>5. \A i \in Slots : myfbarray'[i] \notin Range(pfbpool')
    <3>1. NULL \notin Slots
      BY NumFrameBufsAssumption DEF NULL, Slots
    <3>2. \A x \in Range(pfbpool) : x \in Slots
      BY <1>2 DEF Range
    <3>3. QED
      BY <1>1, <1>3, <2>1, <3>1, <3>2 DEF PoolInv, InOnePlace
  <2>6. QED
    BY <2>2, <2>4, <2>5 DEF InOnePlace
<1>8. QED
  BY <1>3, <1>4, <1>5, <1>6, <1>7 DEF PoolInv

(* A descriptor taken in vain is in no place at all.                       *)
LEMMA AllocFailsKeepsPool ==
  ASSUME PoolInv, FramebufAllocFails, UNCHANGED totalfb
  PROVE  PoolInv'
<1>1. Take /\ UNCHANGED <<pfbpool, phys, virt>>
  BY DEF FramebufAllocFails
<1>2. /\ Len(pfbpool) \in Nat /\ Len(pfbpool) <= NumFrameBufs
      /\ pfbpool \in Seq(Slots)
  BY DEF PoolInv, FrameTypes, RoomToPut
<1>3. FrameTypes' /\ FramesAccounted'
  BY <1>1, TakeMakesRoom DEF PoolInv, FrameTypes, FramesAccounted
<1>4. RoomToPut'
  <2>1. \A d \in 1 .. Len(pfbpool) : myfbarray'[SlotBefore(d)'] = NULL
    BY <1>1, <1>2, TakeMakesRoom, NumFrameBufsAssumption
  <2>2. QED
    BY <1>1, <1>2, <2>1 DEF RoomToPut, SlotBefore
<1>5. InOnePlace'
  <2>1. \A i \in Slots : myfbarray'[i] \in {myfbarray[i], NULL}
    BY <1>1, TakeMakesRoom
  <2>2. NULL \notin Range(pfbpool)
    BY <1>2, NumFrameBufsAssumption DEF Range, NULL, Slots
  <2>3. QED
    BY <1>1, <2>1, <2>2 DEF PoolInv, InOnePlace
<1>6. QED
  BY <1>3, <1>4, <1>5 DEF PoolInv

(* put_framebuf does not look, but the slot it writes is empty.            *)
LEMMA PutIntoEmptySlot ==
  ASSUME PoolInv, pfbpool # <<>>
  PROVE  /\ Before(myfb_index) \in Slots
         /\ myfbarray[Before(myfb_index)] = NULL
<1>1. /\ myfb_index \in Slots /\ NumFrameBufs \in Nat \ {0}
      /\ pfbpool \in Seq(Slots) /\ Len(pfbpool) > 0
  BY NumFrameBufsAssumption DEF PoolInv, FrameTypes
<1>2. SlotBefore(1) = Before(myfb_index) /\ 1 \in 1 .. Len(pfbpool)
  BY <1>1, SlotsShift DEF SlotBefore
<1>3. QED
  BY <1>1, <1>2, IndexInRing DEF PoolInv, RoomToPut

(* A frame buffer less: its descriptor goes into an empty slot.            *)
LEMMA FreeKeepsPool ==
  ASSUME PoolInv, FramebufFree, pfbpool # <<>>, UNCHANGED totalfb
  PROVE  PoolInv'
<1> DEFINE h == Head(pfbpool)
<1>1. /\ virt' = virt \ {h} /\ phys' = phys \ {h}
      /\ pfbpool' = Tail(pfbpool)
      /\ myfb_index' = Before(myfb_index)
      /\ myfbarray' = [myfbarray EXCEPT ![Before(myfb_index)] = h]
  BY DEF FramebufFree, PutFramebuf
<1>2. /\ myfb_index \in Slots /\ myfbarray \in [Slots -> Slots \cup {NULL}]
      /\ pfbpool \in Seq(Slots) /\ Len(pfbpool) \in Nat
      /\ DOMAIN pfbpool = 1 .. Len(pfbpool)
      /\ \A i, j \in DOMAIN pfbpool : pfbpool[i] = pfbpool[j] => i = j
      /\ Len(pfbpool) <= NumFrameBufs /\ NumFrameBufs \in Nat \ {0}
  BY NumFrameBufsAssumption DEF PoolInv, FrameTypes, InOnePlace, RoomToPut
<1>3. /\ Tail(pfbpool) \in Seq(Slots)
      /\ Len(Tail(pfbpool)) = Len(pfbpool) - 1
      /\ Len(pfbpool) > 0
      /\ h \in Slots
      /\ \A i \in 1 .. Len(pfbpool) - 1 : Tail(pfbpool)[i] = pfbpool[i + 1]
      /\ Range(Tail(pfbpool)) = Range(pfbpool) \ {h}
      /\ h \in Range(pfbpool)
  BY <1>2, TailElements
<1>4. /\ Before(myfb_index) \in Slots
      /\ myfbarray[Before(myfb_index)] = NULL
  BY PutIntoEmptySlot
<1>5. /\ myfbarray' \in [Slots -> Slots \cup {NULL}]
      /\ myfbarray'[Before(myfb_index)] = h
      /\ \A i \in Slots : i # Before(myfb_index) => myfbarray'[i] = myfbarray[i]
  BY <1>1, <1>2, <1>3, <1>4
<1>6. FrameTypes'
  BY <1>1, <1>3, <1>4, <1>5 DEF PoolInv, FrameTypes
<1>7. FramesAccounted'
  BY <1>1, <1>3 DEF PoolInv, FramesAccounted
<1>8. RoomToPut'
  <2>1. ASSUME NEW d \in 1 .. Len(pfbpool) - 1
        PROVE  myfbarray'[SlotBefore(d)'] = NULL
    <3>1. d \in 1 .. NumFrameBufs /\ d + 1 \in 1 .. NumFrameBufs
          /\ d < NumFrameBufs /\ d + 1 \in 1 .. Len(pfbpool)
      BY <1>2, <1>3, <2>1
    <3>2. SlotBefore(d)' = SlotBefore(d + 1)
      BY <1>1, <1>2, <3>1, SlotsShift DEF SlotBefore
    <3>3. SlotBefore(d + 1) \in Slots /\ SlotBefore(d + 1) # Before(myfb_index)
      <4>1. d + 1 > 1
        BY <3>1
      <4>2. QED
        BY <1>2, <3>1, <4>1, SlotsShift DEF SlotBefore
    <3>4. myfbarray[SlotBefore(d + 1)] = NULL
      BY <3>1 DEF PoolInv, RoomToPut
    <3>5. QED
      BY <1>5, <3>2, <3>3, <3>4
  <2>2. Len(pfbpool') <= NumFrameBufs /\ 1 .. Len(pfbpool') = 1 .. Len(pfbpool) - 1
    BY <1>1, <1>2, <1>3
  <2>3. QED
    BY <2>1, <2>2 DEF RoomToPut, SlotBefore
<1>9. InOnePlace'
  <2>1. \A i \in Slots : myfbarray[i] # h
    BY <1>3 DEF PoolInv, InOnePlace
  <2>2. \A i, j \in Slots : myfbarray'[i] = myfbarray'[j] /\ i # j => myfbarray'[i] = NULL
    BY <1>4, <1>5, <2>1 DEF PoolInv, InOnePlace
  <2>3. \A i, j \in DOMAIN pfbpool' : pfbpool'[i] = pfbpool'[j] => i = j
    <3>1. SUFFICES ASSUME NEW i \in 1 .. Len(pfbpool) - 1,
                          NEW j \in 1 .. Len(pfbpool) - 1,
                          pfbpool'[i] = pfbpool'[j]
                   PROVE  i = j
      BY <1>1, <1>3
    <3>2. pfbpool[i + 1] = pfbpool[j + 1] /\ i + 1 \in DOMAIN pfbpool
          /\ j + 1 \in DOMAIN pfbpool
      BY <1>1, <1>2, <1>3, <3>1
    <3>3. QED
      BY <1>2, <3>2
  <2>4. \A i \in Slots : myfbarray'[i] \notin Range(pfbpool')
    BY <1>1, <1>3, <1>5 DEF PoolInv, InOnePlace
  <2>5. QED
    BY <2>2, <2>3, <2>4 DEF InOnePlace
<1>10. QED
  BY <1>6, <1>7, <1>8, <1>9 DEF PoolInv

--------------------------------------------------------------------------------
(* The inductive invariant.                                                *)

(* A step that leaves the frames alone leaves the pool as it is.           *)
LEMMA FramesKeepPool ==
  ASSUME PoolInv, UNCHANGED frames
  PROVE  PoolInv'
BY DEF frames, pool, PoolInv, FrameTypes, InOnePlace, RoomToPut, SlotBefore,
       FramesAccounted

(* init_framebuf fills the ring.                                           *)
LEMMA InitFramebufMakesPool ==
  ASSUME PoolInv, pfbpool = <<>>, GetInitInfo
  PROVE  PoolInv'
<1>1. /\ totalfb' \in Nat
      /\ myfbarray' = [i \in Slots |-> i]
      /\ myfb_index' = 0 /\ 0 \in Slots
      /\ pfbpool' = <<>> /\ Len(<<>>) = 0 /\ Range(<<>>) = {}
      /\ UNCHANGED <<phys, virt>>
  BY NumFrameBufsAssumption, MinFbCountsAssumption
     DEF GetInitInfo, Slots, Range
<1>2. FrameTypes'
  BY <1>1 DEF PoolInv, FrameTypes
<1>3. InOnePlace' /\ RoomToPut'
  BY <1>1, NumFrameBufsAssumption DEF InOnePlace, RoomToPut
<1>4. FramesAccounted'
  BY <1>1 DEF PoolInv, FramesAccounted
<1>5. QED
  BY <1>2, <1>3, <1>4 DEF PoolInv

(* IInv is PoolInv and what is held at each place.                         *)
LEMMA IInvParts == IInv <=> /\ pc \in PCs /\ owned \subseteq Resources
                            /\ PoolInv /\ HeldAt
BY DEF IInv, PoolInv, TypeOK, FrameTypes

(* Nothing is open at first.                                               *)
LEMMA InitEstablishesIInv == Init => IInv
<1> SUFFICES ASSUME Init PROVE IInv
  OBVIOUS
<1>1. /\ 0 \in Slots /\ NULL \notin Slots /\ Len(<<>>) = 0 /\ Range(<<>>) = {}
      /\ <<>> \in Seq(Slots)
  BY NumFrameBufsAssumption DEF Slots, NULL, Range
<1>2. FrameTypes
  BY <1>1 DEF Init, FrameTypes
<1>3. InOnePlace /\ RoomToPut /\ FramesAccounted
  BY <1>1, NumFrameBufsAssumption DEF Init, InOnePlace, RoomToPut, FramesAccounted
<1>4. pc \in PCs /\ owned \subseteq Resources /\ HeldAt
  BY DEF Init, PCs, HeldAt
<1>5. QED
  BY <1>2, <1>3, <1>4, IInvParts DEF PoolInv

(* Every step keeps the invariant.                                         *)
LEMMA NextKeepsIInv == IInv /\ [Next]_vars => IInv'
<1> SUFFICES ASSUME IInv, [Next]_vars PROVE IInv'
  OBVIOUS
<1>1. /\ pc \in PCs /\ owned \subseteq Resources /\ PoolInv /\ HeldAt
      /\ pfbpool \in Seq(Slots) /\ totalfb \in Nat
  BY IInvParts DEF IInv, TypeOK
<1>2. CASE Malloc \/ VpuInit \/ GetPhys \/ GetVirt \/ VirtUnnoticed \/ EncOpen
  <2>1. PoolInv'
    BY <1>1, <1>2, FramesKeepPool
       DEF Malloc, VpuInit, GetPhys, GetVirt, VirtUnnoticed, EncOpen
  <2>2. /\ pfbpool' = <<>>
        /\ \/ pc' = "vpu" /\ owned' = {"handle"}
           \/ pc' = "bs_phys" /\ owned' = {"handle", "vpu"}
           \/ pc' = "bs_virt" /\ owned' = {"handle", "vpu", "bs_phys"}
           \/ /\ pc' = "enc"
              /\ owned' \cup {"bs_virt"} = {"handle", "vpu", "bs_phys", "bs_virt"}
           \/ pc' = "info" /\ owned' \cup {"bs_virt"} = Resources \ {"arrays"}
    <3>1. CASE Malloc
      BY <1>1, <3>1 DEF Malloc, Acquire, HeldAt, frames
    <3>2. CASE VpuInit
      BY <1>1, <3>2 DEF VpuInit, Acquire, HeldAt, frames
    <3>3. CASE GetPhys
      BY <1>1, <3>3 DEF GetPhys, Acquire, HeldAt, frames
    <3>4. CASE GetVirt \/ VirtUnnoticed
      BY <1>1, <3>4 DEF GetVirt, VirtUnnoticed, Acquire, HeldAt, frames
    <3>5. CASE EncOpen
      BY <1>1, <3>5 DEF EncOpen, Acquire, HeldAt, AllHeld, frames, Resources
    <3>6. QED
      BY <1>2, <3>1, <3>2, <3>3, <3>4, <3>5
  <2>3. HeldAt' /\ pc' \in PCs /\ owned' \subseteq Resources
    BY <2>2 DEF HeldAt, AllHeld, PCs, Resources
  <2>4. QED
    BY <2>1, <2>3 DEF IInv, PoolInv, TypeOK, FrameTypes
<1>3. CASE InitFails \/ EncOpenFails \/ GetInitInfoFails \/ AllocArraysFails
           \/ PrepareFails
  <2>1. PoolInv'
    BY <1>1, <1>3, FramesKeepPool
       DEF InitFails, EncOpenFails, GetInitInfoFails, AllocArraysFails,
           PrepareFails, Err2
  <2>2. HeldAt' /\ pc' \in PCs /\ owned' \subseteq Resources
    BY <1>1, <1>3, SMT
       DEF InitFails, EncOpenFails, GetInitInfoFails, AllocArraysFails,
           PrepareFails, Err2, Fail, HeldAt, AllHeld, frames, PCs, Resources
  <2>3. QED
    BY <2>1, <2>2 DEF IInv, PoolInv, TypeOK, FrameTypes
<1>4. CASE GetInitInfo
  <2>1. pfbpool = <<>>
    BY <1>1, <1>4 DEF GetInitInfo, Acquire, HeldAt
  <2>2. PoolInv'
    BY <1>1, <1>4, <2>1, InitFramebufMakesPool
  <2>3. HeldAt' /\ pc' \in PCs /\ owned' \subseteq Resources
    <3>1. \E min \in Nat : totalfb' = min + 3
      BY <1>4, MinFbCountsAssumption DEF GetInitInfo
    <3>2. /\ pc' = "arrays" /\ owned' = owned
          /\ owned \cup {"bs_virt"} = Resources \ {"arrays"}
          /\ pfbpool' = <<>>
      BY <1>1, <1>4, <2>1 DEF GetInitInfo, Acquire, HeldAt
    <3>3. totalfb' >= 3
      BY <3>1
    <3>4. QED
      BY <3>2, <3>3 DEF HeldAt, AllHeld, PCs, Resources
  <2>4. QED
    BY <2>2, <2>3 DEF IInv, PoolInv, TypeOK, FrameTypes
<1>5. CASE AllocArrays \/ Register \/ Unwound \/ Prepare \/ Close \/ Closed
  <2>1. PoolInv'
    BY <1>1, <1>5, FramesKeepPool
       DEF AllocArrays, Register, Unwound, Prepare, Close, Closed
  <2>2. HeldAt' /\ pc' \in PCs /\ owned' \subseteq Resources
    <3>1. CASE AllocArrays
      <4>1. /\ owned' \subseteq Resources /\ AllHeld' /\ pc' = "frames"
            /\ pfbpool' = pfbpool /\ pfbpool = <<>>
            /\ totalfb' = totalfb /\ totalfb >= 3
        BY <1>1, <3>1 DEF AllocArrays, Acquire, HeldAt, AllHeld, frames, Resources
      <4>2. Len(pfbpool') <= totalfb' - 1
        <5>1. Len(pfbpool) = 0
          BY <4>1
        <5>2. 0 <= totalfb - 1
          BY <1>1, <4>1
        <5>3. QED
          BY <4>1, <5>1, <5>2
      <4>3. QED
        BY <4>1, <4>2 DEF HeldAt, AllHeld, PCs
    <3>2. CASE Register
      BY <1>1, <3>2, SMT DEF Register, HeldAt, AllHeld, frames, PCs
    <3>3. CASE Unwound
      BY <1>1, <3>3 DEF Unwound, Fail, HeldAt, AllHeld, frames, PCs
    <3>4. CASE Prepare
      BY <1>1, <3>4 DEF Prepare, Acquire, HeldAt, AllHeld, frames, PCs
    <3>5. CASE Close
      BY <1>1, <3>5 DEF Close, HeldAt, AllHeld, frames, PCs
    <3>6. CASE Closed
      BY <1>1, <3>6 DEF Closed, HeldAt, AllHeld, frames, PCs, Resources
    <3>7. QED
      BY <1>5, <3>1, <3>2, <3>3, <3>4, <3>5, <3>6
  <2>3. QED
    BY <2>1, <2>2 DEF IInv, PoolInv, TypeOK, FrameTypes
<1>6. CASE AllocFrame \/ AllocSrc
  <2>1. FramebufAlloc /\ UNCHANGED <<owned, totalfb>>
    BY <1>6 DEF AllocFrame, AllocSrc
  <2>2. PoolInv' /\ Len(pfbpool') = Len(pfbpool) + 1
    BY <1>1, <2>1, AllocKeepsPool
  <2>3. HeldAt' /\ pc' \in PCs /\ owned' \subseteq Resources
    BY <1>1, <1>6, <2>1, <2>2, SMT DEF AllocFrame, AllocSrc, HeldAt, AllHeld, PCs
  <2>4. QED
    BY <2>2, <2>3 DEF IInv, PoolInv, TypeOK, FrameTypes
<1>7. CASE AllocFrameFails \/ AllocSrcFails
  <2>1. /\ FramebufAllocFails /\ UNCHANGED <<owned, totalfb>>
        /\ pfbpool' = pfbpool /\ pc' = "unwind" /\ pc \in {"frames", "src"}
    BY <1>7 DEF AllocFrameFails, AllocSrcFails, FramebufAllocFails
  <2>2. PoolInv'
    BY <1>1, <2>1, AllocFailsKeepsPool
  <2>3. HeldAt' /\ pc' \in PCs /\ owned' \subseteq Resources
    BY <1>1, <2>1, SMT DEF HeldAt, AllHeld, PCs
  <2>4. QED
    BY <2>2, <2>3 DEF IInv, PoolInv, TypeOK, FrameTypes
<1>8. CASE FreeFrame
  <2>1. /\ FramebufFree /\ pfbpool # <<>> /\ UNCHANGED <<pc, owned, totalfb>>
        /\ pc \in {"unwind", "closing"}
    BY <1>8 DEF FreeFrame
  <2>2. PoolInv'
    BY <1>1, <2>1, FreeKeepsPool
  <2>3. HeldAt' /\ pc' \in PCs /\ owned' \subseteq Resources
    BY <1>1, <2>1, SMT DEF HeldAt, AllHeld, PCs
  <2>4. QED
    BY <2>2, <2>3 DEF IInv, PoolInv, TypeOK, FrameTypes
<1>9. CASE UNCHANGED vars
  <2>1. PoolInv'
    BY <1>1, <1>9, FramesKeepPool DEF vars, frames
  <2>2. HeldAt' /\ pc' \in PCs /\ owned' \subseteq Resources
    BY <1>1, <1>9 DEF vars, HeldAt, AllHeld
  <2>3. QED
    BY <2>1, <2>2 DEF IInv, PoolInv, TypeOK, FrameTypes
<1>10. QED
  BY <1>2, <1>3, <1>4, <1>5, <1>6, <1>7, <1>8, <1>9 DEF Next

(* encode_open, encode_close: the pool, the frame buffers' memory and what *)
(* is held are as IInv says at every step.                                 *)
THEOREM OpenInvariant == Spec => []IInv
BY InitEstablishesIInv, NextKeepsIInv, PTL DEF Spec

(* No descriptor of the pool is ever in two places, with any pool size and *)
(* any number of frames, when the pool runs out too.                       *)
THEOREM DescriptorsInOnePlace == Spec => []InOnePlace
<1>1. IInv => InOnePlace
  BY DEF IInv
<1>2. QED
  BY <1>1, OpenInvariant, PTL

(* The three operations on the pool, and which descriptors they lose.      *)
LEMMA AllocLosesNone ==
  ASSUME PoolInv, FramebufAlloc
  PROVE  Lost' \subseteq Lost
<1>1. /\ myfbarray \in [Slots -> Slots \cup {NULL}] /\ myfb_index \in Slots
      /\ pfbpool \in Seq(Slots) /\ Taken \in Slots
      /\ pfbpool' = Append(pfbpool, Taken)
      /\ myfbarray' = [myfbarray EXCEPT ![myfb_index] = NULL]
  BY DEF PoolInv, FrameTypes, FramebufAlloc, Take, Taken
<1>2. Range(pfbpool') = Range(pfbpool) \cup {Taken}
  BY <1>1, AppendElements
<1>3. \A j \in Slots : j # myfb_index => myfbarray'[j] = myfbarray[j]
  BY <1>1
<1>4. Range(myfbarray) \subseteq Range(myfbarray') \cup {Taken}
  BY <1>1, <1>3 DEF Range, Taken
<1>5. QED
  BY <1>2, <1>4 DEF Lost

LEMMA AllocFailsLosesOne ==
  ASSUME PoolInv, FramebufAllocFails
  PROVE  Lost' \subseteq Lost \cup {Taken}
<1>1. /\ myfbarray \in [Slots -> Slots \cup {NULL}] /\ myfb_index \in Slots
      /\ pfbpool' = pfbpool
      /\ myfbarray' = [myfbarray EXCEPT ![myfb_index] = NULL]
  BY DEF PoolInv, FrameTypes, FramebufAllocFails, Take
<1>2. \A j \in Slots : j # myfb_index => myfbarray'[j] = myfbarray[j]
  BY <1>1
<1>3. Range(myfbarray) \subseteq Range(myfbarray') \cup {Taken}
  BY <1>1, <1>2 DEF Range, Taken
<1>4. QED
  BY <1>1, <1>3 DEF Lost

LEMMA FreeLosesNone ==
  ASSUME PoolInv, FramebufFree, pfbpool # <<>>
  PROVE  Lost' \subseteq Lost
<1> DEFINE h == Head(pfbpool)
<1>1. /\ myfbarray \in [Slots -> Slots \cup {NULL}]
      /\ Before(myfb_index) \in Slots /\ myfbarray[Before(myfb_index)] = NULL
      /\ pfbpool' = Tail(pfbpool)
      /\ myfbarray' = [myfbarray EXCEPT ![Before(myfb_index)] = h]
  BY PutIntoEmptySlot DEF PoolInv, FrameTypes, FramebufFree, PutFramebuf
<1>2. Range(Tail(pfbpool)) = Range(pfbpool) \ {h}
  BY TailElements DEF PoolInv, FrameTypes, InOnePlace
<1>3. /\ myfbarray'[Before(myfb_index)] = h
      /\ \A j \in Slots : j # Before(myfb_index) => myfbarray'[j] = myfbarray[j]
  BY <1>1
<1>4. Range(myfbarray) \cup {h} \subseteq Range(myfbarray') \cup {NULL}
  BY <1>1, <1>3 DEF Range
<1>5. NULL \notin Slots
  BY NumFrameBufsAssumption DEF NULL, Slots
<1>6. QED
  BY <1>1, <1>2, <1>4, <1>5 DEF Lost

LEMMA NextKeepsDescriptors ==
  IInv /\ DescriptorsKept /\ [Next]_vars => DescriptorsKept'
<1> SUFFICES ASSUME IInv, DescriptorsKept, [Next]_vars PROVE DescriptorsKept'
  OBVIOUS
<1>1. PoolInv
  BY IInvParts
<1>2. CASE GetInitInfo
  <2>1. pc' = "arrays" /\ myfbarray' = [i \in Slots |-> i]
    BY <1>2 DEF GetInitInfo, Acquire
  <2>2. Range(myfbarray') = Slots
    BY <2>1 DEF Range
  <2>3. QED
    BY <2>1, <2>2 DEF DescriptorsKept, Lost
<1>3. CASE AllocFrame \/ AllocSrc
  <2>1. /\ FramebufAlloc /\ pc \in {"frames", "src"}
        /\ pc' \in {"frames", "prepare"}
    BY <1>3 DEF AllocFrame, AllocSrc
  <2>2. Lost = {} /\ Lost' \subseteq Lost
    BY <1>1, <2>1, AllocLosesNone DEF DescriptorsKept
  <2>3. QED
    BY <2>1, <2>2 DEF DescriptorsKept
<1>4. CASE AllocFrameFails \/ AllocSrcFails
  <2>1. /\ FramebufAllocFails /\ pc \in {"frames", "src"} /\ pc' = "unwind"
    BY <1>4 DEF AllocFrameFails, AllocSrcFails
  <2>2. Lost = {} /\ Lost' \subseteq Lost \cup {Taken}
    BY <1>1, <2>1, AllocFailsLosesOne DEF DescriptorsKept
  <2>3. QED
    BY <2>1, <2>2 DEF DescriptorsKept
<1>5. CASE FreeFrame
  <2>1. FramebufFree /\ pfbpool # <<>> /\ pc' = pc
    BY <1>5 DEF FreeFrame
  <2>2. Lost' \subseteq Lost
    BY <1>1, <2>1, FreeLosesNone
  <2>3. QED
    BY <2>1, <2>2 DEF DescriptorsKept
<1>6. CASE AllocArrays \/ Register \/ Prepare \/ Close \/ UNCHANGED vars
  <2>1. Lost' = Lost
    BY <1>6 DEF AllocArrays, Register, Prepare, Close, Acquire, vars, frames, pool, Lost
  <2>2. \/ pc' = pc
        \/ /\ pc \in {"arrays", "frames", "prepare", "open"}
           /\ pc' \in {"frames", "src", "unwind", "open", "closing"}
    BY <1>6 DEF AllocArrays, Register, Prepare, Close, Acquire, vars
  <2>3. QED
    BY <2>1, <2>2 DEF DescriptorsKept
<1>7. CASE \/ Malloc \/ VpuInit \/ GetPhys \/ GetVirt \/ VirtUnnoticed
           \/ EncOpen \/ InitFails \/ EncOpenFails \/ GetInitInfoFails \/ AllocArraysFails
           \/ PrepareFails \/ Unwound \/ Closed
  <2>1. pc' \in {"vpu", "bs_phys", "bs_virt", "enc", "info", "failed", "closed"}
    BY <1>7 DEF Malloc, VpuInit, GetPhys, GetVirt, VirtUnnoticed, EncOpen,
                InitFails, EncOpenFails, GetInitInfoFails, AllocArraysFails, PrepareFails,
                Unwound, Closed, Err2, Acquire, Fail
  <2>2. QED
    BY <2>1 DEF DescriptorsKept
<1>8. QED
  BY <1>2, <1>3, <1>4, <1>5, <1>6, <1>7 DEF Next

(* No descriptor is ever overwritten in the pool, with any pool size: only *)
(* the one whose allocation failed is missing from it afterwards.          *)
THEOREM NoDescriptorLost == Spec => []DescriptorsKept
<1>1. Init => DescriptorsKept
  BY DEF Init, DescriptorsKept
<1>2. QED
  BY <1>1, OpenInvariant, NextKeepsDescriptors, PTL DEF Spec

(* An encoder that was opened has all its frames, all different.           *)
THEOREM OpenedHasAllFrames == Spec => []OpenHasAllFrames
<1>1. IInv => OpenHasAllFrames
  <2> SUFFICES ASSUME IInv, pc = "open"
               PROVE  /\ Len(pfbpool) = totalfb
                      /\ \A i, j \in 1 .. totalfb : pfbpool[i] = pfbpool[j] => i = j
                      /\ AllHeld
                      /\ totalfb <= NumFrameBufs
    BY DEF OpenHasAllFrames
  <2>1. Len(pfbpool) = totalfb /\ AllHeld /\ pfbpool \in Seq(Slots)
    BY DEF IInv, HeldAt, TypeOK
  <2>2. totalfb <= NumFrameBufs /\ DOMAIN pfbpool = 1 .. totalfb
    BY <2>1 DEF IInv, RoomToPut
  <2>3. QED
    BY <2>1, <2>2 DEF IInv, InOnePlace
<1>2. QED
  BY <1>1, OpenInvariant, PTL

(* encode_close leaves nothing, and an encode_open that fails leaves no    *)
(* frame buffer unless prepare_encode is what failed.                      *)
THEOREM NothingIsLeft == Spec => []NothingLeft
<1>1. IInv => NothingLeft
  BY DEF IInv, HeldAt, FramesAccounted, NothingLeft, Range
<1>2. QED
  BY <1>1, OpenInvariant, PTL

(* The memory held is exactly that of the descriptors in use.              *)
THEOREM MemoryIsAccounted == Spec => []FramesAccounted
<1>1. IInv => FramesAccounted
  BY DEF IInv
<1>2. QED
  BY <1>1, OpenInvariant, PTL

================================================================================
