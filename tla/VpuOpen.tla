------------------------------ MODULE VpuOpen ------------------------------
(***************************************************************************)
(* Opening and closing of the encoder on the i.MX6 VPU, encode_open and    *)
(* encode_close of src/vpu_encode.c: what is acquired, in which order, and *)
(* what each way out gives back.  Frame buffers are descriptors taken from *)
(* a pool in the handle (myfbarray, a ring of pointers with one index for  *)
(* both ends), each with memory of the VPU.                                *)
(*                                                                         *)
(* A step is one call that may fail.  What the encoder does while it is    *)
(* open is the subject of module VpuEncode.                                *)
(***************************************************************************)
EXTENDS Integers, Sequences, Functions

CONSTANTS
  NumFrameBufs,     (* NUM_FRAME_BUFS                                      *)
  MinFbCounts       (* what the VPU may ask for as minFrameBufferCount     *)

ASSUME NumFrameBufsAssumption == NumFrameBufs \in Nat \ {0}
ASSUME MinFbCountsAssumption  == MinFbCounts \subseteq Nat

VARIABLES
  pc,           (* the next call, see PCs                                  *)
  owned,        (* what is held, apart from the frame buffers' memory      *)
  totalfb,
  myfbarray,    (* the ring: a descriptor of myfbpool, or NULL             *)
  myfb_index,
  pfbpool,      (* the descriptors taken, in order, without those freed    *)
  phys,         (* descriptors with physical memory                        *)
  virt          (* descriptors with a mapping of it                        *)

pool == <<myfbarray, myfb_index>>
vars == <<pc, owned, totalfb, pool, pfbpool, phys, virt>>

PCs == {"closed", "vpu", "bs_phys", "bs_virt", "enc", "info", "arrays", "frames",
        "src", "prepare", "open", "unwind", "closing", "failed"}

Resources == {"handle", "vpu", "bs_phys", "bs_virt", "enc", "arrays"}

Slots == 0 .. NumFrameBufs - 1

NULL == NumFrameBufs

--------------------------------------------------------------------------------

Init ==
  /\ pc = "closed"
  /\ owned = {}
  /\ totalfb = 0
  /\ myfbarray = [i \in Slots |-> NULL]
  /\ myfb_index = 0
  /\ pfbpool = <<>>
  /\ phys = {} /\ virt = {}

frames == <<totalfb, pool, pfbpool, phys, virt>>

(* A call that gives r, and the next one; or it fails, and encode_open     *)
(* gives back some of what it has and returns NULL.                        *)
Acquire(place, r, next) ==
  /\ pc = place
  /\ pc' = next
  /\ owned' = owned \cup r

Fail(place, given_back) ==
  /\ pc = place
  /\ pc' = "failed"
  /\ owned' = owned \ given_back

(* malloc of the handle; vpu_Init and vpu_GetVersionInfo, which undoes     *)
(* vpu_Init if it fails; the bitstream buffer.  These ways out leave the   *)
(* handle and all but the last acquisition.                                *)
Malloc   == Acquire("closed", {"handle"}, "vpu") /\ UNCHANGED frames
VpuInit  == Acquire("vpu", {"vpu"}, "bs_phys") /\ UNCHANGED frames
GetPhys  == Acquire("bs_phys", {"bs_phys"}, "bs_virt") /\ UNCHANGED frames
GetVirt  == Acquire("bs_virt", {"bs_virt"}, "enc") /\ UNCHANGED frames

(* The test for a failed mapping, <= 0 on an unsigned address, sees only   *)
(* the address 0: with any other, encode_open goes on without the mapping. *)
VirtUnnoticed == Acquire("bs_virt", {}, "enc") /\ UNCHANGED frames

InitFails ==
  /\ Fail("vpu", {}) \/ Fail("bs_phys", {}) \/ Fail("bs_virt", {"bs_phys"})
  /\ UNCHANGED frames

(* vpu_EncOpen; it fails to err1.                                          *)
EncOpen      == Acquire("enc", {"enc"}, "info") /\ UNCHANGED frames
EncOpenFails == Fail("enc", {"handle"}) /\ UNCHANGED frames

(* get_initinfo, and init_framebuf; or to err2.                            *)
GetInitInfo ==
  /\ Acquire("info", {}, "arrays")
  /\ \E min \in MinFbCounts : totalfb' = min + 3
  /\ myfbarray' = [i \in Slots |-> i]
  /\ myfb_index' = 0
  /\ UNCHANGED <<pfbpool, phys, virt>>

Err2(place) == Fail(place, {"enc", "handle"}) /\ UNCHANGED frames

GetInitInfoFails == Err2("info")

--------------------------------------------------------------------------------
(* The pool of descriptors, framebuf_alloc and framebuf_free.              *)

(* ++ and -- of the index, & FB_INDEX_MASK: NUM_FRAME_BUFS is a power of   *)
(* two, so that the mask takes the remainder.                              *)
After(i)  == IF i = NumFrameBufs - 1 THEN 0 ELSE i + 1
Before(i) == IF i = 0 THEN NumFrameBufs - 1 ELSE i - 1

(* Mistake: the descriptor stays in the ring.                              *)
TakeAndLeave ==
  /\ myfb_index' = After(myfb_index)
  /\ UNCHANGED myfbarray

(* get_framebuf takes what the index points at, NULL if the pool is empty. *)
Taken == myfbarray[myfb_index]

Take ==
  /\ myfbarray' = [myfbarray EXCEPT ![myfb_index] = NULL]
  /\ myfb_index' = After(myfb_index)

(* Mistake: the descriptor put where the index points, not before.         *)
PutAtIndex(mfb) ==
  /\ myfb_index' = Before(myfb_index)
  /\ myfbarray' = [myfbarray EXCEPT ![myfb_index] = mfb]

(* put_framebuf                                                            *)
PutFramebuf(mfb) ==
  /\ myfb_index' = Before(myfb_index)
  /\ myfbarray' = [myfbarray EXCEPT ![Before(myfb_index)] = mfb]

(* A mapping that fails may go unnoticed here too.                         *)
FramebufAlloc ==
  /\ Taken # NULL
  /\ Take
  /\ pfbpool' = Append(pfbpool, Taken)
  /\ phys' = phys \cup {Taken}
  /\ virt' \in {virt, virt \cup {Taken}}

(* Mistake: a descriptor that could not be mapped keeps its memory.        *)
FramebufAllocFailsUnfreed ==
  /\ Take
  /\ \/ phys' = phys
     \/ Taken # NULL /\ phys' = phys \cup {Taken}
  /\ UNCHANGED <<pfbpool, virt>>

(* An empty pool, no memory, or no mapping, in which case the memory is    *)
(* freed again.  The descriptor is not put back.                           *)
FramebufAllocFails ==
  /\ Take
  /\ UNCHANGED <<pfbpool, phys, virt>>

(* framebuf_free of the first descriptor left in pfbpool.                  *)
FramebufFree ==
  /\ virt' = virt \ {Head(pfbpool)}
  /\ phys' = phys \ {Head(pfbpool)}
  /\ PutFramebuf(Head(pfbpool))
  /\ pfbpool' = Tail(pfbpool)

--------------------------------------------------------------------------------
(* encoder_allocate_framebuffer.                                           *)

(* calloc of fb and pfbpool.                                               *)
AllocArrays      == Acquire("arrays", {"arrays"}, "frames") /\ UNCHANGED frames
AllocArraysFails == Err2("arrays")

AllocFrame ==
  /\ pc = "frames"
  /\ Len(pfbpool) < totalfb - 1
  /\ FramebufAlloc
  /\ UNCHANGED <<pc, owned, totalfb>>

AllocFrameFails ==
  /\ pc = "frames"
  /\ Len(pfbpool) < totalfb - 1
  /\ pc' = "unwind"
  /\ FramebufAllocFails
  /\ UNCHANGED <<owned, totalfb>>

(* vpu_EncRegisterFrameBuffer, when all but the source frame are there.    *)
Register ==
  /\ pc = "frames"
  /\ Len(pfbpool) = totalfb - 1
  /\ pc' \in {"src", "unwind"}
  /\ UNCHANGED <<owned, frames>>

AllocSrc ==
  /\ pc = "src"
  /\ pc' = "prepare"
  /\ FramebufAlloc
  /\ UNCHANGED <<owned, totalfb>>

AllocSrcFails ==
  /\ pc = "src"
  /\ pc' = "unwind"
  /\ FramebufAllocFails
  /\ UNCHANGED <<owned, totalfb>>

(* err: the frames are freed one by one, then the arrays; then err2.       *)
FreeFrame ==
  /\ pc \in {"unwind", "closing"}
  /\ pfbpool # <<>>
  /\ FramebufFree
  /\ UNCHANGED <<pc, owned, totalfb>>

Unwound ==
  /\ pfbpool = <<>>
  /\ Fail("unwind", {"arrays", "enc", "handle"})
  /\ UNCHANGED frames

(* prepare_encode; when it refuses the sizes the frames stay allocated.    *)
Prepare      == Acquire("prepare", {}, "open") /\ UNCHANGED frames
PrepareFails == Err2("prepare")

--------------------------------------------------------------------------------
(* encode_close                                                            *)

Close ==
  /\ pc = "open"
  /\ pc' = "closing"
  /\ UNCHANGED <<owned, frames>>

(* Mistake: the memory of the bitstream buffer unmapped only.              *)
ClosedUnmappedOnly ==
  /\ pc = "closing"
  /\ pfbpool = <<>>
  /\ pc' = "closed"
  /\ owned' = owned \ {"arrays", "enc", "bs_virt", "vpu", "handle"}
  /\ UNCHANGED frames

Closed ==
  /\ pc = "closing"
  /\ pfbpool = <<>>
  /\ pc' = "closed"
  /\ owned' = owned \ {"arrays", "enc", "bs_virt", "bs_phys", "vpu", "handle"}
  /\ UNCHANGED frames

Next ==
  \/ Malloc \/ VpuInit \/ GetPhys \/ GetVirt \/ VirtUnnoticed \/ InitFails
  \/ EncOpen \/ EncOpenFails \/ GetInitInfo \/ GetInitInfoFails
  \/ AllocArrays \/ AllocArraysFails \/ AllocFrame \/ AllocFrameFails
  \/ Register \/ AllocSrc \/ AllocSrcFails \/ FreeFrame \/ Unwound
  \/ Prepare \/ PrepareFails
  \/ Close \/ Closed

Spec == Init /\ [][Next]_vars

--------------------------------------------------------------------------------
(* Properties.                                                             *)

(* Every variable has a value of its type.                                 *)
TypeOK ==
  /\ pc \in PCs
  /\ owned \subseteq Resources
  /\ totalfb \in Nat
  /\ myfbarray \in [Slots -> Slots \cup {NULL}]
  /\ myfb_index \in Slots
  /\ pfbpool \in Seq(Slots)
  /\ phys \subseteq Slots /\ virt \subseteq Slots

(* No descriptor is in two places: twice in the ring, twice in use, or in  *)
(* use and in the ring.                                                    *)
InOnePlace ==
  /\ \A i, j \in Slots : myfbarray[i] = myfbarray[j] /\ i # j => myfbarray[i] = NULL
  /\ \A i, j \in DOMAIN pfbpool : pfbpool[i] = pfbpool[j] => i = j
  /\ \A i \in Slots : myfbarray[i] \notin Range(pfbpool)

(* No descriptor is lost, although put_framebuf does not look at the slot  *)
(* it writes, but the one whose allocation made encode_open fail.          *)
Lost == Slots \ (Range(myfbarray) \cup Range(pfbpool))

DescriptorsKept ==
  /\ pc \in {"arrays", "frames", "src", "prepare", "open", "closing"} => Lost = {}
  /\ pc = "unwind" => \A mfb, other \in Lost : mfb = other

(* The slots before the index, as many as descriptors are in use, are      *)
(* empty: that is where put_framebuf puts them.                            *)
SlotBefore(d) == IF d <= myfb_index THEN myfb_index - d
                 ELSE myfb_index - d + NumFrameBufs

RoomToPut ==
  /\ Len(pfbpool) <= NumFrameBufs
  /\ \A d \in 1 .. Len(pfbpool) : myfbarray[SlotBefore(d)] = NULL

(* The memory held is that of the descriptors in use, and so are the       *)
(* mappings: freeing these frees all of it, and nothing twice.             *)
FramesAccounted == phys = Range(pfbpool) /\ virt \subseteq Range(pfbpool)

(* All that encode_open can tell to be there, is there.                    *)
AllHeld == owned \cup {"bs_virt"} = Resources

(* An encoder that could be opened has all the frames the VPU asked for    *)
(* and one for the source, all different; the pool was large enough; and   *)
(* nothing else is missing but a mapping that failed unnoticed.            *)
OpenHasAllFrames ==
  pc = "open" => /\ Len(pfbpool) = totalfb
                 /\ \A i, j \in 1 .. totalfb : pfbpool[i] = pfbpool[j] => i = j
                 /\ AllHeld
                 /\ totalfb <= NumFrameBufs

(* After encode_close nothing is held; and when encode_open fails before   *)
(* prepare_encode, no frame buffer is.                                     *)
NothingLeft ==
  /\ pc = "closed" => owned = {} /\ phys = {} /\ virt = {}
  /\ pc = "failed" /\ "arrays" \notin owned => phys = {} /\ virt = {}

(* What is held at each place in encode_open.                              *)
HeldAt ==
  /\ pc \in {"frames", "src", "prepare", "open", "unwind", "closing"} => AllHeld
  /\ pc \in {"info", "arrays"} => owned \cup {"bs_virt"} = Resources \ {"arrays"}
  /\ pc = "enc" => owned \cup {"bs_virt"} = {"handle", "vpu", "bs_phys", "bs_virt"}
  /\ pc = "bs_virt" => owned = {"handle", "vpu", "bs_phys"}
  /\ pc = "bs_phys" => owned = {"handle", "vpu"}
  /\ pc = "vpu" => owned = {"handle"}
  /\ pc = "closed" => owned = {}
  /\ pc \in {"vpu", "bs_phys", "bs_virt", "enc", "info", "arrays", "closed"} =>
       pfbpool = <<>>
  /\ pc = "failed" /\ pfbpool # <<>> => "arrays" \in owned
  /\ pc = "arrays" => totalfb >= 3
  /\ pc = "frames" => Len(pfbpool) <= totalfb - 1
  /\ pc = "src" => Len(pfbpool) = totalfb - 1
  /\ pc \in {"prepare", "open"} => Len(pfbpool) = totalfb

IInv == TypeOK /\ InOnePlace /\ RoomToPut /\ FramesAccounted /\ HeldAt

================================================================================
