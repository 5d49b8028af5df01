----------------------------- MODULE V4lCapture -----------------------------
(***************************************************************************)
(* Capture of images through V4L2, src/v4l_capture.c, together with the    *)
(* device it drives.  The device owns a queue of mmap'ed buffers; it fills *)
(* them while the program runs.  capture_get_data gives the buffer of the  *)
(* previous call back to the queue and takes a filled one out; its caller  *)
(* reads the image in place, without a copy, until it calls again.         *)
(*                                                                         *)
(* The device runs concurrently with capture_get_data, which is therefore  *)
(* three steps: select, QBUF, DQBUF.  capture_start and capture_stop issue *)
(* all their requests while the device does not fill, and are one step.    *)
(***************************************************************************)
EXTENDS Integers, FiniteSets

CONSTANTS
  MaxBufs,      (* bound: most buffers the driver grants for REQBUFS       *)
  MayRestart    (* whether a program starts again after a stop             *)

ASSUME MaxBufsAssumption == MaxBufs \in Nat \ {0}
ASSUME RestartAssumption == MayRestart \in BOOLEAN

VARIABLES
  pc,           (* where the program is, see PCs                           *)
  fd,           (* the device is open                                      *)
  nbuffers,     (* handle->nbuffers                                        *)
  req_count,    (* req.count, as REQBUFS left it                           *)
  mapped,       (* the buffers that are mapped into the program            *)
  v4lbuf,       (* handle->v4lbuf.index                                    *)
  v4lbuf_put,   (* handle->v4lbuf_put                                      *)
  held,         (* the buffer whose image the caller may read, or NONE     *)
  ret,          (* what the last call of the program returned              *)
  streaming,    (* device: STREAMON is in effect                           *)
  buf,          (* device: who has each buffer                             *)
  used          (* the program has started the stream once                 *)

handle == <<nbuffers, req_count, mapped, v4lbuf, v4lbuf_put>>
vars   == <<pc, fd, handle, held, ret, streaming, buf, used>>

NONE == MaxBufs

Bufs == 0 .. MaxBufs - 1

(* "new": no handle; "map": in init_mmap's loop; "idle": between calls;    *)
(* "select", "put", "dequeue": in capture_get_data, before select, QBUF    *)
(* and DQBUF; "failed": capture_open returned NULL; "closed".              *)
PCs == {"new", "map", "idle", "select", "put", "dequeue", "failed", "closed"}

Owned == 0 .. nbuffers - 1

--------------------------------------------------------------------------------

Init ==
  /\ pc = "new"
  /\ fd = FALSE
  /\ nbuffers = 0 /\ req_count = 0 /\ mapped = {}
  /\ v4lbuf = 0 /\ v4lbuf_put = TRUE
  /\ held = NONE
  /\ ret = "none"
  /\ streaming = FALSE
  /\ buf = [b \in Bufs |-> "user"]
  /\ used = FALSE

device == <<streaming, buf>>

(* capture_open.  It fails before the device is open (malloc, stat, open); *)
OpenFails ==
  /\ pc = "new"
  /\ pc' = "failed"
  /\ UNCHANGED <<fd, handle, held, ret, device, used>>

(* or in init_device, or in REQBUFS, or the driver grants less than two    *)
(* buffers: the handle is freed, the device stays open;                    *)
InitDeviceFails ==
  /\ pc = "new"
  /\ pc' = "failed"
  /\ fd' = TRUE
  /\ UNCHANGED <<handle, held, ret, device, used>>

(* Mistake: one buffer taken for enough.                                   *)
RequestOneBuffer ==
  /\ pc = "new"
  /\ req_count' \in 1 .. MaxBufs
  /\ pc' = "map"
  /\ fd' = TRUE
  /\ UNCHANGED <<nbuffers, mapped, v4lbuf, v4lbuf_put, held, ret, device, used>>

(* or it goes on to map the buffers granted.                               *)
RequestBuffers ==
  /\ pc = "new"
  /\ req_count' \in 2 .. MaxBufs
  /\ pc' = "map"
  /\ fd' = TRUE
  /\ UNCHANGED <<nbuffers, mapped, v4lbuf, v4lbuf_put, held, ret, device, used>>

(* QUERYBUF and mmap of one buffer.                                        *)
MapBuffer ==
  /\ pc = "map"
  /\ nbuffers < req_count
  /\ mapped' = mapped \cup {nbuffers}
  /\ nbuffers' = nbuffers + 1
  /\ UNCHANGED <<pc, fd, req_count, v4lbuf, v4lbuf_put, held, ret, device, used>>

(* Mistake: the first one stays mapped.                                    *)
MapFailsButFirst ==
  /\ pc = "map"
  /\ nbuffers < req_count
  /\ pc' = "failed"
  /\ mapped' = mapped \ (1 .. nbuffers - 1)
  /\ nbuffers' = 0
  /\ UNCHANGED <<fd, req_count, v4lbuf, v4lbuf_put, held, ret, device, used>>

(* One of them fails: the ones mapped so far are unmapped again.           *)
MapFails ==
  /\ pc = "map"
  /\ nbuffers < req_count
  /\ pc' = "failed"
  /\ mapped' = mapped \ (0 .. nbuffers - 1)
  /\ nbuffers' = 0
  /\ UNCHANGED <<fd, req_count, v4lbuf, v4lbuf_put, held, ret, device, used>>

Opened ==
  /\ pc = "map"
  /\ nbuffers = req_count
  /\ pc' = "idle"
  /\ UNCHANGED <<fd, handle, held, ret, device, used>>

(* capture_start: QBUF of each buffer, then STREAMON.  QBUF k fails if the *)
(* driver has the buffer already, or for reasons of its own; what went     *)
(* before is not undone.                                                   *)
MayStart == pc = "idle" /\ ~streaming /\ (used => MayRestart)

QueueFirst(k) ==
  /\ \A b \in 0 .. k - 1 : buf[b] = "user"
  /\ buf' = [b \in Bufs |-> IF b < k THEN "queued" ELSE buf[b]]

StartFails ==
  /\ MayStart
  /\ \E k \in 0 .. nbuffers : QueueFirst(k)
  /\ ret' = "error"
  /\ used' = TRUE
  /\ UNCHANGED <<pc, fd, handle, held, streaming>>

Start ==
  /\ MayStart
  /\ QueueFirst(nbuffers)
  /\ streaming' = TRUE
  /\ ret' = "ok"
  /\ used' = TRUE
  /\ UNCHANGED <<pc, fd, handle, held>>

(* capture_stop: STREAMOFF takes every buffer from the driver; if it fails *)
(* the stream runs on, nobody looks.  The caller is done with the image.   *)
Stop ==
  /\ pc = "idle"
  /\ \/ streaming' = FALSE /\ buf' = [b \in Bufs |-> "user"]
     \/ UNCHANGED device
  /\ held' = NONE
  /\ UNCHANGED <<pc, fd, handle, ret, used>>

--------------------------------------------------------------------------------
(* capture_get_data.                                                       *)

Filled == {b \in Bufs : buf[b] = "filled"}

Call ==
  /\ pc = "idle"
  /\ used
  /\ pc' = "select"
  /\ held' = NONE
  /\ ret' = "none"
  /\ UNCHANGED <<fd, handle, device, used>>

Return(r) == pc' = "idle" /\ ret' = r

(* Nothing to read for two seconds, or select interrupted by a signal.     *)
SelectFails ==
  /\ pc = "select"
  /\ \/ Filled = {} /\ streaming /\ Return("timeout")
     \/ Return("interrupted")
  /\ UNCHANGED <<fd, handle, held, device, used>>

(* An image is there, or the poll reports an error (the stream is off), or *)
(* it is a spurious wake-up.                                               *)
Ready ==
  /\ pc = "select"
  /\ pc' = IF v4lbuf_put THEN "dequeue" ELSE "put"
  /\ UNCHANGED <<fd, handle, held, ret, device, used>>

(* Mistake: v4lbuf_put not set.                                            *)
PutBackUnnoted ==
  /\ pc = "put"
  /\ buf[v4lbuf] = "user"
  /\ buf' = [buf EXCEPT ![v4lbuf] = "queued"]
  /\ pc' = "dequeue"
  /\ UNCHANGED <<fd, handle, held, ret, streaming, used>>

(* put the v4l buffer to the queue if it's not                             *)
PutBack ==
  /\ pc = "put"
  /\ buf[v4lbuf] = "user"
  /\ buf' = [buf EXCEPT ![v4lbuf] = "queued"]
  /\ v4lbuf_put' = TRUE
  /\ pc' = "dequeue"
  /\ UNCHANGED <<fd, nbuffers, req_count, mapped, v4lbuf, held, ret, streaming, used>>

(* EINVAL: the buffer is in the queue; or another error of the driver.     *)
PutBackFails ==
  /\ pc = "put"
  /\ Return("error")
  /\ UNCHANGED <<fd, handle, held, device, used>>

(* Mistake: the buffer given back at once, not with the next call.         *)
DequeueAndPutBack ==
  /\ pc = "dequeue"
  /\ streaming
  /\ \E b \in Filled :
       /\ buf' = [buf EXCEPT ![b] = "queued"]
       /\ v4lbuf' = b
       /\ held' = b
  /\ Return("ok")
  /\ UNCHANGED <<fd, nbuffers, req_count, mapped, v4lbuf_put, streaming, used>>

(* DQBUF: whatever it does, v4lbuf was cleared.                            *)
Dequeue ==
  /\ pc = "dequeue"
  /\ streaming
  /\ \E b \in Filled :
       /\ buf' = [buf EXCEPT ![b] = "user"]
       /\ v4lbuf' = b
       /\ held' = b
  /\ v4lbuf_put' = FALSE
  /\ Return("ok")
  /\ UNCHANGED <<fd, nbuffers, req_count, mapped, streaming, used>>

DequeueFails ==
  /\ pc = "dequeue"
  /\ v4lbuf' = 0
  /\ \/ Filled = {} /\ streaming /\ Return("again")     \* EAGAIN
     \/ Return("error")                                 \* EIO, EINVAL
  /\ UNCHANGED <<fd, nbuffers, req_count, mapped, v4lbuf_put, held, device, used>>

(* capture_close; the stream, if it still runs, ends with the closing of   *)
(* the device.                                                             *)
Close ==
  /\ pc = "idle"
  /\ pc' = "closed"
  /\ mapped' = mapped \ Owned
  /\ fd' = FALSE
  /\ held' = NONE
  /\ streaming' = FALSE
  /\ buf' = [b \in Bufs |-> "user"]
  /\ UNCHANGED <<nbuffers, req_count, v4lbuf, v4lbuf_put, ret, used>>

(* The device fills a buffer of its queue.                                 *)
Fill ==
  /\ streaming
  /\ \E b \in Bufs :
       /\ buf[b] = "queued"
       /\ buf' = [buf EXCEPT ![b] = "filled"]
  /\ UNCHANGED <<pc, fd, handle, held, ret, streaming, used>>

GetData == SelectFails \/ Ready \/ PutBack \/ PutBackFails \/ Dequeue
           \/ DequeueFails

Next ==
  \/ OpenFails \/ InitDeviceFails \/ RequestBuffers \/ MapBuffer \/ MapFails
  \/ Opened \/ Start \/ StartFails \/ Stop \/ Close
  \/ Call \/ GetData
  \/ Fill

Spec == Init /\ [][Next]_vars

(* The program calls on, or finishes the call it is in; a camera that is   *)
(* streaming and has a buffer to fill fills it in the end.                 *)
FairSpec == Spec /\ WF_vars(Call \/ GetData) /\ WF_vars(Fill)

--------------------------------------------------------------------------------
(* Properties.                                                             *)

(* Every variable has a value of its type.                                 *)
TypeOK ==
  /\ pc \in PCs
  /\ fd \in BOOLEAN
  /\ nbuffers \in 0 .. MaxBufs
  /\ req_count \in 0 .. MaxBufs
  /\ mapped \subseteq Bufs
  /\ v4lbuf \in Bufs
  /\ v4lbuf_put \in BOOLEAN
  /\ held \in Bufs \cup {NONE}
  /\ ret \in {"none", "ok", "again", "timeout", "interrupted", "error"}
  /\ streaming \in BOOLEAN
  /\ buf \in [Bufs -> {"user", "queued", "filled"}]
  /\ used \in BOOLEAN

(* The image a caller reads is never in the device's queue meanwhile, and  *)
(* its buffer is mapped: nobody writes into it, and reading it is legal.   *)
HeldIsOurs ==
  held # NONE => buf[held] = "user" /\ held \in mapped

(* No buffer gets lost: while the stream runs, all of them are with the    *)
(* device, except the one v4lbuf stands for, and that one exactly when     *)
(* v4lbuf_put says it is to be put back.                                   *)
NoBufferLost ==
  streaming =>
    \A b \in Bufs : b < nbuffers =>
      (buf[b] = "user" <=> ~v4lbuf_put /\ b = v4lbuf)

(* capture_get_data gives a buffer back only after select has reported the *)
(* next image.  So the device must have another one to put that image in:  *)
(* at no time does the program sit in select with every buffer in its own  *)
(* hands.                                                                  *)
NeverStarved ==
  streaming => \E b \in Bufs : b < nbuffers /\ buf[b] # "user"

(* No mapping outlives a failed capture_open or capture_close.             *)
MappingsReleased ==
  pc \in {"failed", "closed"} => mapped = {}

(* What the place in the program says of the handle: once it is open it    *)
(* has two buffers at least; exactly its buffers are mapped and only they  *)
(* are ever queued; v4lbuf names one of them while it is to be put back;   *)
(* and the image handed out is the one in v4lbuf.                          *)
HandleConsistent ==
  /\ pc \in {"idle", "select", "put", "dequeue"} => nbuffers >= 2
  /\ pc \in {"new", "map", "failed"} => ~used
  /\ pc \in {"new", "map", "failed", "closed"} => ~streaming
  /\ pc # "closed" => mapped = Owned
  /\ pc \in {"new", "failed"} => nbuffers = 0
  /\ pc = "map" => req_count >= 2
  /\ streaming => used
  /\ ~used => v4lbuf_put /\ \A b \in Bufs : buf[b] = "user"
  /\ pc = "put" => ~v4lbuf_put
  /\ pc = "dequeue" => v4lbuf_put
  /\ pc \in {"select", "put", "dequeue"} => used
  /\ pc # "idle" => held = NONE
  /\ held # NONE => ~v4lbuf_put /\ v4lbuf = held
  /\ ~v4lbuf_put => v4lbuf \in Owned
  /\ \A b \in Bufs : buf[b] # "user" => b \in Owned

(* The inductive invariant; NeverStarved follows from it.                  *)
IInv == TypeOK /\ HandleConsistent /\ HeldIsOurs /\ NoBufferLost
        /\ MappingsReleased

(* A caller that keeps calling gets an image, or an error of the device or *)
(* of select: it does not time out for ever.                               *)
ImageArrives ==
  (pc = "select" /\ streaming) ~>
    (held # NONE \/ ret \in {"error", "interrupted"} \/ ~streaming)

(* v4l_capture.c: "put the v4l buffer to the queue if it's not".           *)
PutOnlyIfNotQueued ==
  pc = "put" => buf[v4lbuf] = "user"
================================================================================
