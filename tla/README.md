# Camkit in TLA+

Camkit is a C library, and two programs on top of it, that take images from a
camera, convert and encode them to H.264, cut the stream into RTP packets and
send these. This directory holds TLA+ models of its core, TLC
configurations that check them on small instances, and TLAPS proofs for every
value of the constants. Paths below are relative to the repository (`src/`
there is the C code, `include/camkit/` its interface).

Run a model with `tlc -config X.cfg M`, a proof with `tlapm M.tla`. No run
takes more than about three minutes.

## 1. Inventory

Each stage is a handle with `open`, some operations and `close`. Nothing in
the library is protected by locks; it is meant to be used by one thread per
handle. What runs concurrently is the hardware behind it: the V4L2 driver fills
buffers, the VPU encodes, and OpenMAX components call back from their threads.

| Component | State | Operations | Hard behaviours | What makes it correct |
|---|---|---|---|---|
| capture, `v4l_capture.c` | mmap'ed buffers, `v4lbuf` and the flag `v4lbuf_put` | `capture_open/close/start/stop/get_data`, picture controls | the driver fills buffers between any two steps; open and start fail half way; `EAGAIN`, timeouts, signals | a buffer is read only while the driver does not have it; none is lost; the driver always has one to fill |
| VPU encoder, `vpu_encode.c` | `gop_offset_counter`, `enc_param.forceIPicture`, static `next_stage`/`stage_end`, frame buffer pool | `encode_open/close`, `encode_get_headers`, `encode_do`, `encode_force_Ipic`, setters | two counters (handle, device) that must agree; static state shared by handles; failed or skipped pictures | every intra picture behind SPS and PPS; header loops end |
| FFmpeg encoder, `ffmpeg_encode.c` | `frame_counter`, codec context, the last packet | the same interface | a packet lives until the next call; five acquisitions at opening | the packet is not freed while it is read; nothing left half open |
| OMX encoder, `omx_encode.c` | combination buffer, component, `ilclient` lists | the same interface | output buffer handed over and read at once; unbounded appending; a buffer that a call refuses is lost | no data given twice, frames whole; every call comes back |
| RTP packer, `rtp_pack.c` | the caller's buffer, scan pointer, fragment index/counter/size, `seq_num`, timestamp | `pack_open/put/get/close` | a NALU is cut over many calls; exact division; wrapping numbers; scan looks past the end | the packets of a NALU are a gapless chain closed by the marker; no overrun |
| network, `network.c` | a socket | `net_open/send/recv/close` | partial send on TCP | packets arrive whole |
| converters, `ipu_convert.c`, `soft_convert.c`, `ffmpeg_convert.c` | device descriptor and two mappings / a buffer | `convert_open/do/close` | partly failed open | everything acquired is released once |
| timestamp, `timestamp.c` | font parameters | `timestamp_open/draw/close` | unsigned wrap of the start column | draws inside the image |
| `ilclient.c`, `ilcore.c` (third-party) | event list, free list, buffer lists of a component | state changes, ports with buffers, buffer get | callbacks concurrent with waiters; 100 event slots; a port closes only with all its buffers | the answer to a command is taken once and by its wait; no slot lost; no wait for ever |
| `cktool.c` | the handles, `stage`, `quit` | `main` and the SIGINT handler | buffers passed from stage to stage without copies; errors in the middle of the loop | no stage's buffer is overwritten before the next is done; all closed at the end |
| `simple_demo.c` | as `cktool`, all stages | `main` | the same loop, no signal | the same |

`main` calls the stages in turn: `capture_get_data` gives a pointer into a
driver buffer; `convert_do` converts it to a buffer of its own, or (YUV420)
is skipped; `encode_get_headers` and `encode_do` give pointers into the
encoder's one bitstream buffer; `pack_put` keeps that pointer and `pack_get`
gives one packet at a time in the packer's `outbuf`; `net_send` sends it.

## 2. Modules

| Module | Models | Kind |
|---|---|---|
| `NaluStream` | what a receiver of the packets may rely on | abstract specification |
| `RtpPack` | `rtp_pack.c` | component; refines `NaluStream` |
| `AnnexB` | `get_next_nalu` byte by byte | component |
| `V4lCapture` | `v4l_capture.c` and the device | component |
| `VpuOpen` | `encode_open` and `encode_close` of `vpu_encode.c`, with the frame buffer pool | component |
| `VpuEncode` | `vpu_encode.c` after opening, and the VPU's picture types | component |
| `IlEvents` | commands and events of a component in `ilclient.c` | component |
| `OmxEncode` | `omx_encode.c`, the port buffers of `ilclient.c` and the OpenMAX component | composition with `IlEvents` (EXTENDS) |
| `Stages` | open and close of the converters, the FFmpeg encoder, the network, the timestamp | component |
| `Cktool` | `main` of `cktool.c` and of `simple_demo.c` | composition of `V4lCapture`, `VpuEncode`, `RtpPack`, `Stages` (INSTANCE) |
| `MCRtpPack`, `MCVpuOpen`, `MCCktool`, `MCOmxEncode` | values of constants for TLC | |
| `RtpPackProofs`, `AnnexBProofs`, `V4lCaptureProofs`, `VpuOpenProofs`, `VpuEncodeProofs`, `IlEventsProofs`, `OmxEncodeProofs`, `CktoolProofs` | the proofs | |

Operators whose comment begins with "Mistake" are not part of a specification:
each is the definition after it with a plausible bug, and shows that the
property checked notices the bug.

**RtpPack.** One variable per field of `struct pac_handle`; one action per way
through `pack_get`: `GetSingle`, `GetFirstFU`, `GetMiddleFU`, `GetLastFU`,
`GetNothing` (return 0) and `Abort` (the size check). A buffer is the sequence
of its NALU lengths, a packet its header fields and the range of NALU bytes it
copies. `CastU32` gives the outcomes of the cast of a double that is out of
range. The layout of the header for a given `sizeof(unsigned long)` is in
`Bytes4to7` and `Bytes8to11`. `pack_get` before the first `pack_put` is not
modelled: no program does that, and the code would copy -1 bytes.

**AnnexB.** Buffers are made of NALUs an encoder may write (no start code
inside, last byte not 0, which H.264 guarantees) behind start codes of 3 or
4 bytes, or of arbitrary bytes; four arbitrary bytes stand behind the buffer.
Byte values are 0, 1 and "other". The scan loop is the least position that
satisfies its exit conditions.

**V4lCapture.** `buf` is the driver's queue: each buffer is with the program
("user"), queued or filled. `capture_get_data` is three steps (`select`, QBUF,
DQBUF), and `Fill` may come between any two; each ioctl may fail, also the
STREAMOFF of `capture_stop`, which nobody looks at: the stream then runs on until
the device is closed. `held` is the buffer the caller may be reading.

**VpuOpen.** One step per call of `encode_open` that may fail, and one per
frame buffer that is freed. `owned` holds what was acquired and not released;
`phys` and `virt` the descriptors whose memory is allocated and mapped. A mapping
that fails is noticed or not (`VirtUnnoticed`, `FramebufAlloc`), as the code
compares an unsigned address with `<= 0`. The
descriptors of frame buffers come from a pool in the handle, `myfbarray`, a
ring with one index: `get_framebuf` takes at the index and moves on,
`put_framebuf` steps back and writes. Whether the VPU asks for less, as much,
or more than the pool has is chosen (`MinFbCounts`). The ways out of
`encode_open` that leave things behind do so in the model too (the handle and
the VPU before `err1`, the bitstream buffer at `err1` and `err2`, the frame buffers
when `prepare_encode` refuses the sizes). `VpuEncode` takes opening as one step.

**VpuEncode.** Per handle the program's counter (`gop_offset_counter`) and the
device's (`hwpos`), which the code never compares. `pic` records, with the
picture last encoded, the headers fetched before it. Where the device's
behaviour is not known (after an error, a skipped picture, a change of the
group length inside a group, or with a group of 0 pictures, which the code passes
on) the model chooses, and `astray` notes that the two
may differ. `OneAtATime` says whether a header loop runs to its end before
another handle's begins, which one thread guarantees and two do not.

**IlEvents.** The component's thread and the program share, for one component,
its event list and the client's spare event structures, both under one lock,
and the event flags, which are not. A step holds the lock from its first access
to its last; a scan and the sleep after it are two steps, and events may come
between them. The list is a bag: `list` says how often each event is in it,
as no property depends on the order, and the removal of duplicates makes each
count 1. An event that ends a command is `Done(c)` or one of `Failures`, which
do not say which command failed; other errors and notices come at any time.
A scan takes any of several events that end a command; normally there is one
(`OneAnswer`). The program is a caller of `ilclient_change_component_state`,
`ilclient_state_transition`, `ilclient_disable_port`, and of
`ilclient_enable_port_buffers` and `ilclient_disable_port_buffers` (`Send` with
the caller's name), which then waits (`NotYet`, `Wake`, `Complete`), and, in the
end, of `ilclient_cleanup_components`. `outstanding` holds the commands the
component has not ended. There is one at a time but in one case:
`ilclient_enable_port_buffers` that cannot supply its buffers, or whose wait
fails, calls `ilclient_disable_port_buffers` (`Undo`). That finds the port disabled
(`FindDisabled`), or sends a second command (`DisableAgain`) and waits for
it; the answer to the enable may come at any later time and nobody waits for it.
`abandoned` remembers this for the properties; no step looks at it.
`ilclient_disable_port_buffers` first gathers the port's buffers and may sleep for
one until an event comes (`GatherMore`, `WakeToLook`, `TakeEvent`); here it has
them or misses one at any moment, and `OmxEncode` says which.
`ilclient_state_transition` is modelled for a list of one component, which is what
`omx_encode.c` gives it. A command that fails where the code asserts that it does
not ends the program (`asserted`) or, built without assertions, is ignored.

**OmxEncode.** `at` is the place in `encode_open`, `encode_do` or
`encode_close`; `AfterSuccess` and `AfterError` are their order and the labels of
`encode_open`. Each of the two ports has one buffer. `in_at` says where the
input buffer is; the output buffer may be in the client's list and with the
component at the same time, as `encode_do` hands it over again without taking it
from the list, so `out_list` is one variable and `out_given`, how often the
component has it, another. `header` is the
buffer's header, which both sides write: each place of `encode_do` that reads it
is a step of its own, and `flag` is the local variable that keeps the flags between
two of them. The component turns an image into
pieces (`Frames`: a picture whole, behind its parameter sets, or in two parts)
and delivers them from `work`. It may fail any command, and
`ilclient_enable_port_buffers` may find no memory, or have its buffer refused, and
give up (`GiveUp`). Assumed of the component: it returns the input buffer before
the picture's pieces, an image gives at least one piece, it ends an enable when
it has the buffer and a disable when it has given it back, a failed enable leaves
the port disabled, and it answers the OMX_GetParameter of
`ilclient_disable_port_buffers`. `BufferLost` is the state
after `OMX_EmptyThisBuffer` or `OMX_FillThisBuffer` refused a buffer, which the
code then leaves in no list.

**Stages.** `Steps` says what each stage acquires in which order, `Labels` and
`Goto` which of it a failing acquisition releases; the IPU's converter has one
label that looks at what is there. A mapping of the IPU that fails goes
unnoticed (`Overlook`), as the code compares with NULL or looks at another
result.

**Cktool.** One program counter value per call of `main`. A step of `main` is
the step of the component it calls, together with what `main` does with the
result. A call the component does not allow has no step, so the deadlock check,
which is on, shows the components are used as they demand. `wire` is what left
the program since the last image. `platform` is the one the library is built for
(`src/CMakeLists.txt`) and chooses converter and encoder: IPU and VPU, FFmpeg for
both, or the software converter; with the last only runs without encoder are
here, as the OMX encoder has a model of its own. `program` is `cktool` with any
stages or `simple_demo`, which has them all and no SIGINT handler. `ConvertKills`
is where the program dies between capture and encoder: an unexpected image size,
an unnoticed failed mapping, a timestamp handle that is NULL. An image of length 0
is dropped after capture or after conversion, as `main` does.

## 3. Runs

| Run | Expect | Question |
|---|---|---|
| `rtp_pack` | pass | Is every NALU cut into a gapless chain of packets that ends with the marker, inside all buffers, whatever is put when? Does it implement `NaluStream`? |
| `rtp_lp64` | violation | Is the ssrc in bytes 8-11 where `unsigned long` has 8 bytes? |
| `annexb` | pass | Does the scan cut a buffer where it was put together? |
| `v4l_capture` | pass | Is a buffer ever shared, lost, or unavailable to the device? Does an image arrive? |
| `v4l_restart` | violation | Is `v4lbuf_put` right after stop and start? |
| `vpu_open` | pass | Is a frame buffer descriptor ever in two places, or its memory lost? Has an opened encoder all its frames? What is left after closing or failing? |
| `vpu_encode` | pass | Do headers come complete, in order, and exactly before intra pictures? Do header loops end? |
| `vpu_threads` | violation | The same for overlapping header loops of two handles |
| `vpu_force` | violation | Is the next encoded frame an I-frame after `encode_force_Ipic`? |
| `omx_encode` | pass | With events and failures, and buffers refused or returned, at any time: is an event structure lost, or none left? Is the answer to a command in the list once, and taken by its own wait? Is a program whose command was ended woken, also after an enable was given up? Are data given twice? Do `encode_do`, `encode_close` and all waits end? |
| `omx_frames` | violation | Is what `encode_do` gives one frame with each of its parts once? |
| `cktool` | pass | In both programs on every platform: buffers untouched while in use, stream decodable, no stage half open, all closed, SIGINT ends it |

**Bounds.** `rtp_pack`: NALUs up to 7 bytes with packets of 1 to 3 bytes give
exact and inexact division, a last fragment without payload, and up to seven
fragments; a packet length of 4 overruns the output buffer of 17; two NALUs per
buffer and any number of puts; sequence numbers wrap at 3, timestamps at 256,
and a clock reading is in or out of range. `annexb`: two NALUs of three bytes,
or five arbitrary bytes, longer than any start code. `v4l_capture`: up to the
four buffers the code asks for. `vpu_open`: a pool of
8 instead of 32, and 3, 6, 8 and 9 frames, so that the index wraps, the pool is
used up exactly, and it runs out. `vpu_encode`: two handles, the least that can
share the static stages, groups of 0, 1 and 2 pictures; a third header in a loop is
one too many and no more are noted (`MaxHeaders`). `omx_encode` and `omx_frames`:
the three states and two ports of the encoder; of reports only that a port is
unpopulated, which is the one that may be ignored, any number of times; that makes
ten different events, and eleven structures are the least that suffice for them
(the code has 100 for all components); at most two pieces not delivered
(`MaxWork`), so that a frame is under way behind another, and the output buffer
handed over at most twice before it is returned (`MaxGiven`). TLC thus checks
the properties of `IlEvents` with the encoder as the program; that they hold of any
program, with any commands, other errors and notices, is proved (`IlEventsProofs`). `MaxWork` also
says that an image is not taken before its pieces have room, as in a component
with bounded memory. `cktool`: two buffers (the least
the code accepts), groups of 0, 1 and 2, pictures of one packet and of two; every
subset of the stage bits. The proofs lift the bounds of all
components (`Stages` has none). The largest runs are `cktool`
(about 650,000 states), `vpu_encode` and `omx_encode` (about 400,000 each).

**Fairness.** `rtp_pack` assumes that the caller's loop goes on calling
`pack_get`; `v4l_capture` that the program calls `capture_get_data` again and
finishes calls, and that a streaming camera fills a queued buffer in the end
(this is what a camera does; `ImageArrives` is about what the program does with
its buffers); `vpu_encode` that a loop of `encode_get_headers` goes on;
`omx_encode` that the component ends every command it was sent, once it can, and
returns every buffer it has, as OpenMAX demands, and that the program's thread runs
(`Running`): the component need not fail a command nor report anything, it need
never end an enable that has no buffer, and nobody
need call `encode_do` or `encode_close`;
`cktool` only that `main` goes on. No fairness is assumed of the device or the
user in `cktool`: every call of `main` has a step that can be taken without
them (`select` may time out).

## 4. What the runs that end in a violation show

- `rtp_lp64`: `rtp_header` uses `unsigned long` for `timestamp` and `ssrc`.
  The default platform (PC, x86-64) has 8 bytes there, so the fields do not lie
  in "bytes 4-7" and "bytes 8-11" as the comments say; bytes 8-11 carry the
  timestamp, and the ssrc is overwritten by the payload.
- `v4l_restart`: after `capture_stop` and `capture_start` the flag
  `v4lbuf_put` is still 0 while the buffer is queued, so the next call queues it
  again, against its comment, and returns an error. Both programs start only
  once; `MayRestart` is FALSE in the other runs and the theorems.
- `vpu_threads`: the header stages are static variables. Overlapping loops of
  two encoders split SPS and PPS between them.
- `vpu_force`: the request for an intra picture is reset before it is known
  whether the picture was encoded.
- `omx_frames`: `encode_do` reads the header and the data of the output buffer
  right after `OMX_FillThisBuffer`, which only hands the buffer over. When the
  component fills it between the read of the flags and that of the length, a whole
  frame is taken for a part and copied into the combination buffer. The buffer is
  then handed over again with its header as it was, and while the component has
  not filled it, the next round finds the same frame there and copies it a second
  time: what `encode_do` gives is the frame combined with itself.

## 5. Proofs

All for every value of the constants that the named ASSUMEs allow.

- **RtpPackProofs.** The inductive invariant `IInv` is the conjunction of the
  safety invariants. None of them is inductive alone: that a copy stays inside
  the NALU (`CopiesInBounds`) needs the fragment arithmetic
  (`FU_counter * max_pkt_len + last_FU_size = nalu.len`, with the index in
  range), and that in turn needs what is known of `inbuf`, the pointer and the
  NALU in hand while it is cut (`FragmentsAddUp`). The lemmas on `\div` and `%`
  come first. `PackerInvariant` gives `PackerSafety`; `PackerChains` proves the
  action property `FragmentsChain` from `IInv`, which knows of the last packet
  through `PacketBehindNext`; `PackerImplementsStream` proves, one action at a
  time, that each step is a step or a stutter of `NaluStream`.
- **AnnexBProofs.** The buffer is as long as one likes, so this is an induction
  over data, done as an argument about the least (or last) counterexample:
  `LeastNatural`, from the well-foundedness of `<` on the naturals, gives it.
  `Flattening` shows that the recursive function inside `FlattenSeq` exists,
  `FlattenedIsLaid` that each NALU then has its place in the buffer.
  `ScanCutsNalu` is the heart: no place inside a NALU, and none that overlaps its
  end, is a start code, as the NALU holds none and its last byte is not zero. The
  inductive invariant `CutInv` says where each NALU is (`Placed`) and that the
  scan stands at the first one not yet found (`Cut`); `CutsAsWritten` follows.
  `NaluHasHeader` and `NaluInsideBuffer` are about buffers with any bytes and
  need only the types and `RoomBehindCode`: in a buffer that ends clean a start
  code found inside it leaves a byte behind it.

- **V4lCaptureProofs** (assuming `~MayRestart`). `HandleConsistent` ties the
  place in the program to the handle and makes `HeldIsOurs`, `NoBufferLost` and
  `MappingsReleased` inductive. `NeverStarved` is not part of `IInv`: it
  follows, as at most the buffer in `v4lbuf` is with the program and there are
  two at least. `ImageIsHeld`, `BuffersAreKept` and `MappingsAreReleased` name the
  parts.
- **VpuOpenProofs.** `InOnePlace` is not inductive: `put_framebuf` does not
  look at the slot it writes. `RoomToPut` adds why that is right: as many slots
  before the index as descriptors are in use are empty, through failed
  allocations (which lose a descriptor but leave their slot empty) and a pool
  that has run out; `DescriptorsKept` follows with it. `SlotsShift` is the arithmetic of the ring; `HeldAt` says
  what is held at each place, from which `OpenHasAllFrames` and `NothingLeft`
  follow.
- **VpuEncodeProofs** (assuming `OneAtATime`). `StagesInStep` is the heart: the
  static stages are determined by the one loop under way. With `GopInStep` (the
  two counters) and `HeadersReady` (what a finished loop left behind) it makes
  `HeadersInOrder` and `HeadersBeforeIntra` inductive.

- **IlEventsProofs.** Two invariants. `WInv`, the types with `EndNoticed`, is
  about the wait under way, whatever was given up before: when the command was
  ended, some event in the list ends the wait, and while the program sleeps or
  gathers buffers that event's flag is still set, or the program is about to
  look at it. The flag is set in the step that puts the event into the list
  (`AnswerFlags`), the handler takes nothing else away (`HandlerAdds`), and
  the program consumes flags only on its way to a scan. `NoLostWakeup` follows from
  `WInv` alone and so holds with abandoned commands too. `AInv` adds what
  `OneAnswer` needs: that a report is no answer (`AnswersAreNoReports`), that whoever
  takes an answer leaves none (`TakingAnAnswer`), and what an enable that is undone
  leaves behind (`UndoneByEnable`, `NothingElseLeft`).
  `StructuresKept` is a sum over the list. Each structure of the list is a pair of
  its event and a number, so that the sum is the cardinality of a set, and each
  step adds one pair or takes one (`OneMore`, `OneLess`), or drops the duplicates.
  `SpareLeft` follows: in a list without duplicates each event is at most once
  (`CleanedIsShort`), and `NumEventsAssumption` says there are more structures.

- **OmxEncodeProofs.** The encoder is built from the steps of `IlEvents`, so that
  the lemma `EncoderIsAProgram` is no claim of its own; it is the way by which
  the invariants proved there of any program hold of the encoder
  (`EncoderFindsItsAnswers`, `EncoderKeepsStructures`), for any number of structures,
  states and pieces. `NoDataTwice` has the invariant that data which were read are either
  those being combined or have their length cleared before the next call.

- **CktoolProofs.** What is proved of the components is carried over to the
  programs: `DrivesCapture` and `EncoderAtWork` show that each of main's steps is
  one of `V4lCapture` or `VpuEncode` or leaves it alone, so that their inductive
  invariants hold here (`CaptureStaysSafe`, `EncoderStaysSafe`), and what remains
  is about the places in main. `ImageStays` then only needs that a caller at these
  places holds a buffer (`ImageAtHand`), which capture_get_data gives when it
  returns 0. `NoOverwrite` follows from `PacketsAllGot`. `AllClosed` is the
  conjunction of four invariants that say what is still open by the place in
  main; `OwnAccounted` says it of every single thing the stages acquired.
  `NoneHalfOpen` needs to know how far the stage being opened has come:
  `OpenedInTurn` says that a stage main has not come to has nothing, the one
  whose turn it is exactly the first `got` pieces (`Partly`), and every other all
  or nothing. `WaysOut` is the fact about the code's labels: what a failure at any
  step releases covers what was got and nothing of another stage. For
  `StreamDecodable`, `HeadersOnWire` follows a header from encode_get_headers
  through the packer: what was sent is what was fetched, but for the header in the
  packer's hands; with the encoder's `HeadersBeforeIntra` that is the property.
  The packer is the instance of `Cktool`, with packets of two bytes; how longer
  NALUs are cut is proved in `RtpPackProofs`.

Every safety invariant and every action property that a passing run checks is
proved. Only model-checked: liveness (`NaluEventuallyCloses`, `ImageArrives`,
`HeaderLoopEnds`, `EveryWaitEnds`, `EncodeDoReturns`, `CloseEnds`,
`InterruptEnds`), which TLAPS does not reach, and that no call deadlocks. The parts
of the inductive invariants that are means only (`PacketBehindNext`,
`HandleConsistent`, `StagesInStep`, `Placed`, `OpenedInTurn`, and the types of
capture, encoder and scan) are proved and have no run of their own.

## 6. Not modelled

- Format negotiation and picture controls of the camera, the setters of the
  encoders, option parsing, statistics and file output, pixel conversion,
  drawing and the fonts: no state that another operation depends on.
- `ilcore.c`, which loads the OpenMAX library and forwards to it; of `ilclient.c`
  tunnels, `ilclient_wait_for_event`, waits on two components, and ports with
  several buffers: the encoder uses none of them.
- That a command fails late, after the enable it was for had been given up, is in the
  model, and so is that a later wait takes the failure for its own; but no property
  says what the program makes of that, apart from `CloseEnds`: it closes or asserts.
- `capture_start` after a `capture_stop` whose STREAMOFF failed (`MayStart` wants
  the stream to have ended).
- What the OMX encoder's caller reads from the buffer it was given while the
  component may write to it, and the length of the combination buffer: sizes and
  lifetimes belong to the component. Therefore `OmxEncode` is not part of `Cktool`.
- Short sends on TCP and `net_recv`: the programs report the first and go on, and
  nothing calls the second.
- `encode_do` with a height that is not a multiple of 16, or with an image that is
  too short, ends the program; this is
  in `VpuEncode` (`FillAborts`) and has no property of its own.
- The page copies that `timestamp_draw` makes in the IPU's MAP_PRIVATE output
  mapping: which of two copies of a page is seen is the kernel's.
- The bit fields of the RTP and FU headers are not told apart.

## 7. What could come next

1. Ports with several buffers in `OmxEncode`.
2. A proof that the scan of `AnnexB` gives `RtpPack` the NALUs it takes as given:
   the two are separate models of one function now, on bytes and on lengths.
