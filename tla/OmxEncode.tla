------------------------------ MODULE OmxEncode ------------------------------
(***************************************************************************)
(* The OMX encoder (src/omx_encode.c) and the buffers of a component's     *)
(* ports in third-party/ilclient/ilclient.c, built on the commands and     *)
(* events of module IlEvents.                                              *)
(*                                                                         *)
(* The component has two ports with one buffer each, as it is made; the    *)
(* encoder changes sizes only.  A buffer goes between the client's list    *)
(* and the component.  The output buffer's header, which the component     *)
(* writes when it has filled the buffer and encode_do reads at once after  *)
(* it has handed the buffer over, is one for both.                         *)
(***************************************************************************)
EXTENDS IlEvents, Sequences

CONSTANTS
  Idle, Executing,              (* the other states                        *)
  InOff, OutOff, InOn, OutOn,   (* the commands to the two ports           *)
  MaxWork,                      (* bound on what the component has encoded *)
                                (* and not yet delivered                   *)
  MaxGiven                      (* how often a component that has a buffer *)
                                (* accepts it again                        *)

ASSUME OmxCommandsAssumption ==
  /\ {Idle, Executing} \subseteq StateCommands
  /\ {InOff, OutOff} \subseteq DisableCommands
  /\ {InOn, OutOn} \subseteq EnableCommands

VARIABLES
  at,         (* the place in encode_open, encode_do or encode_close       *)
  in_at,      (* the input buffer: none, list, component, lost             *)
  out_there,  (* the output buffer is allocated                            *)
  out_list,   (* it is in out_list                                         *)
  out_given,  (* how often the component has it                            *)
  header,     (* its flags, whether it is filled, and with which piece     *)
  work,       (* the pieces the component has yet to deliver               *)
  done,       (* the event flags "empty" and "fill" (buffer done)          *)
  flag,       (* the local variable flag of encode_do                      *)
  copied,     (* the pieces encode_do has put together                     *)
  read        (* the data the header tells of have been read               *)

ports   == <<in_at, out_there, out_list, out_given>>
stream  == <<header, work, flag, copied, read>>
omx     == <<at, ports, stream, done>>
allvars == <<vars, omx>>

(* What the encoder makes of an image: SPS and PPS before an I picture     *)
(* (inline headers are on), a picture in one piece or in two.              *)
Frames == {<<"whole">>, <<"config", "whole">>, <<"part", "last">>}

FlagsOf(piece) == IF piece = "config" THEN {"config", "eof"}
                  ELSE IF piece = "part" THEN {} ELSE {"eof"}

Header(piece) == [flags |-> FlagsOf(piece), len |-> 1, piece |-> piece]
NoHeader      == [flags |-> {}, len |-> 0, piece |-> None]

OmxInit ==
  /\ Init
  /\ at = "start"
  /\ in_at = "none"
  /\ out_there = FALSE /\ out_list = FALSE /\ out_given = 0
  /\ header = NoHeader /\ work = <<>> /\ done = {}
  /\ flag = {} /\ copied = <<>> /\ read = FALSE

(* encode_close, and the ways out of encode_open.                          *)
Closing == at \in {"close_in", "close_out", "err_in", "err_out", "back_idle",
                   "to_loaded", "cleanup"}

--------------------------------------------------------------------------------
(* The component.                                                          *)

(* It enables a port when that has its buffer, and disables one that has   *)
(* none.  It may fail any command.                                         *)
Fit(c) ==
  /\ c = InOn   => in_at = "list"
  /\ c = OutOn  => out_there
  /\ c = InOff  => in_at = "none"
  /\ c = OutOff => ~out_there

AnswerDone ==
  /\ \E c \in outstanding : Fit(c) /\ AnswerWith(c, Done(c))
  /\ UNCHANGED omx

AnswerFailure ==
  /\ \E c \in outstanding, e \in Failures : AnswerWith(c, e)
  /\ UNCHANGED omx

(* Other events, at any time and again and again.                          *)
OtherEvent ==
  /\ at \notin {"start", "closed"}
  /\ Report
  /\ UNCHANGED omx

(* ilclient_empty_buffer_done: the image is taken.  It gives at least one  *)
(* piece, and the input buffer is returned before any of them.             *)
EmptyBufferDone ==
  /\ in_at = "component"
  /\ in_at' = "list" /\ done' = done \cup {"empty"}
  /\ \/ /\ ~Closing
        /\ \E f \in Frames : Len(work \o f) <= MaxWork /\ work' = work \o f
     \/ Closing /\ work' = work
  /\ UNCHANGED <<vars, at, out_there, out_list, out_given, header, flag, copied, read>>

(* ilclient_fill_buffer_done: with the next piece, or anyhow once the      *)
(* program is closing and does not look at it any more.                    *)
FillBufferDone ==
  /\ out_given > 0
  /\ out_given' = out_given - 1
  /\ out_list' = TRUE /\ done' = done \cup {"fill"}
  /\ \/ work # <<>> /\ header' = Header(Head(work)) /\ work' = Tail(work)
     \/ Closing /\ UNCHANGED <<header, work>>
  /\ read' = FALSE
  /\ UNCHANGED <<vars, at, in_at, out_there, flag, copied>>

Component == AnswerDone \/ AnswerFailure \/ OtherEvent \/ EmptyBufferDone \/ FillBufferDone

--------------------------------------------------------------------------------
(* encode_open and encode_close: one command after the other.              *)

(* Up to OMX_GetHandle, and the parameters of the ports.                   *)
Begin ==
  /\ at = "start" /\ at' \in {"create_in", "closed"}
  /\ UNCHANGED <<vars, ports, stream, done>>

SetParameters ==
  /\ at = "params" /\ at' \in {"to_idle", "cleanup"}
  /\ UNCHANGED <<vars, ports, stream, done>>

(* The command sent at each place.                                         *)
SendNext ==
  /\ \/ at = "create_in"    /\ Send("port", InOff)
     \/ at = "create_out"   /\ Send("port", OutOff)
     \/ at = "to_idle"      /\ Send("change", Idle)
     \/ at = "enable_in"    /\ Send("enable", InOn)
     \/ at = "enable_out"   /\ Send("enable", OutOn)
     \/ at = "to_executing" /\ Send("change", Executing)
     \/ at \in {"close_in", "err_in"}   /\ Send("buffers", InOff)
     \/ at \in {"close_out", "err_out"} /\ Send("buffers", OutOff)
     \/ at = "back_idle"    /\ Send("transition", Idle)
     \/ at = "to_loaded"    /\ Send("transition", Loaded)
  /\ UNCHANGED omx

AfterSuccess ==
  [create_in |-> "create_out", create_out |-> "params", to_idle |-> "enable_in",
   enable_in |-> "enable_out", enable_out |-> "to_executing", to_executing |-> "ready",
   close_in |-> "close_out", close_out |-> "back_idle",
   err_out |-> "err_in", err_in |-> "back_idle",
   back_idle |-> "to_loaded", to_loaded |-> "cleanup"]

AfterError ==
  [to_idle |-> "cleanup", enable_in |-> "back_idle", enable_out |-> "err_in",
   to_executing |-> "err_out"]

(* ilclient_enable_port_buffers finds the port or the component unfit, or  *)
(* the component does not say, and sends nothing.                          *)
SendNothing ==
  /\ pc = "idle" /\ at \in {"enable_in", "enable_out"}
  /\ at' = AfterError[at]
  /\ UNCHANGED <<vars, ports, stream, done>>

(* It supplies the buffer before it waits.                                 *)
Supply ==
  /\ Supplied
  /\ \/ /\ at = "enable_in" /\ in_at' = "list"
        /\ UNCHANGED <<out_there, out_list>>
     \/ /\ at = "enable_out" /\ out_there' = TRUE /\ out_list' = TRUE
        /\ UNCHANGED in_at
  /\ UNCHANGED <<at, out_given, stream, done>>

(* There is no memory for the buffer, the component refuses it, or the     *)
(* wait has failed: the same port is disabled.                             *)
GiveUp ==
  /\ FindDisabled \/ DisableAgain(IF at = "enable_in" THEN InOff ELSE OutOff)
  /\ UNCHANGED omx

(* Waiting, and the next place when it is over.                            *)
Await ==
  /\ at \in DOMAIN AfterSuccess
  /\ Complete \/ NotYet \/ Wake \/ RemoveError \/ TakeEvent \/ TakeNothing
  /\ at' = IF pc' # "idle" THEN at
           ELSE IF pc = "failed" THEN AfterError[at] ELSE AfterSuccess[at]
  /\ UNCHANGED <<ports, stream, done>>

(* ilclient_disable_port_buffers: a buffer in the list is freed.  A failed *)
(* command leaves it as it is.                                             *)
InPort == at \in {"close_in", "err_in", "enable_in"}

InTheList == IF InPort THEN in_at = "list" ELSE out_list

FreeBuffer ==
  /\ InTheList
  /\ GatherAll
  /\ \/ /\ InPort /\ in_at' = "none"
        /\ UNCHANGED <<out_there, out_list, out_given>>
     \/ /\ ~InPort /\ out_there' = FALSE /\ out_list' = FALSE /\ out_given' = 0
        /\ UNCHANGED in_at
  /\ UNCHANGED <<at, stream, done>>

BufferFlag == IF InPort THEN "empty" ELSE "fill"

(* It sleeps until the buffer is returned or an event comes, and takes the *)
(* flags of both.                                                          *)
SleepForBuffer == ~InTheList /\ GatherMore /\ UNCHANGED omx

(* Mistake: it does not wait for the buffer's flag.                        *)
WakeByEventOnly ==
  /\ WakeToLook
  /\ UNCHANGED omx

WakeWithBuffer ==
  /\ WakeToLook \/ (BufferFlag \in done /\ WakeToGather)
  /\ done' = done \ {BufferFlag}
  /\ UNCHANGED <<at, ports, stream>>

(* ilclient_cleanup_components and the end.                                *)
CleanUp ==
  /\ at = "cleanup"
  /\ \/ ReturnEvents /\ UNCHANGED at
     \/ FreeHandle /\ at' = "closed"
  /\ UNCHANGED <<ports, stream, done>>

(* The program calls encode_close.  What the component still has encoded,  *)
(* and the header, are of no interest from here on.                        *)
CallClose ==
  /\ at = "ready" /\ at' = "close_in"
  /\ header' = NoHeader /\ work' = <<>>
  /\ UNCHANGED <<vars, ports, flag, copied, read, done>>

--------------------------------------------------------------------------------
(* encode_do.                                                              *)

(* ilclient_get_input_buffer, which does not wait: without a buffer the    *)
(* image is dropped.  A buffer that OMX_EmptyThisBuffer refuses is in      *)
(* nobody's list any more.                                                 *)
TakeImage ==
  /\ at = "ready"
  /\ \/ in_at = "list"  /\ in_at' = "component" /\ at' = "get_out"
     \/ in_at = "list"  /\ in_at' = "lost" /\ at' = "ready"
     \/ in_at # "list"  /\ in_at' = in_at /\ at' = "get_out"
  /\ UNCHANGED <<vars, out_there, out_list, out_given, stream, done>>

(* OMX_FillThisBuffer is accepted.                                         *)
HandOver == out_given < MaxGiven /\ out_given' = out_given + 1

(* ilclient_get_output_buffer, which waits, and OMX_FillThisBuffer.        *)
GetOutput ==
  /\ at = "get_out"
  /\ \/ ~out_list /\ at' = "sleep_out" /\ UNCHANGED <<out_list, out_given>>
     \/ /\ out_list /\ out_list' = FALSE
        /\ \/ HandOver /\ at' = "read"
           \/ UNCHANGED out_given /\ at' = "ready"
  /\ UNCHANGED <<vars, in_at, out_there, stream, done>>

(* Mistake: it sleeps until another flag is set.                           *)
WakeByInput ==
  /\ at = "sleep_out" /\ at' = "get_out"
  /\ "empty" \in done /\ done' = done \ {"empty"}
  /\ UNCHANGED <<vars, ports, stream>>

WakeByOutput ==
  /\ at = "sleep_out" /\ at' = "get_out"
  /\ "fill" \in done /\ done' = done \ {"fill"}
  /\ UNCHANGED <<vars, ports, stream>>

(* The flags are read into a variable, at first and after each part.       *)
ReadFlags ==
  /\ at \in {"read", "reread_flags"}
  /\ flag' = header.flags
  /\ at' = IF at = "read" THEN "look" ELSE "decide"
  /\ UNCHANGED <<vars, ports, header, work, copied, read, done>>

EndOfFrame == "eof" \in flag /\ "config" \notin flag

(* Nothing was encoded, or there is something to take.                     *)
Look ==
  /\ at = "look"
  /\ at' = IF flag = {} /\ header.len = 0 THEN "end" ELSE "take"
  /\ UNCHANGED <<vars, ports, stream, done>>

(* What is in the buffer is added to what was copied before.               *)
TakeData ==
  /\ copied' = IF header.len = 0 THEN copied ELSE Append(copied, header.piece)
  /\ read' = (read \/ header.len = 1)
  /\ UNCHANGED <<vars, ports, header, work, flag, done>>

(* A whole frame is given as it is, other data begin a combination.        *)
TakeFirst ==
  /\ at = "take"
  /\ at' = IF EndOfFrame THEN "end" ELSE "refill"
  /\ TakeData

(* OMX_FillThisBuffer again, for the next piece.  If it fails, encode_do   *)
(* gives nothing.                                                          *)
Refill ==
  /\ at = "refill"
  /\ \/ HandOver /\ at' = "relook" /\ UNCHANGED read
     \/ UNCHANGED out_given /\ at' = "ready" /\ read' = FALSE
  /\ copied' = IF at' = "ready" THEN <<>> ELSE copied
  /\ UNCHANGED <<vars, in_at, out_there, out_list, header, work, flag, done>>

(* The header is looked at again, now without the variable.                *)
LookAgain ==
  /\ at = "relook"
  /\ at' = IF header.flags = {} /\ header.len = 0 THEN "end" ELSE "retake"
  /\ UNCHANGED <<vars, ports, stream, done>>

TakeNext ==
  /\ at = "retake" /\ at' = "reread_flags"
  /\ TakeData

Cleared(f) == [flags |-> f, len |-> 0, piece |-> None]

(* With the end of the frame the combination is whole; until then the      *)
(* header is cleared.                                                      *)
Decide ==
  /\ at = "decide"
  /\ \/ EndOfFrame /\ at' = "end" /\ UNCHANGED <<header, read>>
     \/ ~EndOfFrame /\ at' = "refill" /\ header' = Cleared({}) /\ read' = FALSE
  /\ UNCHANGED <<vars, ports, work, flag, copied, done>>

(* Mistake: the length stays.                                              *)
GiveUncleared ==
  /\ at = "end" /\ at' = "ready"
  /\ flag' = {} /\ copied' = <<>>
  /\ UNCHANGED <<vars, ports, header, work, read, done>>

(* What was copied is given; the length is cleared and the flags stay.     *)
Give ==
  /\ at = "end" /\ at' = "ready"
  /\ header' = Cleared(header.flags) /\ read' = FALSE
  /\ flag' = {} /\ copied' = <<>>
  /\ UNCHANGED <<vars, ports, work, done>>

--------------------------------------------------------------------------------

(* The program's thread, apart from its decision to call.                  *)
Running ==
  \/ Begin \/ SetParameters \/ SendNext \/ SendNothing \/ Supply \/ GiveUp \/ Await
  \/ FreeBuffer \/ SleepForBuffer \/ WakeWithBuffer \/ CleanUp
  \/ GetOutput \/ WakeByOutput \/ ReadFlags \/ Look \/ TakeFirst
  \/ Refill \/ LookAgain \/ TakeNext \/ Decide \/ Give

OmxNext == Component \/ Running \/ TakeImage \/ CallClose

OmxSpec == OmxInit /\ [][OmxNext]_allvars

(* The program runs; the component ends commands that it can end, and      *)
(* returns buffers, but need not report anything nor fail, nor ever end an *)
(* enable without buffer.                                                  *)
OmxFairness ==
  /\ WF_allvars(Running)
  /\ WF_allvars(AnswerDone) /\ WF_allvars(EmptyBufferDone) /\ WF_allvars(FillBufferDone)

OmxFairSpec == OmxSpec /\ OmxFairness

--------------------------------------------------------------------------------
(* Properties.                                                             *)

(* No data in the output buffer are given by two calls of encode_do, not   *)
(* even when the component fills the buffer and returns it while encode_do *)
(* is still at it.                                                         *)
NoFrameTwice == at \in {"read", "look", "take"} /\ header.len = 1 => ~read

(* A buffer that an OMX call refused is lost: neither in the client's list *)
(* nor with the component.                                                 *)
BufferLost == in_at = "lost" \/ (out_there /\ ~out_list /\ out_given = 0)

(* Every wait for a command ends while no buffer is lost, also the one for *)
(* the disable after an enable that is never ended.                        *)
EveryWaitEnds == Waiting ~> ~Waiting \/ BufferLost

(* While no buffer is lost, encode_do does not freeze: each call returns.  *)
InEncodeDo ==
  at \in {"get_out", "sleep_out", "read", "look", "take", "refill", "relook",
          "retake", "reread_flags", "decide", "end"}

EncodeDoReturns == InEncodeDo ~> ~InEncodeDo \/ BufferLost

(* encode_close and the ways out of encode_open come to their end, with    *)
(* the component's buffers wherever they are and an answer that nobody     *)
(* waited for in the list, unless a buffer was lost or an assertion ends   *)
(* the program.                                                            *)
CloseEnds == Closing ~> at = "closed" \/ BufferLost \/ pc = "asserted"

(* "SPS/PPS will be combined with I-frame, part frame will be combined to  *)
(* whole": what a call gives is one frame, each of its pieces once.        *)
WholeFrames == at = "end" => copied = <<>> \/ copied \in Frames

================================================================================
