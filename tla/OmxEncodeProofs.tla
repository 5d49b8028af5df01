-------------------------- MODULE OmxEncodeProofs --------------------------
(***************************************************************************)
(* Proofs about the OMX encoder (module OmxEncode), for any commands,      *)
(* events and bounds.                                                      *)
(***************************************************************************)
EXTENDS OmxEncode, IlEventsProofs

(* Data that were read are cleared before the header is read as that of    *)
(* new data, or encode_do has them still in hand.                          *)
ReadCleared ==
  read => \/ header.len = 0
          \/ at \in {"refill", "relook", "retake", "reread_flags", "decide", "end"}

--------------------------------------------------------------------------------

(* A command of the encoder is one that IlEvents allows.                   *)
LEMMA SendNextSends == SendNext => SendCommand
<1>1. /\ {InOff, OutOff} \subseteq DisableCommands
      /\ {InOn, OutOn} \subseteq EnableCommands
      /\ {Idle, Executing, Loaded} \subseteq StateCommands
  BY OmxCommandsAssumption, CommandsAssumption
<1>2. QED
  BY <1>1 DEF SendNext, SendCommand

(* So is what the component does.                                          *)
LEMMA ComponentAnswers == Component => Answer \/ Report \/ UNCHANGED vars
<1>1. CASE AnswerDone
  BY <1>1 DEF AnswerDone, Answer, AnswerTo
<1>2. CASE AnswerFailure
  BY <1>2 DEF AnswerFailure, Answer, AnswerTo
<1>3. CASE OtherEvent
  BY <1>3 DEF OtherEvent
<1>4. CASE EmptyBufferDone \/ FillBufferDone
  BY <1>4 DEF EmptyBufferDone, FillBufferDone
<1>5. QED
  BY <1>1, <1>2, <1>3, <1>4 DEF Component

(* And so is every step of the program, or it touches no event.            *)
LEMMA RunningIsAProgram == Running => Program \/ UNCHANGED vars
<1>1. CASE SendNext
  BY <1>1, SendNextSends DEF Program
<1>2. CASE Supply \/ Await
  BY <1>2 DEF Supply, Await, Program, Gather
<1>3. CASE GiveUp
  <2>1. {InOff, OutOff} \subseteq DisableCommands
    BY OmxCommandsAssumption
  <2>2. QED
    BY <1>3, <2>1 DEF GiveUp, Undo, Program
<1>4. CASE FreeBuffer \/ SleepForBuffer \/ WakeWithBuffer
  BY <1>4 DEF FreeBuffer, SleepForBuffer, WakeWithBuffer, Program, Gather
<1>5. CASE CleanUp
  BY <1>5 DEF CleanUp, Program
<1>6. CASE Begin \/ SetParameters \/ SendNothing \/ GetOutput \/ WakeByOutput
           \/ ReadFlags \/ Look \/ TakeFirst \/ Refill \/ LookAgain \/ TakeNext
           \/ Decide \/ Give
  BY <1>6 DEF Begin, SetParameters, SendNothing, GetOutput, WakeByOutput, ReadFlags,
              Look, TakeFirst, TakeData, Refill, LookAgain, TakeNext, Decide, Give
<1>7. QED
  BY <1>1, <1>2, <1>3, <1>4, <1>5, <1>6 DEF Running

(* What the encoder and its component do with events are steps of          *)
(* IlEvents, so that what is proved there of any program holds here.       *)
LEMMA EncoderIsAProgram == OmxSpec => Spec
<1>1. OmxInit => Init
  BY DEF OmxInit
<1>2. [OmxNext]_allvars => [Next]_vars
  <2>1. CASE Component
    BY <2>1, ComponentAnswers DEF Next
  <2>2. CASE Running
    BY <2>2, RunningIsAProgram DEF Next
  <2>3. CASE TakeImage \/ CallClose
    BY <2>3 DEF TakeImage, CallClose
  <2>4. CASE UNCHANGED allvars
    BY <2>4 DEF allvars
  <2>5. QED
    BY <2>1, <2>2, <2>3, <2>4 DEF OmxNext
<1>3. QED
  BY <1>1, <1>2, PTL DEF OmxSpec, Spec

(* Each wait of the encoder is woken for its answer, and finds its own     *)
(* unless an enable was given up before.                                   *)
THEOREM EncoderFindsItsAnswers == OmxSpec => [](OneAnswer /\ NoLostWakeup)
BY EncoderIsAProgram, AnswersOnceInList, WakeupsAreKept, PTL

(* And no event structure is lost between the handler and the encoder, so  *)
(* that the handler never comes to an empty spare list.                    *)
THEOREM EncoderKeepsStructures == OmxSpec => [](StructuresKept /\ SpareLeft)
BY EncoderIsAProgram, StructuresAreKept, SpareIsLeft, PTL

--------------------------------------------------------------------------------

(* No data are given by two calls of encode_do, wherever the component's   *)
(* return of the buffer comes between the steps of a call.                 *)
THEOREM NoDataTwice == OmxSpec => []NoFrameTwice
<1>1. OmxInit => ReadCleared
  BY DEF OmxInit, ReadCleared
<1>2. ReadCleared /\ [OmxNext]_allvars => ReadCleared'
  <2> SUFFICES ASSUME ReadCleared, [OmxNext]_allvars
               PROVE  ReadCleared'
    OBVIOUS
  <2>1. CASE UNCHANGED allvars
    BY <2>1 DEF ReadCleared, allvars, omx, stream
  <2>2. CASE AnswerDone \/ AnswerFailure \/ OtherEvent \/ EmptyBufferDone
    BY <2>2 DEF AnswerDone, AnswerFailure, OtherEvent, EmptyBufferDone,
                ReadCleared, omx, stream
  <2>3. CASE FillBufferDone
    BY <2>3 DEF FillBufferDone, ReadCleared
  <2>4. CASE SendNext \/ GiveUp \/ FreeBuffer \/ SleepForBuffer \/ WakeWithBuffer \/ Supply
    BY <2>4 DEF SendNext, GiveUp, FreeBuffer, SleepForBuffer, WakeWithBuffer, Supply,
                ReadCleared, omx, stream
  <2>5. CASE \/ Begin \/ SetParameters \/ SendNothing \/ CleanUp \/ Await
             \/ TakeImage \/ GetOutput \/ WakeByOutput \/ ReadFlags \/ Look
    <3>1. /\ UNCHANGED <<header, read>>
          /\ \/ at \notin {"refill", "relook", "retake", "reread_flags", "decide", "end"}
             \/ at = "reread_flags" /\ at' = "decide"
      BY <2>5 DEF Begin, SetParameters, SendNothing, CleanUp, Await, AfterSuccess,
                  TakeImage, GetOutput, WakeByOutput, ReadFlags, Look, stream
    <3>2. QED
      BY <3>1 DEF ReadCleared
  <2>6. CASE CallClose
    BY <2>6 DEF CallClose, NoHeader, ReadCleared
  <2>7. CASE TakeFirst \/ Refill \/ LookAgain \/ TakeNext \/ Decide \/ Give
    BY <2>7 DEF TakeFirst, TakeData, Refill, LookAgain, TakeNext, Decide, Give,
                Cleared, ReadCleared, stream
  <2>8. QED
    BY <2>1, <2>2, <2>3, <2>4, <2>5, <2>6, <2>7 DEF OmxNext, Component, Running
<1>3. ReadCleared => NoFrameTwice
  BY DEF ReadCleared, NoFrameTwice
<1>4. QED
  BY <1>1, <1>2, <1>3, PTL DEF OmxSpec

================================================================================
