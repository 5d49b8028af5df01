--------------------------- MODULE IlEventsProofs ---------------------------
(***************************************************************************)
(* Proofs about the events of a component (module IlEvents), for any set   *)
(* of commands and of other events.                                        *)
(***************************************************************************)
EXTENDS IlEvents, FiniteSetTheorems, TLAPS

(* The types of the variables that waiting for an answer depends on.       *)
Flags == {"state", "disabled", "enabled", "error"}

WaitTypes ==
  /\ list \in [Events -> Nat]
  /\ flags \subseteq Flags
  /\ pc \in {"idle", "supply", "scan", "sleep", "gather", "await", "look", "undo",
            "failed", "asserted", "cleaning", "closed"}
  /\ set \subseteq Flags
  /\ pc # "look" => set = {}
  /\ outstanding \subseteq Commands
  /\ Waiting \/ pc = "undo" => command \in Commands

(* A wait whose command was ended finds an event that ends it; while the   *)
(* program sleeps or gathers buffers that event still has its flag, or the *)
(* program is about to look at the flag.                                   *)
Noticed(e) == FlagsFor(e) \subseteq flags \cup set

EndNoticed ==
  Waiting /\ command \notin outstanding =>
    \E e \in Present :
      Ends(e) /\ (pc \in {"sleep", "gather", "await", "look"} => Noticed(e))

WInv == WaitTypes /\ EndNoticed

(* What the steps around an enable leave for OneAnswer: a port not yet     *)
(* supplied was not enabled, and after a change of state no answer is left *)
(* for ilclient_remove_event.                                              *)
UndoneByEnable == pc \in {"supply", "undo"} => caller = "enable"

NothingElseLeft == ~abandoned =>
  /\ pc = "supply" => Answers \subseteq Failures
  /\ pc = "failed" /\ caller = "change" => Answers = {}

AInv == OneAnswer /\ UndoneByEnable /\ NothingElseLeft

IInv == WInv /\ AInv

AnswerEvents == Failures \cup {Done(c) : c \in Commands}

ReportEvents == Errors \cup {<<"notice", n>> : n \in Notices}

--------------------------------------------------------------------------------

(* A report is never taken for an answer.                                  *)
LEMMA AnswersAreNoReports ==
  /\ AnswerEvents \subseteq Events /\ ReportEvents \subseteq Events
  /\ AnswerEvents \cap ReportEvents = {}
  /\ \A e \in AnswerEvents : ~Ignored(e)
BY DEF AnswerEvents, ReportEvents, Events, Failures, Errors, Done, Ignored

(* The handler adds its event and removes no other, whatever duplicates    *)
(* there were.                                                             *)
LEMMA HandlerAdds ==
  ASSUME list \in [Events -> Nat], NEW e \in Events, EventHandler(e)
  PROVE  /\ list' \in [Events -> Nat]
         /\ Present \subseteq Present' /\ Present' \subseteq Present \cup {e}
         /\ \A x \in Present' : (x # e \/ e \notin Present) => list'[x] = 1
         /\ ~Ignored(e) => e \in Present' /\ flags' = flags \cup FlagsFor(e)
         /\ flags \subseteq flags'
<1>1. Cleaned \in [Events -> {0, 1}]
      /\ \A x \in Events : Cleaned[x] = IF list[x] > 0 THEN 1 ELSE 0
  BY DEF Cleaned
<1>2. CASE Ignored(e)
  <2>1. list' = Cleaned /\ flags' = flags
    BY <1>2 DEF EventHandler
  <2>2. \A x \in Events : list'[x] > 0 <=> list[x] > 0
    BY <1>1, <2>1
  <2>3. \A x \in Events : list'[x] > 0 => list'[x] = 1
    BY <1>1, <2>1
  <2>4. QED
    BY <1>1, <1>2, <2>1, <2>2, <2>3 DEF Present
<1>3. CASE ~Ignored(e)
  <2>1. /\ list' = [Cleaned EXCEPT ![e] = @ + 1]
        /\ flags' = flags \cup FlagsFor(e)
    BY <1>3 DEF EventHandler
  <2>2. /\ list' \in [Events -> Nat]
        /\ list'[e] = Cleaned[e] + 1
        /\ \A x \in Events : x # e => list'[x] = Cleaned[x]
    BY <1>1, <2>1
  <2>3. e \in Present' /\ (e \notin Present => list'[e] = 1)
    BY <1>1, <2>2 DEF Present
  <2>4. \A x \in Events : x # e => (list'[x] > 0 <=> list[x] > 0)
    BY <1>1, <2>2
  <2>5. \A x \in Events : x # e /\ list'[x] > 0 => list'[x] = 1
    BY <1>1, <2>2
  <2>6. Present \subseteq Present' /\ Present' \subseteq Present \cup {e}
    BY <2>3, <2>4 DEF Present
  <2>7. \A x \in Present' : (x # e \/ e \notin Present) => list'[x] = 1
    BY <2>3, <2>5 DEF Present
  <2>8. QED
    BY <1>3, <2>1, <2>2, <2>3, <2>6, <2>7
<1>4. QED
  BY <1>2, <1>3

(* Removing an event leaves the others.                                    *)
LEMMA RemoveTakes ==
  ASSUME list \in [Events -> Nat], NEW e \in Present, Remove(e)
  PROVE  /\ list' \in [Events -> Nat]
         /\ Present' \subseteq Present
         /\ list[e] = 1 => e \notin Present'
<1>1. /\ list' = [list EXCEPT ![e] = @ - 1]
      /\ e \in Events /\ list[e] \in Nat /\ list[e] > 0
  BY DEF Remove, Present
<1>2. /\ list' \in [Events -> Nat]
      /\ list'[e] = list[e] - 1
      /\ \A x \in Events : x # e => list'[x] = list[x]
  BY <1>1
<1>3. QED
  BY <1>1, <1>2 DEF Present

(* The flags for an answer: error for a failure, the command's else.       *)
LEMMA AnswerFlags ==
  /\ \A e \in Failures : FlagsFor(e) = {"error"}
  /\ \A c \in Commands : /\ FlagsFor(Done(c)) = {CommandFlag(c)}
                         /\ CommandFlag(c) \in Flags \ {"error"}
  /\ \A e \in AnswerEvents : FlagsFor(e) \subseteq Flags
<1>1. ASSUME NEW e \in Failures PROVE FlagsFor(e) = {"error"}
  <2>1. e \notin {Done(c) : c \in Commands}
    BY <1>1 DEF Done, Failures
  <2>2. QED
    BY <1>1, <2>1 DEF FlagsFor
<1>2. ASSUME NEW c \in Commands
      PROVE  FlagsFor(Done(c)) = {CommandFlag(c)} /\ CommandFlag(c) \in Flags \ {"error"}
  <2>1. Done(c) \in {Done(d) : d \in Commands} /\ Done(c)[2] = c
    BY <1>2 DEF Done
  <2>2. FlagsFor(Done(c)) = {CommandFlag(c)}
    BY <2>1 DEF FlagsFor
  <2>3. QED
    BY <2>2 DEF CommandFlag, Flags
<1>3. "error" \in Flags
  BY DEF Flags
<1>4. QED
  BY <1>1, <1>2, <1>3 DEF AnswerEvents

(* The flags for a report are flags.                                       *)
LEMMA ReportFlags ==
  ASSUME NEW e \in ReportEvents
  PROVE  FlagsFor(e) \subseteq Flags
<1>1. e \notin {Done(d) : d \in Commands}
  BY DEF ReportEvents, Errors, Done
<1>2. FlagsFor(e) \in {{"error"}, {}}
  BY <1>1 DEF FlagsFor
<1>3. QED
  BY <1>2 DEF Flags

--------------------------------------------------------------------------------

(* At first nobody waits.                                                  *)
LEMMA InitEstablishesWInv == Init => WInv
<1> SUFFICES ASSUME Init PROVE WInv
  OBVIOUS
<1>1. /\ list \in [Events -> Nat]
      /\ flags = {} /\ set = {} /\ pc = "idle" /\ outstanding = {}
  BY DEF Init, EmptyList
<1>2. QED
  BY <1>1 DEF WInv, WaitTypes, EndNoticed, Waiting, Gathering

(* The answer to the command waited for is such an event, and has just got *)
(* its flag; an answer to another command takes nothing away.              *)
LEMMA AnswerKeepsWInv == WInv /\ Answer => WInv'
<1> SUFFICES ASSUME WInv, Answer PROVE WInv'
  OBVIOUS
<1>0. PICK c \in outstanding : AnswerTo(c)
  BY DEF Answer
<1>1. PICK e \in {Done(c)} \cup Failures : AnswerWith(c, e)
  BY <1>0 DEF AnswerTo
<1>2. /\ outstanding' = outstanding \ {c} /\ EventHandler(e)
      /\ UNCHANGED <<pc, set, command>>
  BY <1>1 DEF AnswerWith
<1>3. /\ list \in [Events -> Nat] /\ c \in Commands /\ flags \subseteq Flags
  BY DEF WInv, WaitTypes
<1>4. e \in AnswerEvents /\ e \in Events /\ ~Ignored(e)
  BY <1>3, AnswersAreNoReports DEF AnswerEvents
<1>5. /\ list' \in [Events -> Nat]
      /\ Present \subseteq Present' /\ e \in Present'
      /\ flags' = flags \cup FlagsFor(e)
  BY <1>2, <1>3, <1>4, HandlerAdds
<1>6. WaitTypes'
  BY <1>2, <1>3, <1>4, <1>5, AnswerFlags DEF WInv, WaitTypes, Waiting, Gathering
<1>7. EndNoticed'
  <2> SUFFICES ASSUME Waiting', command' \notin outstanding'
               PROVE  \E x \in Present' :
                        Ends(x)' /\ (pc' \in {"sleep", "gather", "await", "look"}
                                        => Noticed(x)')
    BY DEF EndNoticed
  <2>1. CASE command \in outstanding
    <3>1. c = command /\ Ends(e)'
      BY <1>2, <2>1 DEF Ends
    <3>2. Noticed(e)'
      BY <1>5 DEF Noticed
    <3>3. QED
      BY <1>5, <3>1, <3>2
  <2>2. CASE command \notin outstanding
    <3>1. PICK x \in Present :
            Ends(x) /\ (pc \in {"sleep", "gather", "await", "look"} => Noticed(x))
      BY <1>2, <2>2 DEF WInv, EndNoticed, Waiting, Gathering
    <3>2. Ends(x)' /\ x \in Present'
      BY <1>2, <1>5, <3>1 DEF Ends
    <3>3. Noticed(x) => Noticed(x)'
      BY <1>2, <1>5 DEF Noticed
    <3>4. QED
      BY <1>2, <3>1, <3>2, <3>3
  <2>3. QED
    BY <2>1, <2>2
<1>8. QED
  BY <1>6, <1>7 DEF WInv

(* The component reports something: no event is taken away.                *)
LEMMA ReportKeepsWInv == WInv /\ Report => WInv'
<1> SUFFICES ASSUME WInv, Report PROVE WInv'
  OBVIOUS
<1>1. PICK e \in ReportEvents : EventHandler(e)
  BY DEF Report, ReportEvents
<1>2. UNCHANGED <<pc, set, command, outstanding>>
  BY DEF Report, wait
<1>3. list \in [Events -> Nat] /\ flags \subseteq Flags /\ e \in Events
  BY AnswersAreNoReports DEF WInv, WaitTypes
<1>4. /\ list' \in [Events -> Nat] /\ Present \subseteq Present'
      /\ flags \subseteq flags'
      /\ ~Ignored(e) => flags' = flags \cup FlagsFor(e)
  BY <1>1, <1>3, HandlerAdds
<1>5. flags' \subseteq Flags
  <2>1. Ignored(e) => flags' = flags
    BY <1>1 DEF EventHandler
  <2>2. QED
    BY <1>3, <1>4, <2>1, ReportFlags
<1>6. WaitTypes'
  BY <1>2, <1>4, <1>5 DEF WInv, WaitTypes, Waiting, Gathering
<1>7. EndNoticed'
  <2>1. \A x \in Present : x \in Present' /\ (Ends(x) => Ends(x)')
                           /\ (Noticed(x) => Noticed(x)')
    BY <1>2, <1>4 DEF Ends, Noticed
  <2>2. (Waiting' <=> Waiting) /\ (command' \in outstanding' <=> command \in outstanding)
    BY <1>2 DEF Waiting, Gathering
  <2>3. QED
    BY <1>2, <2>1, <2>2 DEF WInv, EndNoticed
<1>8. QED
  BY <1>6, <1>7 DEF WInv

(* Steps that leave list and command as they are: what was found is there, *)
(* and has to be noticed still.                                            *)
LEMMA QuietStep ==
  ASSUME WInv, UNCHANGED <<list, command, outstanding>>, Waiting, WaitTypes',
         \A e \in Present : Ends(e) /\ (pc \in {"sleep", "gather", "await", "look"}
                                          => Noticed(e))
            => (pc' \in {"sleep", "gather", "await", "look"} => Noticed(e)')
  PROVE  WInv'
<1>1. Present' = Present
  BY DEF Present
<1>2. \A e : Ends(e)' <=> Ends(e)
  BY DEF Ends
<1>3. EndNoticed'
  BY <1>1, <1>2 DEF WInv, EndNoticed
<1>4. QED
  BY <1>3 DEF WInv

(* ilclient_disable_port_buffers gathering, sleeping and looking.          *)
LEMMA GatherKeepsWInv == WInv /\ Gather => WInv'
<1> SUFFICES ASSUME WInv, Gather PROVE WInv'
  OBVIOUS
<1>1. /\ pc \in {"gather", "await", "look"} /\ Waiting /\ command \in Commands
      /\ flags \subseteq Flags /\ list \in [Events -> Nat]
  BY DEF WInv, WaitTypes, Gather, GatherAll, GatherMore, WakeToLook,
         WakeToGather, TakeEvent, TakeNothing, Gathering, Waiting
<1>2. CASE GatherAll \/ GatherMore \/ WakeToGather
  <2>1. /\ UNCHANGED <<list, flags, set, command, outstanding>>
        /\ pc \in {"gather", "await"} /\ pc' \in {"scan", "await", "gather"}
    BY <1>2 DEF GatherAll, GatherMore, WakeToGather, lists, wait
  <2>2. WaitTypes'
    BY <1>1, <2>1 DEF WInv, WaitTypes, Waiting, Gathering
  <2>3. \A e \in Present : Noticed(e) => Noticed(e)'
    BY <2>1 DEF Noticed
  <2>4. QED
    BY <1>1, <2>1, <2>2, <2>3, QuietStep
<1>3. CASE WakeToLook
  <2>1. /\ UNCHANGED <<list, command, outstanding>>
        /\ pc = "await" /\ pc' = "look"
        /\ flags' = flags \ Mask /\ set' = flags \cap Mask /\ set = {}
    BY <1>3 DEF WakeToLook, lists, wait, WInv, WaitTypes
  <2>2. WaitTypes'
    BY <1>1, <2>1 DEF WInv, WaitTypes, Waiting, Gathering
  <2>3. \A e \in Present : Noticed(e) => Noticed(e)'
    BY <2>1 DEF Noticed
  <2>4. QED
    BY <1>1, <2>1, <2>2, <2>3, QuietStep
<1>4. CASE TakeNothing
  <2>1. /\ UNCHANGED <<list, flags, command, outstanding>>
        /\ pc = "look" /\ pc' = IF set' = {} THEN "gather" ELSE "look"
        /\ set' = IF "error" \in set THEN set \ {"error"} ELSE {}
        /\ Present \cap LookedFor = {}
    BY <1>4 DEF TakeNothing, lists, wait
  <2>2. WaitTypes'
    BY <1>1, <2>1 DEF WInv, WaitTypes, Waiting, Gathering
  <2>3. ASSUME NEW e \in Present, Ends(e), Noticed(e) PROVE Noticed(e)'
    <3>1. FlagsFor(e) \subseteq flags \cup set
      BY <2>3 DEF Noticed
    <3>2. CASE "error" \in set
      <4>1. e = Done(command)
        BY <2>1, <2>3, <3>2 DEF LookedFor, Ends
      <4>2. FlagsFor(e) = {CommandFlag(command)} /\ CommandFlag(command) # "error"
        BY <1>1, <4>1, AnswerFlags
      <4>3. QED
        BY <2>1, <3>1, <3>2, <4>2 DEF Noticed
    <3>3. CASE "error" \notin set
      <4>1. e \in Failures
        BY <2>1, <2>3, <3>3 DEF LookedFor, Ends
      <4>2. QED
        BY <2>1, <3>1, <3>3, <4>1, AnswerFlags DEF Noticed
    <3>4. QED
      BY <3>2, <3>3
  <2>4. QED
    BY <1>1, <2>1, <2>2, <2>3, QuietStep
<1>5. CASE TakeEvent
  <2>1. PICK e \in Present : Remove(e) /\ ClearsError(e)
    BY <1>5 DEF TakeEvent
  <2>2. /\ pc' \in {"idle", "failed"} /\ set' = {} /\ outstanding' = outstanding
    BY <1>5 DEF TakeEvent, Over
  <2>3. list' \in [Events -> Nat] /\ flags' \subseteq flags
    BY <1>1, <2>1, RemoveTakes DEF ClearsError
  <2>4. QED
    BY <1>1, <2>2, <2>3 DEF WInv, WaitTypes, EndNoticed, Waiting, Gathering
<1>6. QED
  BY <1>2, <1>3, <1>4, <1>5 DEF Gather

(* The other steps of the program.                                         *)
LEMMA ProgramKeepsWInv == WInv /\ Program => WInv'
<1> SUFFICES ASSUME WInv, Program PROVE WInv'
  OBVIOUS
<1>1. CASE SendCommand
  <2>1. PICK who \in {"change", "transition", "port", "buffers", "enable"},
             c \in Commands : Send(who, c)
    BY <1>1 DEF SendCommand, Commands
  <2>2. /\ pc = "idle" /\ pc' \in {"supply", "scan", "gather"}
        /\ command' = c /\ outstanding' = outstanding \cup {c} /\ list' = list
        /\ flags' \subseteq flags /\ set' = set
    BY <2>1 DEF Send, First, lists
  <2>3. QED
    BY <2>2 DEF WInv, WaitTypes, EndNoticed
<1>2. CASE Supplied \/ Wake
  <2>1. /\ pc \in {"supply", "sleep"} /\ pc' = "scan" /\ flags' \subseteq flags
        /\ UNCHANGED <<list, set, command, outstanding>>
    BY <1>2 DEF Supplied, Wake, lists, wait
  <2>2. Waiting /\ WaitTypes'
    BY <2>1 DEF Waiting, WInv, WaitTypes
  <2>3. QED
    BY <2>1, <2>2, QuietStep
<1>3. CASE Complete
  <2>1. PICK e \in Present :
          /\ Remove(e)
          /\ ClearsError(e)
          /\ pc' \in IF Succeeded(e) THEN {Over} ELSE AfterFailure
    BY <1>3 DEF Complete
  <2>2. /\ pc = "scan" /\ pc' \in {"idle", "failed", "undo", "asserted"}
        /\ command' = IF pc' = "undo" THEN command ELSE None
        /\ outstanding' = outstanding /\ set' = set
    BY <1>3, <2>1 DEF Complete, AfterFailure, Over, EndWait
  <2>3. list' \in [Events -> Nat] /\ flags' \subseteq flags
    BY <2>1, RemoveTakes DEF WInv, WaitTypes, ClearsError
  <2>4. QED
    BY <2>2, <2>3 DEF WInv, WaitTypes, EndNoticed, Waiting, Gathering
<1>4. CASE NotYet
  <2>1. /\ pc = "scan" /\ pc' = "sleep"
        /\ UNCHANGED <<list, flags, set, command, outstanding>>
        /\ \A e \in Present : ~Ends(e)
    BY <1>4 DEF NotYet, lists, wait
  <2>2. Waiting /\ WaitTypes'
    BY <2>1 DEF Waiting, WInv, WaitTypes
  <2>3. QED
    BY <2>1, <2>2, QuietStep
<1>5. CASE Gather
  BY <1>5, GatherKeepsWInv
<1>6. CASE Undo
  <2>1. CASE FindDisabled
    BY <2>1 DEF FindDisabled, WInv, WaitTypes, EndNoticed, Waiting, Gathering, lists
  <2>2. ASSUME NEW c \in DisableCommands, DisableAgain(c)
        PROVE  WInv'
    BY <2>2 DEF DisableAgain, Commands, WInv, WaitTypes, EndNoticed, lists
  <2>3. QED
    BY <1>6, <2>1, <2>2 DEF Undo
<1>7. CASE RemoveError
  <2>1. /\ pc = "failed" /\ pc' = "idle" /\ UNCHANGED <<set, command, outstanding>>
        /\ flags' \subseteq flags
    BY <1>7 DEF RemoveError
  <2>2. list \in [Events -> Nat]
    BY DEF WInv, WaitTypes
  <2>3. list' \in [Events -> Nat]
    <3>1. CASE UNCHANGED lists
      BY <2>2, <3>1 DEF lists
    <3>2. CASE \E e \in Present : Remove(e)
      BY <2>2, <3>2, RemoveTakes
    <3>3. QED
      BY <1>7, <3>1, <3>2 DEF RemoveError
  <2>4. QED
    BY <2>1, <2>3 DEF WInv, WaitTypes, EndNoticed, Waiting, Gathering
<1>8. CASE ReturnEvents \/ FreeHandle
  <2>1. /\ pc' \in {"cleaning", "closed"}
        /\ list' = EmptyList /\ UNCHANGED <<flags, set, command, outstanding>>
    BY <1>8 DEF ReturnEvents, FreeHandle, wait
  <2>2. list' \in [Events -> Nat] /\ pc \in {"idle", "cleaning"}
    BY <1>8, <2>1 DEF EmptyList, ReturnEvents, FreeHandle
  <2>3. QED
    BY <2>1, <2>2 DEF WInv, WaitTypes, EndNoticed, Waiting, Gathering
<1>9. QED
  BY <1>1, <1>2, <1>3, <1>4, <1>5, <1>6, <1>7, <1>8 DEF Program

LEMMA StepKeepsWInv == WInv /\ [Next]_vars => WInv'
<1>1. WInv /\ UNCHANGED vars => WInv'
  BY DEF WInv, WaitTypes, EndNoticed, Noticed, Waiting, Gathering, Present, Ends,
         vars, lists, wait
<1>2. QED
  BY <1>1, AnswerKeepsWInv, ReportKeepsWInv, ProgramKeepsWInv DEF Next

(* A program asleep whose command was ended has a flag set to wake it,     *)
(* whatever other answers and events came, were taken, or were given up.   *)
THEOREM WakeupsAreKept == Spec => []NoLostWakeup
<1>1. ASSUME WInv, pc \in {"sleep", "await"}, command \notin outstanding
      PROVE  flags \cap Mask # {}
  <2>1. Waiting /\ set = {} /\ command \in Commands
    BY <1>1 DEF WInv, WaitTypes, Waiting, Gathering
  <2>2. PICK e \in Present : Ends(e) /\ FlagsFor(e) \subseteq flags
    BY <1>1, <2>1 DEF WInv, EndNoticed, Noticed
  <2>3. CASE e \in Failures
    BY <2>2, <2>3, AnswerFlags DEF Mask
  <2>4. CASE e = Done(command)
    BY <2>1, <2>2, <2>4, AnswerFlags DEF Mask
  <2>5. QED
    BY <2>2, <2>3, <2>4 DEF Ends
<1>2. WInv => NoLostWakeup
  BY <1>1 DEF NoLostWakeup
<1>3. QED
  BY <1>2, InitEstablishesWInv, StepKeepsWInv, PTL DEF Spec

--------------------------------------------------------------------------------
(* One answer at a time, unless a command was given up.                    *)

LEMMA InitEstablishesAInv == Init => AInv
<1> SUFFICES ASSUME Init PROVE AInv
  OBVIOUS
<1>1. pc = "idle" /\ outstanding = {} /\ Present = {}
  BY DEF Init, EmptyList, Present
<1>2. ~Waiting /\ Answers = {}
  BY <1>1 DEF Waiting, Gathering, Answers
<1>3. QED
  BY <1>1, <1>2 DEF AInv, OneAnswer, UndoneByEnable, NothingElseLeft

(* The component answers: the program waits, and had no answer yet.        *)
LEMMA AnswerKeepsAInv == IInv /\ Answer => AInv'
<1> SUFFICES ASSUME IInv, Answer PROVE AInv'
  OBVIOUS
<1>1. PICK c \in outstanding : AnswerTo(c)
  BY DEF Answer
<1>2. PICK e \in {Done(c)} \cup Failures : AnswerWith(c, e)
  BY <1>1 DEF AnswerTo
<1>3. /\ outstanding' = outstanding \ {c} /\ EventHandler(e)
      /\ UNCHANGED <<pc, caller, command, abandoned>>
      /\ pc = "supply" => e # Done(command)
  BY <1>2 DEF AnswerWith
<1>4. UndoneByEnable'
  BY <1>3 DEF IInv, AInv, UndoneByEnable
<1>5. ASSUME ~abandoned PROVE (OneAnswer /\ NothingElseLeft)'
  <2>1. Waiting /\ outstanding = {command} /\ c = command /\ Answers = {}
    BY <1>5 DEF IInv, AInv, OneAnswer
  <2>2. list \in [Events -> Nat] /\ command \in Commands
    BY <2>1 DEF IInv, WInv, WaitTypes
  <2>3. e \in AnswerEvents /\ e \in Events /\ ~Ignored(e)
    BY <2>1, <2>2, AnswersAreNoReports DEF AnswerEvents
  <2>4. /\ Present' \subseteq Present \cup {e} /\ e \in Present'
        /\ e \notin Present => list'[e] = 1
    BY <1>3, <2>2, <2>3, HandlerAdds
  <2>5. Answers' = {e} /\ list'[e] = 1
    BY <2>1, <2>3, <2>4 DEF Answers, AnswerEvents
  <2>6. Waiting' /\ outstanding' = {} /\ e \in ({Done(command)} \cup Failures)'
    BY <1>2, <1>3, <2>1 DEF Waiting, Gathering, Done, Failures
  <2>7. OneAnswer'
    BY <2>5, <2>6 DEF OneAnswer, Single
  <2>8. pc = "supply" => e \in Failures
    BY <1>3, <2>1
  <2>9. NothingElseLeft'
    BY <1>3, <2>1, <2>5, <2>8 DEF NothingElseLeft, Waiting, Gathering, Failures
  <2>10. QED
    BY <2>7, <2>9
<1>6. abandoned => (OneAnswer /\ NothingElseLeft)'
  BY <1>3 DEF OneAnswer, NothingElseLeft
<1>7. QED
  BY <1>4, <1>5, <1>6 DEF AInv

(* Steps that change nothing about the answers, and stay in a wait or out  *)
(* of it.                                                                  *)
LEMMA SameAnswers ==
  ASSUME AInv, UNCHANGED <<caller, command, outstanding, abandoned>>,
         Answers' = Answers, \A e \in Answers : list'[e] = list[e],
         Waiting' <=> Waiting, pc' = "failed" <=> pc = "failed",
         pc' \in {"supply", "undo"} => pc' = pc
  PROVE  AInv'
<1>1. ASSUME NEW A, Single(A) PROVE Single(A)'
  BY <1>1 DEF Single
<1>2. Single(Failures) => Single(Failures)'
  BY DEF Single, Failures
<1>3. Single({Done(command)} \cup Failures) => Single({Done(command)} \cup Failures)'
  BY DEF Single, Failures, Done
<1>4. OneAnswer'
  BY <1>2, <1>3 DEF AInv, OneAnswer
<1>5. UndoneByEnable' /\ NothingElseLeft'
  BY DEF AInv, UndoneByEnable, NothingElseLeft, Failures
<1>6. QED
  BY <1>4, <1>5 DEF AInv

(* The component reports something: answers stay as they are.              *)
LEMMA ReportKeepsAInv == IInv /\ Report => AInv'
<1> SUFFICES ASSUME IInv, Report PROVE AInv'
  OBVIOUS
<1>1. PICK e \in ReportEvents : EventHandler(e)
  BY DEF Report, ReportEvents
<1>2. UNCHANGED <<pc, caller, command, outstanding, abandoned>>
  BY DEF Report, wait
<1>3. list \in [Events -> Nat] /\ e \in Events /\ e \notin AnswerEvents
  BY AnswersAreNoReports DEF IInv, WInv, WaitTypes
<1>4. /\ Present \subseteq Present' /\ Present' \subseteq Present \cup {e}
      /\ \A x \in Present' : x # e => list'[x] = 1
  BY <1>1, <1>3, HandlerAdds
<1>5. Answers' = Answers /\ \A x \in Answers' : list'[x] = 1
  BY <1>3, <1>4 DEF Answers, AnswerEvents
<1>6. Waiting' <=> Waiting
  BY <1>2 DEF Waiting, Gathering
<1>7. ASSUME NEW A, Single(A) PROVE \E x \in A : Answers' = {x} /\ list'[x] = 1
  BY <1>5, <1>7 DEF Single
<1>8. OneAnswer'
  <2>1. Single(Failures) => Single(Failures)'
    BY <1>7 DEF Single, Failures
  <2>2. Single({Done(command)} \cup Failures)
          => Single({Done(command)} \cup Failures)'
    BY <1>2, <1>7 DEF Single, Failures, Done
  <2>3. QED
    BY <1>2, <1>5, <1>6, <2>1, <2>2 DEF IInv, AInv, OneAnswer
<1>9. UndoneByEnable' /\ NothingElseLeft'
  BY <1>2, <1>5 DEF IInv, AInv, UndoneByEnable, NothingElseLeft, Failures
<1>10. QED
  BY <1>8, <1>9 DEF AInv

(* Whoever takes an answer leaves none.                                    *)
LEMMA TakingAnAnswer ==
  ASSUME IInv, ~abandoned, NEW e \in Answers, Remove(e),
         Waiting \/ (pc = "failed" /\ caller # "change")
  PROVE  Answers' = {} /\ outstanding = {}
<1>1. list \in [Events -> Nat] /\ e \in Present
  BY DEF IInv, WInv, WaitTypes, Answers
<1>2. outstanding = {} /\ Answers = {e} /\ list[e] = 1
  BY DEF IInv, AInv, OneAnswer, Single
<1>3. Present' \subseteq Present /\ e \notin Present'
  BY <1>1, <1>2, RemoveTakes
<1>4. QED
  BY <1>2, <1>3 DEF Answers

(* The end of a wait: its one answer is taken.                             *)
LEMMA EndKeepsAInv == IInv /\ (Complete \/ TakeEvent) => AInv'
<1> SUFFICES ASSUME IInv, Complete \/ TakeEvent PROVE AInv'
  OBVIOUS
<1>1. command \in Commands /\ Waiting
  BY DEF Complete, TakeEvent, IInv, WInv, WaitTypes, Waiting, Gathering
<1>2. PICK e \in Present : Remove(e) /\ (Ends(e) \/ e \in LookedFor)
  BY DEF Complete, TakeEvent
<1>3. e \in Answers
  BY <1>1, <1>2 DEF Ends, LookedFor, Answers
<1>4. /\ pc' \in {"idle", "failed", "undo", "asserted"}
      /\ pc' = "undo" => caller = "enable" /\ caller' = caller
      /\ UNCHANGED <<outstanding, abandoned>>
  <2>1. CASE Complete
    BY <2>1 DEF Complete, AfterFailure, Over, EndWait
  <2>2. CASE TakeEvent
    BY <2>2 DEF TakeEvent, Over
  <2>3. QED
    BY <2>1, <2>2
<1>5. ~Waiting' /\ UndoneByEnable'
  BY <1>4 DEF Waiting, Gathering, UndoneByEnable
<1>6. ~abandoned => Answers' = {} /\ outstanding' = {}
  BY <1>1, <1>2, <1>3, <1>4, TakingAnAnswer
<1>7. QED
  BY <1>4, <1>5, <1>6 DEF AInv, OneAnswer, NothingElseLeft

(* An enable is undone: if it was ended, by a failure, that is left for    *)
(* ilclient_remove_event.                                                  *)
LEMMA UndoKeepsAInv == IInv /\ Undo => AInv'
<1> SUFFICES ASSUME IInv, Undo PROVE AInv'
  OBVIOUS
<1>1. CASE FindDisabled
  <2>1. /\ pc \in {"supply", "undo"} /\ pc' = "failed" /\ caller' = caller
        /\ UNCHANGED <<list, outstanding>>
        /\ abandoned' = (abandoned \/ command \in outstanding)
    BY <1>1 DEF FindDisabled, lists
  <2>2. caller = "enable" /\ UndoneByEnable'
    BY <2>1 DEF IInv, AInv, UndoneByEnable
  <2>3. Answers' = Answers
    BY <2>1 DEF Answers, Present, Failures, Done
  <2>4. ASSUME ~abandoned' PROVE OneAnswer' /\ NothingElseLeft'
    <3>1. ~abandoned /\ command \notin outstanding
      BY <2>1, <2>4
    <3>2. outstanding = {} /\ (Answers = {} \/ Single({Done(command)} \cup Failures))
      BY <2>1, <3>1 DEF IInv, AInv, OneAnswer, Waiting, Gathering
    <3>3. pc = "undo" => Answers = {}
      BY <3>1 DEF IInv, AInv, OneAnswer, Waiting, Gathering
    <3>4. Answers = {} \/ Single(Failures)
      BY <2>1, <3>1, <3>2, <3>3 DEF IInv, AInv, NothingElseLeft, Single
    <3>5. Single(Failures) => Single(Failures)'
      BY <2>1, <2>3 DEF Single, Failures
    <3>6. ~Waiting'
      BY <2>1 DEF Waiting, Gathering
    <3>7. QED
      BY <2>1, <2>2, <2>3, <3>2, <3>4, <3>5, <3>6 DEF OneAnswer, NothingElseLeft
  <2>5. QED
    BY <2>2, <2>4 DEF AInv, OneAnswer, NothingElseLeft
<1>2. ASSUME NEW c \in DisableCommands, DisableAgain(c) PROVE AInv'
  BY <1>2 DEF DisableAgain, AInv, OneAnswer, UndoneByEnable, NothingElseLeft
<1>3. QED
  BY <1>1, <1>2 DEF Undo

(* ilclient_remove_event takes that failure, if there is one.              *)
LEMMA RemoveErrorKeepsAInv == IInv /\ RemoveError => AInv'
<1> SUFFICES ASSUME IInv, RemoveError PROVE AInv'
  OBVIOUS
<1> DEFINE unwanted == Present \cap
             (IF caller = "change" THEN Failures \cup Errors ELSE Failures)
<1>1. /\ pc = "failed" /\ pc' = "idle" /\ UNCHANGED <<outstanding, abandoned>>
      /\ (\E e \in unwanted : Remove(e)) \/ (unwanted = {} /\ UNCHANGED lists)
  BY DEF RemoveError
<1>2. ~Waiting /\ ~Waiting' /\ UndoneByEnable'
  BY <1>1 DEF Waiting, Gathering, UndoneByEnable
<1>3. ASSUME ~abandoned PROVE Answers' = {} /\ outstanding = {}
  <2>1. outstanding = {}
    BY <1>2, <1>3 DEF IInv, AInv, OneAnswer
  <2>2. CASE Answers = {}
    <3>1. Present' \subseteq Present
      <4>1. list \in [Events -> Nat]
        BY DEF IInv, WInv, WaitTypes
      <4>2. QED
        BY <1>1, <4>1, RemoveTakes DEF lists, Present
    <3>2. QED
      BY <2>1, <2>2, <3>1 DEF Answers
  <2>3. CASE Answers # {}
    <3>1. Single(Failures) /\ caller # "change"
      BY <1>1, <1>2, <1>3, <2>3 DEF IInv, AInv, OneAnswer, NothingElseLeft
    <3>2. unwanted \subseteq Answers /\ unwanted # {}
      BY <3>1 DEF Single, Answers
    <3>3. PICK e \in Answers : Remove(e)
      BY <1>1, <3>2
    <3>4. QED
      BY <1>1, <1>3, <3>1, <3>3, TakingAnAnswer
  <2>4. QED
    BY <2>2, <2>3
<1>4. QED
  BY <1>1, <1>2, <1>3 DEF AInv, OneAnswer, NothingElseLeft

(* The other steps of the program.                                         *)
LEMMA ProgramKeepsAInv == IInv /\ Program => AInv'
<1> SUFFICES ASSUME IInv, Program PROVE AInv'
  OBVIOUS
<1>1. CASE SendCommand
  <2>1. PICK who \in {"change", "transition", "port", "buffers", "enable"},
             c \in Commands : Send(who, c)
    BY <1>1 DEF SendCommand, Commands
  <2>2. /\ pc = "idle" /\ pc' \in {"supply", "scan", "gather"}
        /\ pc' = "supply" => who = "enable"
        /\ caller' = who /\ command' = c /\ outstanding' = outstanding \cup {c}
        /\ list' = list /\ abandoned' = abandoned
    BY <2>1 DEF Send, First, lists
  <2>3. Waiting' /\ UndoneByEnable'
    BY <2>2 DEF Waiting, Gathering, UndoneByEnable
  <2>4. ~abandoned => outstanding' = {command'} /\ Answers' = {}
    BY <2>2 DEF IInv, AInv, OneAnswer, Waiting, Gathering, Answers, Present
  <2>5. QED
    BY <2>2, <2>3, <2>4 DEF AInv, OneAnswer, NothingElseLeft
<1>2. CASE \/ Supplied \/ NotYet \/ Wake
           \/ GatherAll \/ GatherMore \/ WakeToLook \/ WakeToGather \/ TakeNothing
  <2>1. /\ UNCHANGED <<list, caller, command, outstanding, abandoned>>
        /\ pc \in {"supply", "scan", "sleep", "gather", "await", "look"}
        /\ pc' \in {"scan", "sleep", "gather", "await", "look"}
    BY <1>2 DEF Supplied, NotYet, Wake, GatherAll, GatherMore, WakeToLook,
                WakeToGather, TakeNothing, lists, wait
  <2>2. Waiting /\ Waiting'
    BY <2>1 DEF Waiting, Gathering
  <2>3. Answers' = Answers
    BY <2>1 DEF Answers, Present, Failures, Done
  <2>4. QED
    BY <2>1, <2>2, <2>3, SameAnswers DEF IInv
<1>3. CASE Complete \/ TakeEvent
  BY <1>3, EndKeepsAInv
<1>4. CASE Undo
  BY <1>4, UndoKeepsAInv
<1>5. CASE RemoveError
  BY <1>5, RemoveErrorKeepsAInv
<1>6. CASE ReturnEvents \/ FreeHandle
  <2>1. /\ pc \in {"idle", "cleaning"} /\ pc' \in {"cleaning", "closed"}
        /\ list' = EmptyList /\ UNCHANGED <<outstanding, abandoned>>
    BY <1>6 DEF ReturnEvents, FreeHandle, wait
  <2>2. Answers' = {} /\ ~Waiting /\ ~Waiting'
    BY <2>1 DEF EmptyList, Present, Answers, Waiting, Gathering
  <2>3. ~abandoned => outstanding' = {}
    BY <2>1, <2>2 DEF IInv, AInv, OneAnswer
  <2>4. QED
    BY <2>1, <2>2, <2>3 DEF AInv, OneAnswer, UndoneByEnable, NothingElseLeft
<1>7. QED
  BY <1>1, <1>2, <1>3, <1>4, <1>5, <1>6 DEF Program, Gather

(* What a wait relies on holds at every step, for any commands and events. *)
THEOREM WaitInvariant == Spec => []IInv
<1>1. IInv /\ UNCHANGED vars => AInv'
  <2> SUFFICES ASSUME IInv, UNCHANGED vars PROVE AInv'
    OBVIOUS
  <2>1. UNCHANGED <<list, pc, caller, command, outstanding, abandoned>>
    BY DEF vars, lists, wait
  <2>2. Answers' = Answers /\ (Waiting' <=> Waiting)
    BY <2>1 DEF Answers, Present, Failures, Done, Waiting, Gathering
  <2>3. QED
    BY <2>1, <2>2, SameAnswers DEF IInv
<1>2. IInv /\ [Next]_vars => IInv'
  BY <1>1, StepKeepsWInv, AnswerKeepsAInv, ReportKeepsAInv, ProgramKeepsAInv
     DEF Next, IInv
<1>3. Init => IInv
  BY InitEstablishesWInv, InitEstablishesAInv DEF IInv
<1>4. QED
  BY <1>2, <1>3, PTL DEF Spec

(* Unless an enable was given up, the answer to a command is in the list   *)
(* exactly once until its wait takes it, through the removal of duplicates *)
(* and any other events, and no later wait can take it for its own.        *)
THEOREM AnswersOnceInList == Spec => []OneAnswer
<1>1. IInv => OneAnswer
  BY DEF IInv, AInv
<1>2. QED
  BY <1>1, WaitInvariant, PTL

--------------------------------------------------------------------------------
(* The event structures.                                                   *)

Counts == [Events -> Nat]

(* A list has a structure for each time an event is in it.                 *)
LEMMA InStructures ==
  ASSUME NEW l \in Counts, NEW e, NEW i
  PROVE  <<e, i>> \in Structures(l) <=> e \in Events /\ i \in 1 .. l[e]
  BY DEF Structures

LEMMA OnlyPairs ==
  ASSUME NEW l \in Counts, NEW p \in Structures(l)
  PROVE  p \in Events \X Nat /\ p = <<p[1], p[2]>>
<1>1. PICK e \in Events : p \in {e} \X (1 .. l[e])
  BY DEF Structures
<1>2. l[e] \in Nat
  BY DEF Counts
<1>3. QED
  BY <1>1, <1>2

(* There are finitely many, for a component has finitely many events.      *)
LEMMA LengthIsNat ==
  ASSUME NEW l \in Counts
  PROVE  IsFiniteSet(Structures(l)) /\ Length(l) \in Nat
<1> DEFINE each == [e \in Events |-> {e} \X (1 .. l[e])]
<1>1. IsFiniteSet({each[e] : e \in Events})
  <2>1. each \in Surjection(Events, {each[e] : e \in Events})
    BY DEF Surjection
  <2> HIDE DEF each
  <2>2. QED
    BY <2>1, NumEventsAssumption, FS_Surjection
<1>2. ASSUME NEW e \in Events PROVE IsFiniteSet(each[e])
  <2>1. l[e] \in Nat
    BY DEF Counts
  <2>2. IsFiniteSet({e})
    BY FS_Singleton
  <2>3. IsFiniteSet(1 .. l[e])
    BY <2>1, FS_Interval
  <2>4. QED
    BY <2>2, <2>3, FS_Product
<1>3. IsFiniteSet(UNION {each[e] : e \in Events})
  <2> HIDE DEF each
  <2>1. \A T \in {each[e] : e \in Events} : IsFiniteSet(T)
    BY <1>2
  <2>2. QED
    BY <1>1, <2>1, FS_UNION
<1>4. UNION {each[e] : e \in Events} = Structures(l)
  BY DEF Structures
<1>5. QED
  BY <1>3, <1>4, FS_CardinalityType DEF Length

(* One event more takes one structure more.                                *)
LEMMA OneMore ==
  ASSUME NEW l \in Counts, NEW e \in Events
  PROVE  /\ [l EXCEPT ![e] = @ + 1] \in Counts
         /\ Length([l EXCEPT ![e] = @ + 1]) = Length(l) + 1
<1> DEFINE more == [l EXCEPT ![e] = @ + 1]
<1>1. /\ more \in Counts /\ l[e] \in Nat
      /\ more[e] = l[e] + 1
      /\ \A x \in Events : x # e => more[x] = l[x]
  BY DEF Counts
<1> HIDE DEF more
<1>2. <<e, l[e] + 1>> \notin Structures(l)
  BY <1>1, InStructures
<1>3. ASSUME NEW p
      PROVE  p \in Structures(more) <=> p \in Structures(l) \cup {<<e, l[e] + 1>>}
  <2>1. ASSUME NEW x \in Events, NEW i
        PROVE  i \in 1 .. more[x] <=> i \in 1 .. l[x] \/ (x = e /\ i = l[e] + 1)
    BY <1>1, <2>1 DEF Counts
  <2>2. ASSUME p \in Structures(more) PROVE p \in Structures(l) \cup {<<e, l[e] + 1>>}
    <3>1. p = <<p[1], p[2]>>
      BY <1>1, <2>2, OnlyPairs
    <3>2. p[1] \in Events /\ p[2] \in 1 .. more[p[1]]
      BY <1>1, <2>2, <3>1, InStructures
    <3>3. p[2] \in 1 .. l[p[1]] \/ (p[1] = e /\ p[2] = l[e] + 1)
      BY <2>1, <3>2
    <3>4. QED
      BY <3>1, <3>2, <3>3, InStructures
  <2>3. ASSUME p \in Structures(l) PROVE p \in Structures(more)
    <3>1. p = <<p[1], p[2]>>
      BY <2>3, OnlyPairs
    <3>2. p[1] \in Events /\ p[2] \in 1 .. l[p[1]]
      BY <2>3, <3>1, InStructures
    <3>3. QED
      BY <1>1, <2>1, <3>1, <3>2, InStructures
  <2>4. <<e, l[e] + 1>> \in Structures(more)
    BY <1>1, InStructures
  <2>5. QED
    BY <2>2, <2>3, <2>4
<1>4. Structures(more) = Structures(l) \cup {<<e, l[e] + 1>>}
  BY <1>3
<1>5. Length(more) = Length(l) + 1
  BY <1>2, <1>4, LengthIsNat, FS_AddElement DEF Length
<1>6. QED
  BY <1>1, <1>5 DEF more

(* An event less gives one back.                                           *)
LEMMA OneLess ==
  ASSUME NEW l \in Counts, NEW e \in Events, l[e] > 0
  PROVE  /\ [l EXCEPT ![e] = @ - 1] \in Counts
         /\ Length([l EXCEPT ![e] = @ - 1]) = Length(l) - 1
<1> DEFINE less == [l EXCEPT ![e] = @ - 1]
<1>1. less \in Counts /\ less[e] = l[e] - 1
  BY DEF Counts
<1>2. [less EXCEPT ![e] = @ + 1] = l
  <2> DEFINE back == [less EXCEPT ![e] = @ + 1]
  <2>1. back[e] = l[e] /\ \A x \in Events : x # e => back[x] = l[x]
    BY <1>1 DEF Counts
  <2>2. back \in Counts
    BY <1>1, OneMore
  <2> HIDE DEF back
  <2>3. \A x \in Events : back[x] = l[x]
    BY <2>1
  <2>4. back = l
    BY <2>2, <2>3 DEF Counts
  <2>5. QED
    BY <2>4 DEF back
<1> HIDE DEF less
<1>3. Length(l) = Length(less) + 1
  BY <1>1, <1>2, OneMore
<1>4. QED
  BY <1>1, <1>3, LengthIsNat DEF less

LEMMA EmptyHasNone == EmptyList \in Counts /\ Length(EmptyList) = 0
<1>1. EmptyList \in Counts
  BY DEF EmptyList, Counts
<1>2. ASSUME NEW p \in Structures(EmptyList) PROVE FALSE
  <2>1. p = <<p[1], p[2]>>
    BY <1>1, OnlyPairs
  <2>2. p[1] \in Events /\ p[2] \in 1 .. EmptyList[p[1]]
    BY <1>1, <2>1, InStructures
  <2>3. QED
    BY <2>2 DEF EmptyList
<1>3. QED
  BY <1>1, <1>2, FS_EmptySet DEF Length

(* Without duplicates a list takes as many structures as it has different  *)
(* events: no more than before, and no more than there are events.         *)
LEMMA CleanedIsShort ==
  ASSUME list \in Counts
  PROVE  /\ Cleaned \in Counts
         /\ Length(Cleaned) <= Length(list)
         /\ Length(Cleaned) <= Cardinality(Events)
<1>1. /\ Cleaned \in Counts
      /\ \A e \in Events : 1 .. Cleaned[e] \subseteq (1 .. list[e]) \cap {1}
  BY DEF Cleaned, Counts
<1>2. Structures(Cleaned) \subseteq Structures(list)
  BY <1>1 DEF Structures
<1>3. Length(Cleaned) <= Length(list)
  BY <1>2, LengthIsNat, FS_Subset DEF Length
<1>4. Structures(Cleaned) \subseteq Events \X {1}
  BY <1>1 DEF Structures
<1>5. /\ IsFiniteSet(Events \X {1})
      /\ Cardinality(Events \X {1}) = Cardinality(Events)
  <2>1. IsFiniteSet({1}) /\ Cardinality({1}) = 1
    BY FS_Singleton
  <2>2. /\ IsFiniteSet(Events \X {1})
        /\ Cardinality(Events \X {1}) = Cardinality(Events) * 1
    BY <2>1, NumEventsAssumption, FS_Product
  <2>3. Cardinality(Events) \in Nat
    BY NumEventsAssumption, FS_CardinalityType
  <2>4. QED
    BY <2>2, <2>3
<1>6. Length(Cleaned) <= Cardinality(Events)
  BY <1>4, <1>5, FS_Subset DEF Length
<1>7. QED
  BY <1>1, <1>3, <1>6

(* The count of the spare structures.                                      *)
Accounted ==
  /\ list \in Counts
  /\ event_list \in Nat
  /\ StructuresKept

(* The handler takes a structure for its event, or none.                   *)
LEMMA HandlerKeepsStructures ==
  ASSUME list \in Counts, event_list \in Nat, NEW e \in Events, EventHandler(e)
  PROVE  /\ list' \in Counts /\ event_list' \in Nat
         /\ Length(list') + event_list' = Length(list) + event_list
<1>1. /\ Cleaned \in Counts /\ Length(Cleaned) \in Nat /\ Length(list) \in Nat
      /\ Length(Cleaned) <= Length(list)
  BY CleanedIsShort, LengthIsNat
<1>2. Duplicates \in Nat /\ Duplicates = Length(list) - Length(Cleaned)
  BY <1>1 DEF Duplicates
<1>3. CASE list' = Cleaned /\ event_list' = event_list + Duplicates
  BY <1>1, <1>2, <1>3
<1>4. CASE /\ list' = [Cleaned EXCEPT ![e] = @ + 1]
           /\ event_list' = event_list + Duplicates - 1
  <2>1. list' \in Counts /\ Length(list') = Length(Cleaned) + 1
    BY <1>1, <1>4, OneMore
  <2>2. event_list + Duplicates > 0
    BY DEF EventHandler
  <2>3. QED
    BY <1>1, <1>2, <1>4, <2>1, <2>2
<1>5. QED
  BY <1>3, <1>4 DEF EventHandler

(* Taking an event gives its structure back.                               *)
LEMMA RemoveKeepsStructures ==
  ASSUME list \in Counts, event_list \in Nat, NEW e \in Present, Remove(e)
  PROVE  /\ list' \in Counts /\ event_list' \in Nat
         /\ Length(list') + event_list' = Length(list) + event_list
<1>1. e \in Events /\ list[e] > 0
  BY DEF Present
<1>2. list' \in Counts /\ Length(list') = Length(list) - 1
  BY <1>1, OneLess DEF Remove
<1>3. QED
  BY <1>2, LengthIsNat DEF Remove

(* Who touches the lists, and how.                                         *)
LEMMA ListsAtWork ==
  ASSUME WInv, [Next]_vars
  PROVE  \/ UNCHANGED lists /\ (pc' = "closed" <=> pc = "closed")
         \/ /\ pc # "closed" /\ pc' # "closed"
            /\ \/ \E e \in Events : EventHandler(e)
               \/ \E e \in Present : Remove(e)
         \/ ReturnEvents
         \/ FreeHandle
<1>1. CASE Answer
  <2>1. PICK c \in outstanding : AnswerTo(c)
    BY <1>1 DEF Answer
  <2>2. PICK e \in {Done(c)} \cup Failures : AnswerWith(c, e)
    BY <2>1 DEF AnswerTo
  <2>3. c \in Commands
    BY DEF WInv, WaitTypes
  <2>4. e \in Events
    BY <2>3, AnswersAreNoReports DEF AnswerEvents
  <2>5. QED
    BY <2>2, <2>4 DEF AnswerWith
<1>2. CASE Report
  BY <1>2, AnswersAreNoReports DEF Report, ReportEvents
<1>3. CASE SendCommand
  BY <1>3 DEF SendCommand, Send, First
<1>4. CASE Complete
  BY <1>4 DEF Complete, AfterFailure, Over
<1>5. CASE NotYet \/ Wake \/ Supplied \/ Undo
  BY <1>5 DEF NotYet, Wake, Supplied, Undo, FindDisabled, DisableAgain
<1>6. CASE Gather
  BY <1>6 DEF Gather, GatherAll, GatherMore, WakeToLook, WakeToGather, TakeEvent,
              TakeNothing, Over
<1>7. CASE RemoveError
  BY <1>7 DEF RemoveError
<1>8. CASE ReturnEvents \/ FreeHandle \/ UNCHANGED vars
  BY <1>8 DEF vars
<1>9. QED
  BY <1>1, <1>2, <1>3, <1>4, <1>5, <1>6, <1>7, <1>8 DEF Next, Program

LEMMA StructuresStayKept == WInv /\ Accounted /\ [Next]_vars => Accounted'
<1> SUFFICES ASSUME WInv, Accounted, [Next]_vars PROVE Accounted'
  OBVIOUS
<1> USE DEF Accounted, StructuresKept
<1>1. CASE UNCHANGED lists /\ (pc' = "closed" <=> pc = "closed")
  <2>1. Length(list)' = Length(list)
    BY <1>1 DEF lists, Length, Structures
  <2>2. QED
    BY <1>1, <2>1 DEF lists, Counts
<1>2. ASSUME NEW e \in Events, EventHandler(e), pc # "closed" PROVE Accounted'
  BY <1>2, HandlerKeepsStructures
<1>3. ASSUME NEW e \in Present, Remove(e), pc # "closed" PROVE Accounted'
  BY <1>3, RemoveKeepsStructures
<1>4. CASE ReturnEvents
  BY <1>4, EmptyHasNone, LengthIsNat DEF ReturnEvents
<1>5. CASE FreeHandle
  BY <1>5, EmptyHasNone DEF FreeHandle
<1>6. QED
  BY <1>1, <1>2, <1>3, <1>4, <1>5, ListsAtWork

(* While there is a component, no structure is lost and none appears,      *)
(* whatever events come, are doubled, ignored or taken.                    *)
THEOREM StructuresAreKept == Spec => []StructuresKept
<1>1. Init => Accounted
  BY EmptyHasNone, NumEventsAssumption DEF Init, Accounted, StructuresKept
<1>2. Accounted => StructuresKept
  BY DEF Accounted
<1>3. QED
  BY <1>1, <1>2, StructuresStayKept, InitEstablishesWInv, StepKeepsWInv, PTL DEF Spec

(* The handler's assertion holds: once the duplicates have gone, there is  *)
(* a spare structure, as long as NUM_EVENTS is more than the different     *)
(* events a component has.                                                 *)
THEOREM SpareIsLeft == Spec => []SpareLeft
<1>1. Accounted => SpareLeft
  <2> SUFFICES ASSUME Accounted, pc # "closed" PROVE event_list + Duplicates > 0
    BY DEF SpareLeft
  <2>1. /\ Length(list) + event_list = NumEvents
        /\ Length(list) \in Nat /\ event_list \in Nat
    BY LengthIsNat DEF Accounted, StructuresKept
  <2>2. Length(Cleaned) \in Nat /\ Length(Cleaned) <= Cardinality(Events)
    BY CleanedIsShort, LengthIsNat DEF Accounted
  <2>3. Cardinality(Events) \in Nat
    BY NumEventsAssumption, FS_CardinalityType
  <2>4. QED
    BY <2>1, <2>2, <2>3, NumEventsAssumption DEF Duplicates
<1>2. Init => Accounted
  BY EmptyHasNone, NumEventsAssumption DEF Init, Accounted, StructuresKept
<1>3. QED
  BY <1>1, <1>2, StructuresStayKept, InitEstablishesWInv, StepKeepsWInv, PTL DEF Spec

================================================================================
