------------------------------ MODULE IlEvents ------------------------------
(***************************************************************************)
(* The events of an OpenMAX component in third-party/ilclient/ilclient.c,  *)
(* as the OMX encoder uses them: the component's thread calls the event    *)
(* handler, which takes an event structure from the client's spare list;   *)
(* the program sends commands and waits until one of the events ends the   *)
(* command.  Both lists are under one lock, which a step here holds from   *)
(* its first access to its last; the event flags are not under it.         *)
(*                                                                         *)
(* A list is the bag of its events; of several that end a command a scan   *)
(* takes any.  Normally there is only one (OneAnswer), but not when        *)
(* ilclient_enable_port_buffers gives up a command that is under way.      *)
(* The buffers of a port are in OmxEncode; here                            *)
(* ilclient_disable_port_buffers has them, or misses some, at any moment.  *)
(* Tunnels are left out.                                                   *)
(***************************************************************************)
EXTENDS Integers, FiniteSets

CONSTANTS
  NumEvents,      (* NUM_EVENTS: the event structures of the client        *)
  StateCommands,  (* OMX_CommandStateSet, with each state                  *)
  Loaded,         (* the one with OMX_StateLoaded                          *)
  DisableCommands,(* OMX_CommandPortDisable, with each port                *)
  EnableCommands, (* OMX_CommandPortEnable, with each port                 *)
  OtherErrors,    (* errors it reports, besides that a port is unpopulated *)
  Notices,        (* what else a component reports: settings, end of stream*)
  None

Commands == StateCommands \cup DisableCommands \cup EnableCommands

(* Events with what tells them apart.  An error with nData2 = 1 has ended  *)
(* a command ("failed"), any other one has not.                            *)
Done(c)   == <<"done", c>>
Failures  == {<<"failed", "same_state">>, <<"failed", "other">>}
Errors    == {<<"error", x>> : x \in {"unpopulated"} \cup OtherErrors}
Events    == {Done(c) : c \in Commands} \cup Failures \cup Errors
               \cup {<<"notice", n>> : n \in Notices}

ASSUME CommandsAssumption ==
  /\ Loaded \in StateCommands
  /\ None \notin Commands

(* NUM_EVENTS suffices for the different events a component may have.      *)
ASSUME NumEventsAssumption ==
  /\ NumEvents \in Nat /\ IsFiniteSet(Events)
  /\ Cardinality(Events) < NumEvents

VARIABLES
  list,         (* how often each event is in the component's list         *)
  event_list,   (* how many structures are spare                           *)
  flags,        (* the component's event flags                             *)
  error_mask,   (* whether "unpopulated" is ignored                        *)
  pc,           (* the program: idle, supplying a port with buffers, in a  *)
                (* wait, after it, cleaning up                             *)
  set,          (* flags that ilclient_disable_port_buffers has to look at *)
  caller,       (* who waits: see Send                                     *)
  command,      (* the command waited for                                  *)
  outstanding,  (* the commands the component has not ended yet            *)
  abandoned     (* one of them was given up: nobody waits for its answer.  *)
                (* No step looks at it; it is for the properties.          *)

lists == <<list, event_list>>
wait  == <<error_mask, caller, command, outstanding, abandoned>>
vars  == <<lists, flags, pc, set, wait>>

EmptyList == [e \in Events |-> 0]

Present == {e \in Events : list[e] > 0}

(* ilclient_disable_port_buffers: gathering the port's buffers, asleep,    *)
(* looking at the flags that woke it.                                      *)
Gathering == pc \in {"gather", "await", "look"}

Waiting == pc \in {"supply", "scan", "sleep"} \/ Gathering

Init ==
  /\ list = EmptyList /\ event_list = NumEvents
  /\ flags = {}
  /\ error_mask = FALSE
  /\ pc = "idle" /\ set = {}
  /\ caller = None /\ command = None
  /\ outstanding = {} /\ abandoned = FALSE

--------------------------------------------------------------------------------
(* The component's thread: ilclient_event_handler.                         *)

(* Mistake: duplicates are left in the list.                               *)
Uncleaned == list

(* The list without duplicates, which become spare.                        *)
Cleaned == [e \in Events |-> IF list[e] > 0 THEN 1 ELSE 0]

(* The structures in a list: one for each time an event is in it.          *)
Structures(l) == UNION {{e} \X (1 .. l[e]) : e \in Events}

Length(l) == Cardinality(Structures(l))

Duplicates == Length(list) - Length(Cleaned)

CommandFlag(c) == IF c \in StateCommands THEN "state"
                  ELSE IF c \in DisableCommands THEN "disabled" ELSE "enabled"

(* Mistake: a command that was not needed wakes nobody.                    *)
FlagsForUnlessSameState(e) ==
  IF e \in {Done(c) : c \in Commands} THEN {CommandFlag(e[2])}
  ELSE {f \in {"error"} : e \in {<<"failed", "other">>} \cup Errors}

(* The flags set for an event, apart from those no wait here looks at.     *)
(* OMX_ErrorDiskFull and OMX_ErrorMaxFileSize, which set none and are of   *)
(* components that write files, are left out.                              *)
FlagsFor(e) ==
  IF e \in {Done(c) : c \in Commands} THEN {CommandFlag(e[2])}
  ELSE {f \in {"error"} : e \in Failures \cup Errors}

Ignored(e) == e = <<"error", "unpopulated">> /\ error_mask

(* The duplicates go first; then there must be a spare structure, and the *)
(* event goes into the list with it, if it is not ignored.                 *)
EventHandler(e) ==
  /\ event_list + Duplicates > 0
  /\ \/ /\ Ignored(e)
        /\ list' = Cleaned
        /\ event_list' = event_list + Duplicates
        /\ UNCHANGED flags
     \/ /\ ~Ignored(e)
        /\ list' = [Cleaned EXCEPT ![e] = @ + 1]
        /\ event_list' = event_list + Duplicates - 1
        /\ flags' = flags \cup FlagsFor(e)

(* The component ends a command.  It cannot have enabled a port that still *)
(* is to be supplied with buffers.                                         *)
AnswerWith(c, e) ==
  /\ pc # "closed" /\ c \in outstanding
  /\ e \in {Done(c)} \cup Failures
  /\ pc = "supply" => e # Done(command)
  /\ EventHandler(e)
  /\ outstanding' = outstanding \ {c}
  /\ UNCHANGED <<pc, set, error_mask, caller, command, abandoned>>

AnswerTo(c) == \E e \in {Done(c)} \cup Failures : AnswerWith(c, e)

Answer == \E c \in outstanding : AnswerTo(c)

(* It reports something else, at any time.                                 *)
Report ==
  /\ pc # "closed"
  /\ \E e \in Errors \cup {<<"notice", n>> : n \in Notices} : EventHandler(e)
  /\ UNCHANGED <<pc, set, wait>>

--------------------------------------------------------------------------------
(* The program.                                                            *)

(* ilclient_change_component_state ("change"), ilclient_state_transition   *)
(* ("transition"), ilclient_disable_port ("port"), and                     *)
(* ilclient_enable_port_buffers ("enable") and                             *)
(* ilclient_disable_port_buffers ("buffers"; "undo" when the former calls  *)
(* it).  A command that is under way is not sent again.                    *)
First == [change |-> "scan", transition |-> "scan", port |-> "scan",
          enable |-> "supply", buffers |-> "gather"]

Send(who, c) ==
  /\ pc = "idle" /\ c \notin outstanding
  /\ pc' = First[who]
  /\ caller' = who /\ command' = c
  /\ outstanding' = outstanding \cup {c}
  /\ flags' = IF who = "transition" THEN flags \ {"error"} ELSE flags
  /\ error_mask' = (who = "transition" /\ c = Loaded)
  /\ UNCHANGED <<lists, set, abandoned>>

SendCommand ==
  \/ \E who \in {"change", "transition"}, c \in StateCommands : Send(who, c)
  \/ \E who \in {"port", "buffers"}, c \in DisableCommands : Send(who, c)
  \/ \E c \in EnableCommands : Send("enable", c)

(* ilclient_enable_port_buffers has given the port its buffers and waits.  *)
Supplied ==
  /\ pc = "supply"
  /\ pc' = "scan"
  /\ UNCHANGED <<lists, flags, set, wait>>

(* Mistake: the structure is not given back.                               *)
UnlinkOnly(e) ==
  /\ list' = [list EXCEPT ![e] = @ - 1]
  /\ UNCHANGED event_list

(* An event is taken from the list and its structure given back.           *)
Remove(e) ==
  /\ list' = [list EXCEPT ![e] = @ - 1]
  /\ event_list' = event_list + 1

(* ilclient_wait_for_command_complete: the list is scanned; the program    *)
(* sleeps until one of the flags is set, and scans again.                  *)

(* Mistake: only success is looked for.                                    *)
EndsWell(e) == e = Done(command)

Ends(e) == e = Done(command) \/ e \in Failures

Succeeded(e) == e = Done(command) \/ e = <<"failed", "same_state">>

(* Where a caller goes on that does not mind: back to the program, or to   *)
(* what ilclient_enable_port_buffers does in the end.                      *)
Over == IF caller = "undo" THEN "failed" ELSE "idle"

(* What a wait that fails leads to: two callers clear up; for the others   *)
(* it is an assertion, and without assertions the program goes on.         *)
AfterFailure ==
  IF caller = "change" THEN {"failed"}
  ELSE IF caller = "enable" THEN {"undo"} ELSE {"asserted", Over}

ClearsError(e) == flags' = IF e \in Failures THEN flags \ {"error"} ELSE flags

(* The wait is over, apart from what follows a failure.                    *)
EndWait ==
  /\ caller' = IF pc' \in {"failed", "undo"} THEN caller ELSE None
  /\ command' = IF pc' = "undo" THEN command ELSE None
  /\ error_mask' = FALSE
  /\ UNCHANGED <<set, outstanding, abandoned>>

(* Mistake: the event stays in the list.                                   *)
CompleteAndLeave ==
  /\ pc = "scan"
  /\ \E e \in Present :
       /\ Ends(e)
       /\ ClearsError(e)
       /\ pc' \in IF Succeeded(e) THEN {Over} ELSE AfterFailure
  /\ EndWait
  /\ UNCHANGED lists

Complete ==
  /\ pc = "scan"
  /\ \E e \in Present :
       /\ Ends(e)
       /\ Remove(e)
       /\ ClearsError(e)
       /\ pc' \in IF Succeeded(e) THEN {Over} ELSE AfterFailure
  /\ EndWait

NotYet ==
  /\ pc = "scan"
  /\ \A e \in Present : ~Ends(e)
  /\ pc' = "sleep"
  /\ UNCHANGED <<lists, flags, set, wait>>

Mask == {"error", CommandFlag(command)}

Wake ==
  /\ pc = "sleep"
  /\ flags \cap Mask # {}
  /\ flags' = flags \ Mask
  /\ pc' = "scan"
  /\ UNCHANGED <<lists, set, wait>>

(* ilclient_disable_port_buffers: when it has all buffers of the port it   *)
(* waits for the command like the others; until then it sleeps.            *)
GatherAll ==
  /\ pc = "gather"
  /\ pc' = "scan"
  /\ UNCHANGED <<lists, flags, set, wait>>

GatherMore ==
  /\ pc = "gather"
  /\ pc' = "await"
  /\ UNCHANGED <<lists, flags, set, wait>>

(* Woken by one of these flags, it looks for the event that goes with it   *)
(* before it looks for buffers again.                                      *)
WakeToLook ==
  /\ pc = "await"
  /\ flags \cap Mask # {}
  /\ set' = flags \cap Mask
  /\ flags' = flags \ Mask
  /\ pc' = "look"
  /\ UNCHANGED <<lists, wait>>

(* Woken by a buffer.                                                      *)
WakeToGather ==
  /\ pc = "await"
  /\ flags \cap Mask = {}
  /\ pc' = "gather"
  /\ UNCHANGED <<lists, flags, set, wait>>

LookedFor ==
  IF "error" \in set THEN Failures ELSE {Done(command)}

(* Either event ends the command: it returns.                              *)
TakeEvent ==
  /\ pc = "look"
  /\ \E e \in Present \cap LookedFor :
       /\ Remove(e)
       /\ ClearsError(e)
  /\ pc' = Over /\ set' = {}
  /\ caller' = IF pc' = "failed" THEN caller ELSE None
  /\ command' = None
  /\ UNCHANGED <<error_mask, outstanding, abandoned>>

TakeNothing ==
  /\ pc = "look"
  /\ Present \cap LookedFor = {}
  /\ set' = IF "error" \in set THEN set \ {"error"} ELSE {}
  /\ pc' = IF set' = {} THEN "gather" ELSE "look"
  /\ UNCHANGED <<lists, flags, wait>>

Gather == GatherAll \/ GatherMore \/ WakeToLook \/ WakeToGather
            \/ TakeEvent \/ TakeNothing

(* ilclient_enable_port_buffers without all its buffers, or after a wait   *)
(* that failed, calls ilclient_disable_port_buffers.  That finds the port  *)
(* disabled and returns at once, as after an enable that failed, or sends  *)
(* a second command; either way an enable not yet ended is given up.       *)
FindDisabled ==
  /\ pc \in {"supply", "undo"}
  /\ pc' = "failed"
  /\ command' = None
  /\ abandoned' = (abandoned \/ command \in outstanding)
  /\ UNCHANGED <<lists, flags, set, error_mask, caller, outstanding>>

DisableAgain(c) ==
  /\ pc \in {"supply", "undo"} /\ command \in outstanding
  /\ c \notin outstanding
  /\ pc' = "gather"
  /\ caller' = "undo" /\ command' = c
  /\ outstanding' = outstanding \cup {c} /\ abandoned' = TRUE
  /\ UNCHANGED <<lists, flags, set, error_mask>>

Undo == FindDisabled \/ \E c \in DisableCommands : DisableAgain(c)

(* ilclient_remove_event after a failure: after a change of state of any   *)
(* error, after enabling a port of one that has ended a command.           *)
RemoveError ==
  /\ pc = "failed"
  /\ LET unwanted == Present \cap
            (IF caller = "change" THEN Failures \cup Errors ELSE Failures)
     IN  \/ \E e \in unwanted : Remove(e) /\ flags' = flags \ {"error"}
         \/ unwanted = {} /\ UNCHANGED <<lists, flags>>
  /\ pc' = "idle"
  /\ caller' = None
  /\ UNCHANGED <<set, error_mask, command, outstanding, abandoned>>

(* ilclient_cleanup_components: the events are returned; after             *)
(* OMX_FreeHandle there are no more.  Structures that come into the list   *)
(* in between go with the component.                                       *)
ReturnEvents ==
  /\ pc = "idle"
  /\ pc' = "cleaning"
  /\ list' = EmptyList
  /\ event_list' = event_list + Length(list)
  /\ UNCHANGED <<flags, set, wait>>

FreeHandle ==
  /\ pc = "cleaning"
  /\ pc' = "closed"
  /\ list' = EmptyList
  /\ UNCHANGED <<event_list, flags, set, wait>>

Program == SendCommand \/ Supplied \/ Complete \/ NotYet \/ Wake \/ Gather
             \/ Undo \/ RemoveError \/ ReturnEvents \/ FreeHandle

Next == Program \/ Answer \/ Report

Spec == Init /\ [][Next]_vars

--------------------------------------------------------------------------------
(* Properties.                                                             *)

(* While there is a component, every event structure is in its list or     *)
(* spare: neither the handler nor the program loses one.                   *)
StructuresKept == pc # "closed" => Length(list) + event_list = NumEvents

(* The assertion in the handler that there is a spare structure holds      *)
(* whenever it comes to it, however long events are only added.            *)
SpareLeft == pc # "closed" => event_list + Duplicates > 0

(* Unless an enable was given up, the component owes the answer to the     *)
(* command of a wait, or the answer is in the list, once; at other times   *)
(* there is nothing in the list that a later wait would take for an        *)
(* answer, but for the failure about to be removed.                        *)
Answers == Present \cap (Failures \cup {Done(c) : c \in Commands})

Single(A) == \E e \in A : Answers = {e} /\ list[e] = 1

OneAnswer == ~abandoned =>
  \/ Waiting /\ outstanding = {command} /\ Answers = {}
  \/ Waiting /\ outstanding = {} /\ Single({Done(command)} \cup Failures)
  \/ pc = "failed" /\ outstanding = {} /\ Single(Failures)
  \/ ~Waiting /\ outstanding = {} /\ Answers = {}

(* A program asleep whose command was ended is woken, even when an answer  *)
(* nobody waited for came in between: the flag for the end was set after   *)
(* the scan, and neither a wake nor an event removed has consumed it.      *)
NoLostWakeup ==
  pc \in {"sleep", "await"} /\ command \notin outstanding => flags \cap Mask # {}

================================================================================
