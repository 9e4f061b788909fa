------------------------------ MODULE Sources ------------------------------
(***************************************************************************)
(* The kinds of event sources at work in a loop: file descriptors, tasks,  *)
(* timers and signals, and the program of ccevents.texi (section on signal *)
(* sources) that brings signals to them, in which the inquirer of one task *)
(* calls ccevents_signal_bub_acquire again and again.                      *)
(*                                                                         *)
(* Module EventLoop lets inquirers answer freely.  Here they answer as the *)
(* code of their kind does; a step of a source is the step of EventLoop    *)
(* together with a step of SignalBub or with a change to the callbacks.    *)
(***************************************************************************)
EXTENDS EventLoop

CONSTANTS NSIG,     \* number of signals
          Acquirer, \* the task source whose inquirer acquires signals
          Designs,  \* the programs: sources |-> what they are, see Types
          Adjusted  \* sources they initialise again, enable, disable and
                    \* set timeouts of

VARIABLES type,      \* source |-> what it is; given by the program
          callbacks, \* source |-> what its own pointers to functions hold
          blocked, pending, disposition, arrived,
          pc, signum, flag, owed, fresh, \* see SignalBub
          unhandled  \* history: delivered and not yet given to a handler

Bub == INSTANCE SignalBub WITH Ops <- {"acquire", "delivered", "source_init"}

\* The type of the struct and, for signal sources, its field signum.
Types == [kind : {"task", "fd", "timer", "signal"}, signum : 0..(NSIG - 1)]

ASSUME SourcesAssumption ==
  /\ NSIG \in Nat \ {0}
  /\ Acquirer \in Sources
  /\ Adjusted \subseteq Sources
  /\ Designs \subseteq {d \in [Sources -> Types] : d[Acquirer].kind = "task"}

bub == <<blocked, pending, disposition, arrived, pc, signum, flag, owed, fresh>>
structs == <<type, callbacks>>
all == <<vars, structs, bub, unhandled>>

\* Once a source is given to its init function its pointers are "stale" if it
\* leaves them as they were, or those of the library's default functions.
\* Then the program sets its own.
Callbacks == {"stale", "default", "set"}

\* The program has called ccevents_signal_bub_init, has initialised its
\* sources, and has set those that it enqueued.
SourcesInit ==
  /\ Init
  /\ type \in Designs
  /\ callbacks = [s \in Sources |->
                    IF type[s].kind = "timer" THEN "default"
                    ELSE IF GroupsOf(s) # {} THEN "set"
                    ELSE IF type[s].kind = "fd" THEN "default" ELSE "stale"]
  /\ blocked = Bub!Signals /\ pending = {}
  /\ disposition = [n \in Bub!Signals |-> "handler"]
  /\ arrived = [n \in Bub!Signals |-> FALSE]
  /\ pc = "client" /\ signum = 0 /\ flag = FALSE
  /\ owed = {} /\ fresh = {}
  /\ unhandled = {}

(***************************************************************************)
(* Signals are sent at any time and delivered while they are unblocked.    *)
(***************************************************************************)

send(n) == Bub!send(n) /\ UNCHANGED <<vars, structs, unhandled>>

deliver(n) ==
  /\ Bub!handle(n)
  /\ unhandled' = unhandled \cup {n}
  /\ UNCHANGED <<vars, structs>>

(***************************************************************************)
(* The inquirers.                                                          *)
(***************************************************************************)

Asked(kind) == At("inquirer") /\ type[Self].kind = kind /\ Self # Acquirer

AcquirerAsked == At("inquirer") /\ Self = Acquirer

\* A step of EventLoop outside of the signal interface.
Plain(step) ==
  /\ pc = "client"
  /\ step
  /\ UNCHANGED <<structs, bub, unhandled>>

\* The inquirer of a signal source is ccevents_signal_bub_delivered.
signal_asks ==
  /\ Asked("signal")
  /\ Bub!delivered(type[Self].signum)
  /\ UNCHANGED <<vars, structs, unhandled>>

signal_answers ==
  /\ Asked("signal")
  /\ Bub!delivered_clear
  /\ \/ /\ flag /\ found_event
        /\ unhandled' = unhandled \ {signum}
     \/ ~flag /\ found_no_event /\ UNCHANGED unhandled
  /\ UNCHANGED structs

acquirer_acquires ==
  /\ AcquirerAsked
  /\ Bub!acquire
  /\ UNCHANGED <<vars, structs, unhandled>>

acquirer_answers ==
  /\ AcquirerAsked
  /\ Bub!acquire_block
  /\ found_no_event
  /\ UNCHANGED <<structs, unhandled>>

timer_answers == Asked("timer") /\ Plain(found_no_event)

default_event_query == callbacks[Self] = "default" /\ Plain(found_no_event)

\* A call of select(2) with timeout zero, which may fail; or else a function
\* of the program, of which no more is known.
query_fd ==
  /\ callbacks[Self] = "set"
  /\ Plain(found_event \/ found_no_event \/ raise)

fd_answers == Asked("fd") /\ (default_event_query \/ query_fd)

task_answers == Asked("task") /\ Plain(found_event \/ found_no_event \/ raise)

handler_ends ==
  \E place \in {"event_handler", "expiration_handler"} :
    At(place) /\ Plain(handled \/ raise)

CallbackMoves ==
  \/ signal_asks \/ signal_answers \/ acquirer_acquires \/ acquirer_answers
  \/ timer_answers \/ fd_answers \/ task_answers
  \/ handler_ends \/ Plain(unwound)

(***************************************************************************)
(* The program: in its main function, and in the callbacks that are its    *)
(* own.  Inquirers of signals and timers are not.                          *)
(***************************************************************************)

ProgramRuns ==
  /\ pc = "client" /\ ClientRuns
  /\ At("inquirer") =>
       /\ type[Self].kind \in {"task", "fd"} /\ callbacks[Self] = "set"
       /\ Self # Acquirer

\* A source is not initialised again while a call for it is on the stack.
base_init(s) == ~OnStack("source", s) /\ source_init(s)

\* Fault: the pointers keep the functions that were set before.
Fault_fd_init_keeps_callbacks(s) ==
  /\ type[s].kind = "fd" /\ base_init(s)
  /\ callbacks' = [callbacks EXCEPT ![s] = "stale"]
  /\ UNCHANGED <<type, bub, unhandled>>

fd_source_init(s) ==
  /\ type[s].kind = "fd" /\ base_init(s)
  /\ callbacks' = [callbacks EXCEPT ![s] = "default"]
  /\ UNCHANGED <<type, bub, unhandled>>

timer_source_init(s) ==
  /\ type[s].kind = "timer" /\ base_init(s)
  /\ UNCHANGED <<structs, bub, unhandled>>

\* Fault: the pointers are nulled.
Fault_task_init_nulls_callbacks(s) ==
  /\ type[s].kind = "task" /\ base_init(s)
  /\ callbacks' = [callbacks EXCEPT ![s] = "null"]
  /\ UNCHANGED <<type, bub, unhandled>>

task_source_init(s) ==
  /\ type[s].kind = "task" /\ base_init(s)
  /\ callbacks' = [callbacks EXCEPT ![s] = "stale"]
  /\ UNCHANGED <<type, bub, unhandled>>

\* Forgets a signal that was delivered, whichever source it was for.
signal_bub_source_init(s) ==
  /\ type[s].kind = "signal" /\ base_init(s)
  /\ callbacks' = [callbacks EXCEPT ![s] = "stale"]
  /\ Bub!source_init(type[s].signum)
  /\ UNCHANGED <<type, unhandled>>

signal_bub_source_init_clear ==
  /\ Bub!source_init_clear
  /\ UNCHANGED <<vars, structs, unhandled>>

set_callbacks(s) ==
  /\ s \notin finalised
  /\ callbacks' = [callbacks EXCEPT ![s] = "set"]
  /\ UNCHANGED <<vars, type, bub, unhandled>>

fd_source_set(s) == type[s].kind = "fd" /\ set_callbacks(s)

task_source_set(s) == type[s].kind = "task" /\ set_callbacks(s)

signal_bub_source_set(s) == type[s].kind = "signal" /\ set_callbacks(s)

\* Only fd and timer sources may do without set: of the others the code
\* would call whatever the pointers hold.
MayBeEnqueued(s) == type[s].kind \in {"fd", "timer"} \/ callbacks[s] # "stale"

enqueue_source(g, s) ==
  /\ MayBeEnqueued(s)
  /\ Plain(group_enqueue_source(g, s))

\* The same of a source the program calls do_one_event for.
MayBeEntered ==
  LET call == Head(stack')
  IN call.proc = "source" => MayBeEnqueued(call.obj) /\ call.obj \notin finalised

SettingOfAdjusted ==
  /\ SettingOp
  /\ \A s \in Sources \ Adjusted :
       enabled'[s] = enabled[s] /\ expiration'[s] = expiration[s]

\* The final method may release each source that is taken out of a group: none
\* of them may be the one whose inquirer runs.
FinalisingOp ==
  /\ \/ \E g \in Groups : Uses("group_final") /\ group_final(g)
     \/ \E l \in Loops : Uses("loop_final") /\ loop_final(l)
     \/ \E s \in Sources : Uses("source_final") /\ release(s)
  /\ \A s \in finalised' \ finalised : ~IsInquired(s)

\* Callbacks take sources and groups out of their queues.
DequeueOp ==
  \/ \E g \in Groups : Uses("dequeue_source") /\ group_dequeue_source(g)
  \/ \E s \in Sources : Uses("source_dequeue_itself") /\ source_dequeue_itself(s)
  \/ \E l \in Loops : Uses("dequeue_group") /\ loop_dequeue_group(l)
  \/ \E g \in Groups : Uses("group_dequeue_itself") /\ group_dequeue_itself(g)

ProgramStep ==
  /\ ProgramRuns
  /\ \/ \E s \in Adjusted :
          /\ Uses("source_init")
          /\ \/ fd_source_init(s) \/ timer_source_init(s)
             \/ task_source_init(s) \/ signal_bub_source_init(s)
     \/ \E s \in Sources :
          \/ fd_source_set(s) \/ task_source_set(s) \/ signal_bub_source_set(s)
          \/ \E g \in Groups :
               Uses("enqueue_source") /\ stack = <<>> /\ enqueue_source(g, s)
     \/ \E l \in Loops, g \in Groups :
          Uses("enqueue_group") /\ stack = <<>> /\ Plain(loop_enqueue_group(l, g))
     \/ Plain(DequeueOp) \/ Plain(FinalisingOp)
     \/ Plain(SettingOfAdjusted)
     \/ Plain(EnterOp) /\ MayBeEntered

SourcesNext ==
  \/ \E n \in Bub!Signals : send(n) \/ deliver(n)
  \/ Plain(LibraryStep) \/ CallbackMoves
  \/ signal_bub_source_init_clear \/ ProgramStep
  \/ Plain(Clock)

SourcesSpec == SourcesInit /\ [][SourcesNext]_all

\* The fairness of EventLoop and of SignalBub.
SourcesFairSpec ==
  /\ SourcesSpec
  /\ WF_all(Plain(LibraryStep))
  /\ SF_all(CallbackMoves)
  /\ WF_all(signal_bub_source_init_clear)
  /\ \A n \in Bub!Signals : SF_all(deliver(n))

(***************************************************************************)
(* Properties.                                                             *)
(***************************************************************************)

SourcesTypeOK ==
  /\ TypeOK /\ Bub!TypeOK
  /\ type \in Designs
  /\ callbacks \in [Sources -> Callbacks]
  /\ unhandled \subseteq Bub!Signals

\* The library calls no pointer that the init function of the source left as it
\* was, and an event handler only if the program set it since: an fd source
\* that is initialised again and not yet set does nothing, whatever it was set
\* to before (ccevents-sources-fd.c:86-88).  Of tasks and signals this is so
\* because MayBeEnqueued holds.
CallbacksAreCurrent ==
  /\ At("inquirer") => callbacks[Self] # "stale"
  /\ At("event_handler") => callbacks[Self] = "set"

\* Event handlers of signal sources run at most once for a delivery, even if
\* several sources wait for the same signal: what one of them reports was not
\* given to a handler before (ccevents-sources-signal.c:105-106, 125).
OneHandlerPerDelivery ==
  Asked("signal") /\ pc = "delivered_clear" /\ flag => signum \in unhandled

\* A source that its event handler released, or another callback, is not touched
\* any more: neither by the rest of its service attempt (sources-base.c:161-167)
\* nor by the loop, to which no attempt on it is left to make.
ReleasedIsLeftAlone ==
  [][\A s \in finalised \cap finalised' :
       /\ enabled'[s] = enabled[s] /\ expiration'[s] = expiration[s]
       /\ callbacks'[s] = callbacks[s]
       /\ ~(IsInquired(s) \/ IsInquired(s)')]_all

Listens(l, g, s) == Served(l, g, s) /\ enabled[s] /\ expiration[s] # "past"

HandlerRuns(n) ==
  At("event_handler") /\ type[Self].kind = "signal" /\ type[Self].signum = n

\* A signal reaches a handler: if from some time on a source of the signal and
\* the acquirer stay in a loop that runs, a signal sent at any time, also
\* while the source was disabled, expired or in no group, is followed by a run
\* of the event handler of a source of that signal, unless the initialisation of
\* a source of the signal forgets it.
SignalIsHandled ==
  \A l \in Loops, g \in Groups, s \in Sources \ {Acquirer}, n \in Bub!Signals :
    <>[](/\ type[s] = [kind |-> "signal", signum |-> n]
         /\ Listens(l, g, s) /\ Listens(l, g, Acquirer))
      => (n \in owed ~> HandlerRuns(n) \/ Bub!Forgetting(n))
=============================================================================
