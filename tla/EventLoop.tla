----------------------------- MODULE EventLoop -----------------------------
(***************************************************************************)
(* Loops, groups and event sources: ccevents_loop_enter, which gives turns *)
(* to the groups of a loop, ccevents_group_enter, which gives service      *)
(* attempts to the sources of a group, ccevents_source_do_one_event, which *)
(* makes one attempt, and everything a program may do to these structures  *)
(* in between.                                                             *)
(*                                                                         *)
(* The library has one thread.  What makes it hard is that the callbacks   *)
(* of a source (inquirer, event handler, expiration handler) are arbitrary *)
(* code: while library functions above them on the C stack hold pointers   *)
(* and counters, they enqueue, dequeue, finalise, post requests, and enter *)
(* loops and groups again.  The C stack is the variable "stack", and a     *)
(* callback is a frame in which the program's operations are enabled.      *)
(*                                                                         *)
(* Queues are sequences with the current node first: module Queue shows    *)
(* that the lists of the library behave so.                                *)
(***************************************************************************)
EXTENDS RingOps, FiniteSets

CONSTANTS Loops, Groups, Sources,
          Watermark,  \* group |-> servicing_attempts_watermark
          Ops,        \* the operations the program makes use of
          MaxDepth,   \* bound on the frames of the C stack
          FirstGroups, FirstSources \* the queues the program starts from

AllOps ==
  {"enqueue_source", "dequeue_source", "source_dequeue_itself",
   "enqueue_group", "dequeue_group", "group_dequeue_itself",
   "post_group_leave", "post_loop_leave", "enable", "disable", "set_timeout",
   "group_final", "loop_final", "source_init", "source_final",
   "loop_enter", "group_enter", "do_one_event"}

ASSUME EventLoopAssumption ==
  /\ Watermark \in [Groups -> Nat]
  /\ Ops \subseteq AllOps
  /\ MaxDepth \in Nat
  /\ FirstGroups \in [Loops -> Seq(Groups)]
  /\ FirstSources \in [Groups -> Seq(Sources)]
  /\ \A g, h \in Groups :  \* a source is in one group at a time
       g # h => Members(FirstSources[g]) \cap Members(FirstSources[h]) = {}

VARIABLES groups,      \* loop |-> its queue of groups
          loop_leave,  \* loop |-> request_to_leave
          sources,     \* group |-> its queue of sources
          group_leave, \* group |-> request_to_leave
          enabled,     \* source |-> servicing is enabled
          expiration,  \* source |-> expiration_time, against the clock
          finalised,   \* sources given to ccevents_source_final
          stack        \* the C stack, innermost frame first

queues == <<groups, sources>>
flags == <<loop_leave, group_leave>>
settings == <<enabled, expiration, finalised>>
vars == <<queues, flags, settings, stack>>

(***************************************************************************)
(* Frames.  An expiration time is "never" (CCEVENTS_TIMEVAL_NEVER), in the *)
(* future or in the past.                                                  *)
(***************************************************************************)

Times == {"never", "future", "past"}

\* The callbacks do_one_event may run, and the handlers that code registered
\* with the location, run after it returned or raised (groups.c:126-131).
ClientCode == {"inquirer", "event_handler", "expiration_handler", "unwinding"}

LoopFrame(l) == [proc |-> "loop", obj |-> l, attempts |-> 0, at |-> "while"]
GroupFrame(g, n) == [proc |-> "group", obj |-> g, attempts |-> n, at |-> "while"]
SourceFrame(s, at) == [proc |-> "source", obj |-> s, attempts |-> 0, at |-> at]

Frames ==
  [proc : {"loop"}, obj : Loops, attempts : {0}, at : {"while"}]
    \cup [proc : {"group"}, obj : Groups, attempts : Nat, at : {"while"}]
    \cup [proc : {"source"}, obj : Sources, attempts : {0},
          at : ClientCode \cup {"entered"}]

Push(frame) == stack' = <<frame>> \o stack
Pop == stack' = Tail(stack)
Become(frame) == stack' = <<frame>> \o Tail(stack)

Running(proc) == stack # <<>> /\ Head(stack).proc = proc
Self == Head(stack).obj

\* The program itself runs: main, or a callback.
ClientRuns == stack # <<>> => Head(stack).at \in ClientCode

OnStack(proc, x) == \E i \in DOMAIN stack : stack[i].proc = proc /\ stack[i].obj = x

Calls(proc, x) ==
  Cardinality({i \in DOMAIN stack : stack[i].proc = proc /\ stack[i].obj = x})

GroupsOf(s) == {g \in Groups : s \in Members(sources[g])}
LoopsOf(g) == {l \in Loops : g \in Members(groups[l])}

Init ==
  /\ groups = FirstGroups
  /\ sources = FirstSources
  /\ loop_leave = [l \in Loops |-> FALSE]
  /\ group_leave = [g \in Groups |-> FALSE]
  /\ enabled = [s \in Sources |-> TRUE]
  /\ expiration = [s \in Sources |-> "never"]
  /\ finalised = {}
  /\ stack = <<>>

(***************************************************************************)
(* ccevents_loop_enter.                                                    *)
(***************************************************************************)

\* Fault: the flag is not looked at.
Fault_loop_ignores_request(l) == TRUE

loop_no_request_to_leave(l) == ~loop_leave[l]

\* Fault: one advance before entering the group and one after.
Fault_advance_group_twice(l) == groups' = [groups EXCEPT ![l] = Advanced(Advanced(@))]

advance_to_next_group(l) == groups' = [groups EXCEPT ![l] = Advanced(@)]

\* The flag is reset on entry.
loop_enter(l) ==
  /\ loop_leave' = [loop_leave EXCEPT ![l] = FALSE]
  /\ Push(LoopFrame(l))
  /\ UNCHANGED <<queues, group_leave, settings>>

\* One turn of the while: advance first, then enter the group that was
\* current.  Entering resets the group's flag and its count of attempts.
loop_turn ==
  /\ Running("loop")
  /\ loop_no_request_to_leave(Self)
  /\ groups[Self] # <<>>
  /\ advance_to_next_group(Self)
  /\ LET grp == Head(groups[Self])
     IN /\ group_leave' = [group_leave EXCEPT ![grp] = FALSE]
        /\ Push(GroupFrame(grp, 0))
  /\ UNCHANGED <<sources, loop_leave, settings>>

loop_return ==
  /\ Running("loop")
  /\ ~loop_no_request_to_leave(Self) \/ groups[Self] = <<>>
  /\ loop_leave' = [loop_leave EXCEPT ![Self] = FALSE]
  /\ Pop
  /\ UNCHANGED <<queues, group_leave, settings>>

(***************************************************************************)
(* ccevents_group_enter.                                                   *)
(***************************************************************************)

group_no_request_to_leave(g) ==
  /\ ~group_leave[g]
  /\ \A l \in LoopsOf(g) : ~loop_leave[l]

group_enter(g) ==
  /\ group_leave' = [group_leave EXCEPT ![g] = FALSE]
  /\ Push(GroupFrame(g, 0))
  /\ UNCHANGED <<queues, loop_leave, settings>>

\* Fault: the comparison lets one more attempt pass.
Fault_watermark_off_by_one == Head(stack).attempts <= Watermark[Self]

watermark_not_reached == Head(stack).attempts < Watermark[Self]

\* Fault: the group does not go on to its next source.
Fault_stay_on_source(g) == UNCHANGED sources

\* Fault: one advance before the attempt and one after.
Fault_advance_source_twice(g) ==
  sources' = [sources EXCEPT ![g] = Advanced(Advanced(@))]

advance_to_next_source(g) == sources' = [sources EXCEPT ![g] = Advanced(@)]

\* One turn of the while: advance first, count the attempt, then call
\* do_one_event on the source that was current.
group_turn ==
  /\ Running("group")
  /\ group_no_request_to_leave(Self)
  /\ sources[Self] # <<>>
  /\ watermark_not_reached
  /\ advance_to_next_source(Self)
  /\ stack' = <<SourceFrame(Head(sources[Self]), "entered"),
                GroupFrame(Self, Head(stack).attempts + 1)>> \o Tail(stack)
  /\ UNCHANGED <<groups, flags, settings>>

group_is_over ==
  \/ ~group_no_request_to_leave(Self)
  \/ sources[Self] = <<>>
  \/ ~watermark_not_reached

\* Fault: a group that was asked to leave withdraws the request of its loop.
Fault_group_return_clears_loop ==
  /\ Running("group") /\ group_is_over
  /\ group_leave' = [group_leave EXCEPT ![Self] = FALSE]
  /\ loop_leave' = [l \in Loops |-> loop_leave[l] /\ l \notin LoopsOf(Self)]
  /\ Pop
  /\ UNCHANGED <<queues, settings>>

group_return ==
  /\ Running("group") /\ group_is_over
  /\ group_leave' = [group_leave EXCEPT ![Self] = FALSE]
  /\ Pop
  /\ UNCHANGED <<queues, loop_leave, settings>>

(***************************************************************************)
(* ccevents_source_do_one_event.                                           *)
(***************************************************************************)

At(place) == Running("source") /\ Head(stack).at = place

Goto(place) ==
  /\ Become(SourceFrame(Self, place))
  /\ UNCHANGED <<queues, flags, settings>>

\* A call from the program itself, outside of any group.
do_one_event(s) ==
  /\ Push(SourceFrame(s, "entered"))
  /\ UNCHANGED <<queues, flags, settings>>

is_disabled == At("entered") /\ ~enabled[Self] /\ Goto("unwinding")

is_expired ==
  /\ At("entered") /\ enabled[Self]
  /\ expiration[Self] = "past"
  /\ Goto("expiration_handler")

\* Fault: an expired source is still asked for events.
Fault_query_expired == At("entered") /\ enabled[Self] /\ Goto("inquirer")

query ==
  /\ At("entered") /\ enabled[Self]
  /\ expiration[Self] # "past"
  /\ Goto("inquirer")

\* The inquirer decides freely: it may be a select(2), the test of a signal
\* flag, the constant of a timer source, or a function of the program.
found_event == At("inquirer") /\ Goto("event_handler")

found_no_event == At("inquirer") /\ Goto("unwinding")

\* Fault: a source is good for one event, then it is disabled.
Fault_handled_disables ==
  /\ At("event_handler") \/ At("expiration_handler")
  /\ enabled' = [enabled EXCEPT ![Self] = FALSE]
  /\ Become(SourceFrame(Self, "unwinding"))
  /\ UNCHANGED <<queues, flags, expiration, finalised>>

handled == (At("event_handler") \/ At("expiration_handler")) /\ Goto("unwinding")

\* Fault: the exception loses the count of attempts, as it may if the counter
\* is not volatile.
Fault_raise_loses_count ==
  /\ \E place \in ClientCode \ {"unwinding"} : At(place)
  /\ stack' = <<SourceFrame(Self, "unwinding")>> \o
               [i \in 1..(Len(stack) - 1) |-> [stack[i + 1] EXCEPT !.attempts = 0]]
  /\ UNCHANGED <<queues, flags, settings>>

\* A callback raises an exception: control goes to the location of the frame
\* below, whose error handlers are then run.
raise == (\E place \in ClientCode \ {"unwinding"} : At(place)) /\ Goto("unwinding")

\* The cleanup or error handlers are done, the caller of do_one_event goes on.
unwound ==
  /\ At("unwinding")
  /\ Pop
  /\ UNCHANGED <<queues, flags, settings>>

CallbackEnds == found_event \/ found_no_event \/ handled \/ raise \/ unwound

LibraryStep ==
  \/ loop_turn \/ loop_return
  \/ group_turn \/ group_return
  \/ is_disabled \/ is_expired \/ query

(***************************************************************************)
(* The operations of the program on queues.  The source does not check     *)
(* that an enqueued object is not yet in a queue, nor that a source is     *)
(* initialised: the program must.                                          *)
(***************************************************************************)

group_enqueue_source(g, s) ==
  /\ GroupsOf(s) = {} /\ s \notin finalised
  /\ sources' = [sources EXCEPT ![g] = Enqueued(@, s)]
  /\ UNCHANGED <<groups, flags, settings, stack>>

\* Takes the current source; the group must not be empty (ccevents.h:876-883
\* follows the pointer to the current source without a test).
group_dequeue_source(g) ==
  /\ sources[g] # <<>>
  /\ sources' = [sources EXCEPT ![g] = Dequeued(@)]
  /\ UNCHANGED <<groups, flags, settings, stack>>

source_dequeue_itself(s) ==
  /\ sources' = [g \in Groups |-> Without(sources[g], s)]
  /\ UNCHANGED <<groups, flags, settings, stack>>

loop_enqueue_group(l, g) ==
  /\ LoopsOf(g) = {}
  /\ groups' = [groups EXCEPT ![l] = Enqueued(@, g)]
  /\ UNCHANGED <<sources, flags, settings, stack>>

loop_dequeue_group(l) ==
  /\ groups' = [groups EXCEPT ![l] = Dequeued(@)]
  /\ UNCHANGED <<sources, flags, settings, stack>>

group_dequeue_itself(g) ==
  /\ groups' = [l \in Loops |-> Without(groups[l], g)]
  /\ UNCHANGED <<sources, flags, settings, stack>>

(***************************************************************************)
(* Finalisation: every source still in the group is taken out of it and    *)
(* given to its final method; a loop takes out every group and finalises   *)
(* it.                                                                     *)
(***************************************************************************)

source_final(S) == finalised' = finalised \cup S

\* Fault: the sources are finalised where they are.
Fault_group_final_keeps_queue(g) ==
  /\ source_final(Members(sources[g]))
  /\ UNCHANGED <<queues, flags, enabled, expiration, stack>>

\* Fault: the group itself is given to ccevents_source_final.
Fault_group_final_of_group(g) ==
  /\ sources' = [sources EXCEPT ![g] = <<>>]
  /\ source_final({g})
  /\ UNCHANGED <<groups, flags, enabled, expiration, stack>>

group_final(g) ==
  /\ sources' = [sources EXCEPT ![g] = <<>>]
  /\ source_final(Members(sources[g]))
  /\ UNCHANGED <<groups, flags, enabled, expiration, stack>>

loop_final(l) ==
  LET taken == Members(groups[l])
  IN /\ groups' = [groups EXCEPT ![l] = <<>>]
     /\ sources' = [g \in Groups |-> IF g \in taken THEN <<>> ELSE sources[g]]
     /\ source_final(UNION {Members(sources[g]) : g \in taken})
     /\ UNCHANGED <<flags, enabled, expiration, stack>>

\* The program gives a source to its final method, which may release it.  Its
\* own event handler may do so, its inquirer may not: the code goes on with it.
IsInquired(s) ==
  \E i \in DOMAIN stack :
    /\ stack[i].proc = "source" /\ stack[i].obj = s
    /\ stack[i].at \in {"entered", "inquirer"}

release(s) ==
  /\ GroupsOf(s) = {} /\ ~IsInquired(s)
  /\ source_final({s})
  /\ UNCHANGED <<queues, flags, enabled, expiration, stack>>

(***************************************************************************)
(* Operations on flags and on the settings of sources.  A source that was  *)
(* finalised may be released memory: only source_init is applied to it.    *)
(***************************************************************************)

group_post_request_to_leave(g) ==
  /\ group_leave' = [group_leave EXCEPT ![g] = TRUE]
  /\ UNCHANGED <<queues, loop_leave, settings, stack>>

loop_post_request_to_leave(l) ==
  /\ loop_leave' = [loop_leave EXCEPT ![l] = TRUE]
  /\ UNCHANGED <<queues, group_leave, settings, stack>>

source_set_servicing(s, on) ==
  /\ s \notin finalised
  /\ enabled' = [enabled EXCEPT ![s] = on]
  /\ UNCHANGED <<queues, flags, expiration, finalised, stack>>

source_set_timeout(s, time) ==
  /\ s \notin finalised
  /\ expiration' = [expiration EXCEPT ![s] = time]
  /\ UNCHANGED <<queues, flags, enabled, finalised, stack>>

\* Applied to a source that is in no queue; makes a finalised one usable again.
source_init(s) ==
  /\ GroupsOf(s) = {}
  /\ expiration' = [expiration EXCEPT ![s] = "never"]
  /\ enabled' = [enabled EXCEPT ![s] = TRUE]
  /\ finalised' = finalised \ {s}
  /\ UNCHANGED <<queues, flags, stack>>

\* The clock passes the expiration time of s.
clock_passes(s) ==
  /\ expiration[s] = "future"
  /\ source_set_timeout(s, "past")

(***************************************************************************)
(* The specification.                                                      *)
(***************************************************************************)

Uses(op) == op \in Ops

QueueOp ==
  \/ \E g \in Groups, s \in Sources :
       Uses("enqueue_source") /\ group_enqueue_source(g, s)
  \/ \E g \in Groups : Uses("dequeue_source") /\ group_dequeue_source(g)
  \/ \E s \in Sources : Uses("source_dequeue_itself") /\ source_dequeue_itself(s)
  \/ \E l \in Loops, g \in Groups : Uses("enqueue_group") /\ loop_enqueue_group(l, g)
  \/ \E l \in Loops : Uses("dequeue_group") /\ loop_dequeue_group(l)
  \/ \E g \in Groups : Uses("group_dequeue_itself") /\ group_dequeue_itself(g)

FinalOp ==
  \/ \E g \in Groups : Uses("group_final") /\ group_final(g)
  \/ \E l \in Loops : Uses("loop_final") /\ loop_final(l)
  \/ \E s \in Sources : Uses("source_init") /\ source_init(s)
  \/ \E s \in Sources : Uses("source_final") /\ release(s)

SettingOp ==
  \/ \E g \in Groups : Uses("post_group_leave") /\ group_post_request_to_leave(g)
  \/ \E l \in Loops : Uses("post_loop_leave") /\ loop_post_request_to_leave(l)
  \/ \E s \in Sources : Uses("enable") /\ source_set_servicing(s, TRUE)
  \/ \E s \in Sources : Uses("disable") /\ source_set_servicing(s, FALSE)
  \/ \E s \in Sources, time \in Times :
       Uses("set_timeout") /\ source_set_timeout(s, time)

\* In a callback these are nested calls.
EnterOp ==
  /\ Len(stack) < MaxDepth
  /\ \/ \E l \in Loops : Uses("loop_enter") /\ loop_enter(l)
     \/ \E g \in Groups : Uses("group_enter") /\ group_enter(g)
     \/ \E s \in Sources : Uses("do_one_event") /\ do_one_event(s)

ClientStep == ClientRuns /\ (QueueOp \/ FinalOp \/ SettingOp \/ EnterOp)

Clock == \E s \in Sources : clock_passes(s)

Next == LibraryStep \/ CallbackEnds \/ ClientStep \/ Clock

Spec == Init /\ [][Next]_vars

\* The library does not pause by itself, and callbacks return.
FairSpec == Spec /\ WF_vars(LibraryStep) /\ WF_vars(CallbackEnds)

(***************************************************************************)
(* Safety.                                                                 *)
(***************************************************************************)

TypeOK ==
  /\ groups \in [Loops -> Seq(Groups)]
  /\ loop_leave \in [Loops -> BOOLEAN]
  /\ sources \in [Groups -> Seq(Sources)]
  /\ group_leave \in [Groups -> BOOLEAN]
  /\ enabled \in [Sources -> BOOLEAN]
  /\ expiration \in [Sources -> Times]
  /\ finalised \subseteq Sources
  /\ stack \in Seq(Frames)

\* A call of ccevents_group_enter never makes more attempts than the group's
\* watermark, whatever the callbacks do to the group, to its other calls on
\* the stack and however they end (groups.c:108-131: the counter is volatile
\* because an exception jumps back into the loop body).
AttemptsWithinWatermark ==
  \A i \in DOMAIN stack :
    stack[i].proc = "group" => stack[i].attempts <= Watermark[stack[i].obj]

\* A source that was finalised is in no group and is not attempted: the
\* finalisers of groups and loops take every source out of its queue before
\* they give it to its final method, which may release it (groups.c:91-97,
\* loops.c:68-74).
FinalisedIsGone ==
  \A s \in finalised :
    /\ GroupsOf(s) = {}
    /\ ~(At("entered") /\ Self = s /\ Len(stack) > 1 /\ stack[2].proc = "group")

\* A request posted to a loop or group that runs is withdrawn only by a call
\* for that very loop or group that returns or, nested, starts: no turn, no
\* other group and no callback of another source withdraws it (groups.c:106 and
\* 135, loops.c:79 and 95 write the flags).  As long as calls for one object are
\* not nested, the request stands until the call it is meant for returns.
RequestStands ==
  [][/\ \A l \in Loops : OnStack("loop", l) /\ loop_leave[l] =>
          loop_leave'[l] \/ Calls("loop", l)' # Calls("loop", l)
     /\ \A g \in Groups : OnStack("group", g) /\ group_leave[g] =>
          group_leave'[g] \/ Calls("group", g)' # Calls("group", g)
    ]_vars

(***************************************************************************)
(* Liveness, under FairSpec, for programs that do not nest calls.          *)
(***************************************************************************)

\* A loop that a request was posted to is left, even when the callbacks move
\* or dequeue the groups it is running meanwhile: "the right way to exit"
\* (ccevents.texi on ccevents_loop_enter).
LoopIsLeft ==
  \A l \in Loops : (OnStack("loop", l) /\ loop_leave[l]) ~> ~OnStack("loop", l)

\* Every call of ccevents_group_enter returns, so that no group keeps the loop
\* from the groups after it, even if its sources are always ready, fail always
\* or are enqueued again and again: the watermark bounds the call.
GroupIsLeft == \A g \in Groups : OnStack("group", g) ~> ~OnStack("group", g)

Attempted(s) == At("entered") /\ Self = s

Served(l, g, s) ==
  /\ OnStack("loop", l)
  /\ g \in Members(groups[l])
  /\ s \in Members(sources[g])

\* No source starves: while a loop runs, a source that stays in a group that
\* stays in the loop is attempted again and again, whether the other sources
\* of the loop are ready, fail, are dequeued or leave their group early.  For
\* programs that enqueue nothing while the loop runs: enqueuing makes a node
\* the current one, and it may be repeated.
NoStarvation ==
  \A l \in Loops, g \in Groups, s \in Sources :
    <>[]Served(l, g, s) => []<>Attempted(s)

\* A timeout is not missed: the expiration handler of a source whose time is
\* past runs again and again while the source is served and enabled, until the
\* program sets another time (sources-base.c:161-164 never resets it).  In
\* particular ready events of the same source do not keep it from running.
TimeoutIsHandled ==
  \A l \in Loops, g \in Groups, s \in Sources :
    <>[](Served(l, g, s) /\ enabled[s] /\ expiration[s] = "past")
      => []<>(At("expiration_handler") /\ Self = s)
=============================================================================
