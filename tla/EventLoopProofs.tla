-------------------------- MODULE EventLoopProofs --------------------------
(***************************************************************************)
(* Invariants of module EventLoop for any loops, groups, sources and       *)
(* watermarks, any set of operations used by the program and any depth of  *)
(* nested calls.                                                           *)
(***************************************************************************)
EXTENDS EventLoop, RingOpsProofs

(***************************************************************************)
(* The inductive invariant.  The two properties need to know that only the *)
(* innermost frame can be at the start of do_one_event: a frame that comes *)
(* back to the top when the frames above it are popped is past that point. *)
(***************************************************************************)

BelowTop == \A i \in 2..Len(stack) : stack[i].at # "entered"

\* A source is in one group at a time and in none when it was finalised.  The
\* first half keeps the second one: the finaliser of a group would leave its
\* sources in the queues of other groups.
QueuesOK ==
  /\ \A g, h \in Groups : g # h => Members(sources[g]) \cap Members(sources[h]) = {}
  /\ \A g \in Groups : Members(sources[g]) \cap finalised = {}

AttemptIsLive ==
  At("entered") /\ Len(stack) > 1 /\ stack[2].proc = "group" => Self \notin finalised

IInv ==
  TypeOK /\ AttemptsWithinWatermark /\ BelowTop /\ QueuesOK /\ AttemptIsLive

LEMMA IInvImplies == IInv => FinalisedIsGone
  BY DEF IInv, FinalisedIsGone, QueuesOK, GroupsOf, AttemptIsLive

LEMMA FramesShape ==
  /\ \A l \in Loops : LoopFrame(l) \in Frames
  /\ \A g \in Groups, n \in Nat : GroupFrame(g, n) \in Frames
  /\ \A s \in Sources, at \in ClientCode \cup {"entered"} : SourceFrame(s, at) \in Frames
  /\ \A f \in Frames : /\ f.at \in ClientCode \cup {"entered"} => f.proc = "source" /\ f.obj \in Sources
                       /\ f.proc = "source" => f.obj \in Sources /\ f.at \in ClientCode \cup {"entered"}
                       /\ f.proc = "group" => f.obj \in Groups /\ f.attempts \in Nat /\ f.at = "while"
                       /\ f.proc = "loop" => f.obj \in Loops /\ f.at = "while"
BY DEF Frames, LoopFrame, GroupFrame, SourceFrame, ClientCode

(***************************************************************************)
(* The three ways the stack changes.                                       *)
(***************************************************************************)

StackOK == stack \in Seq(Frames) /\ AttemptsWithinWatermark /\ BelowTop

\* A call.  The caller is not at the start of do_one_event.
LEMMA PushKeeps ==
  ASSUME StackOK, NEW f \in Frames, Push(f),
         stack # <<>> => Head(stack).at # "entered",
         f.proc = "group" => f.attempts <= Watermark[f.obj]
  PROVE  /\ StackOK'
         /\ Len(stack') = Len(stack) + 1 /\ stack'[1] = f
         /\ Len(stack) > 0 => stack'[2] = Head(stack)
<1>1. stack' \in Seq(Frames) /\ Len(stack') = Len(stack) + 1
      /\ stack'[1] = f /\ \A i \in 1..Len(stack) : stack'[i + 1] = stack[i]
  BY DEF StackOK, Push
<1>2. \A i \in 2..Len(stack') : i - 1 \in DOMAIN stack /\ stack'[i] = stack[i - 1]
  BY <1>1 DEF StackOK
<1>3. AttemptsWithinWatermark'
  BY <1>1, <1>2 DEF StackOK, AttemptsWithinWatermark
<1>4. BelowTop'
  <2>. SUFFICES ASSUME NEW i \in 2..Len(stack') PROVE stack'[i].at # "entered"
    BY DEF BelowTop
  <2>1. CASE i = 2
    BY <2>1, <1>2 DEF StackOK
  <2>2. CASE i # 2
    BY <2>2, <1>1, <1>2 DEF StackOK, BelowTop
  <2>. QED
    BY <2>1, <2>2
<1>5. Len(stack) > 0 => stack'[2] = Head(stack)
  BY <1>1 DEF StackOK
<1>. QED
  BY <1>1, <1>3, <1>4, <1>5 DEF StackOK

\* A return.
LEMMA PopKeeps ==
  ASSUME StackOK, stack # <<>>, Pop
  PROVE  /\ StackOK'
         /\ stack' # <<>> => Head(stack').at # "entered"
<1>1. stack' \in Seq(Frames) /\ Len(stack') = Len(stack) - 1
      /\ \A i \in 1..Len(stack') : i + 1 \in 2..Len(stack) /\ stack'[i] = stack[i + 1]
  BY DEF StackOK, Pop
<1>2. stack \in Seq(Frames) /\ 2..Len(stack) \subseteq DOMAIN stack
  BY DEF StackOK
<1>3. AttemptsWithinWatermark'
  <2>. SUFFICES ASSUME NEW i \in 1..Len(stack'), stack'[i].proc = "group"
                PROVE  stack'[i].attempts <= Watermark[stack'[i].obj]
    BY <1>1 DEF AttemptsWithinWatermark
  <2>1. i + 1 \in DOMAIN stack /\ stack'[i] = stack[i + 1]
    BY <1>1, <1>2
  <2>. QED
    BY <2>1 DEF StackOK, AttemptsWithinWatermark
<1>4. \A i \in 1..Len(stack') : stack'[i].at # "entered"
  BY <1>1 DEF StackOK, BelowTop
<1>5. BelowTop'
  BY <1>1, <1>4 DEF BelowTop
<1>6. stack' # <<>> => Head(stack').at # "entered"
  BY <1>1, <1>4
<1>. QED
  BY <1>1, <1>3, <1>5, <1>6 DEF StackOK

\* do_one_event goes on in the same frame.
LEMMA BecomeKeeps ==
  ASSUME StackOK, stack # <<>>, NEW f \in Frames, Become(f), f.proc = "source"
  PROVE  StackOK' /\ stack' # <<>> /\ Head(stack') = f
<1>1. stack' \in Seq(Frames) /\ Len(stack') = Len(stack) /\ stack'[1] = f
      /\ \A i \in 2..Len(stack') : stack'[i] = stack[i]
  BY DEF StackOK, Become
<1>2. AttemptsWithinWatermark' /\ BelowTop'
  BY <1>1 DEF StackOK, AttemptsWithinWatermark, BelowTop
<1>. QED
  BY <1>1, <1>2 DEF StackOK

(***************************************************************************)
(* Steps of one kind.                                                      *)
(***************************************************************************)

\* The types of everything but the stack.
DataOK ==
  /\ groups \in [Loops -> Seq(Groups)]
  /\ loop_leave \in [Loops -> BOOLEAN]
  /\ sources \in [Groups -> Seq(Sources)]
  /\ group_leave \in [Groups -> BOOLEAN]
  /\ enabled \in [Sources -> BOOLEAN]
  /\ expiration \in [Sources -> Times]
  /\ finalised \subseteq Sources

LEMMA IInvParts == IInv <=> DataOK /\ StackOK /\ QueuesOK /\ AttemptIsLive
  BY DEF IInv, TypeOK, DataOK, StackOK

LEMMA IInvNext ==
  ASSUME DataOK', StackOK', QueuesOK', AttemptIsLive'
  PROVE  IInv'
  BY DEF IInv, TypeOK, DataOK, StackOK

\* The program does something to the data: no attempt is about to begin.
LEMMA ClientKeeps ==
  ASSUME IInv, ClientRuns, UNCHANGED stack, DataOK', QueuesOK'
  PROVE  IInv'
<1>1. ~At("entered")'
  BY DEF ClientRuns, ClientCode, At, Running
<1>2. StackOK'
  BY IInvParts DEF StackOK, AttemptsWithinWatermark, BelowTop
<1>3. AttemptIsLive'
  BY <1>1 DEF AttemptIsLive
<1>. QED
  BY <1>2, <1>3, IInvNext

\* Queues lose nodes and nothing is finalised.
LEMMA ShrinkKeepsQueues ==
  ASSUME QueuesOK, finalised' \subseteq finalised,
         \A g \in Groups : Members(sources'[g]) \subseteq Members(sources[g])
  PROVE  QueuesOK'
<1>1. \A g \in Groups : Members(sources'[g]) \cap finalised' = {}
  BY DEF QueuesOK
<1>2. \A g, h \in Groups : g # h => Members(sources'[g]) \cap Members(sources'[h]) = {}
  BY DEF QueuesOK
<1>. QED
  BY <1>1, <1>2 DEF QueuesOK

LEMMA QueueOpKeeps ==
  ASSUME IInv, ClientRuns, QueueOp
  PROVE  IInv'
<1>. USE IInvParts
<1>1. ASSUME NEW g \in Groups, NEW s \in Sources, group_enqueue_source(g, s)
      PROVE  IInv'
  <2>. DEFINE queue == sources[g]
  <2>1. queue \in Seq(Sources)
    BY DEF DataOK
  <2>2. Enqueued(queue, s) \in Seq(Sources)
        /\ Members(Enqueued(queue, s)) = Members(queue) \cup {s}
    BY <2>1, EnqueuedMembers
  <2>. HIDE DEF queue
  <2>3. sources' = [sources EXCEPT ![g] = Enqueued(queue, s)]
    BY <1>1 DEF group_enqueue_source, queue
  <2>4. DataOK'
    BY <1>1, <2>2, <2>3 DEF group_enqueue_source, DataOK, flags, settings
  <2>5. \A h \in Groups :
          Members(sources'[h]) = Members(sources[h]) \cup IF h = g THEN {s} ELSE {}
    BY <2>2, <2>3 DEF DataOK, queue
  <2>6. finalised' = finalised /\ s \notin finalised
        /\ \A h \in Groups : s \notin Members(sources[h])
    BY <1>1 DEF group_enqueue_source, settings, GroupsOf
  <2>7. QueuesOK'
    <3>1. \A h \in Groups : Members(sources'[h]) \cap finalised' = {}
      BY <2>5, <2>6 DEF QueuesOK
    <3>2. \A h, k \in Groups : h # k => Members(sources'[h]) \cap Members(sources'[k]) = {}
      BY <2>5, <2>6 DEF QueuesOK
    <3>. QED
      BY <3>1, <3>2 DEF QueuesOK
  <2>. QED
    BY <1>1, <2>4, <2>7, ClientKeeps DEF group_enqueue_source
<1>2. ASSUME NEW g \in Groups, group_dequeue_source(g)
      PROVE  IInv'
  <2>. DEFINE rest == Dequeued(sources[g])
  <2>1. rest \in Seq(Sources) /\ Members(rest) \subseteq Members(sources[g])
    BY DequeuedMembers DEF DataOK
  <2>. HIDE DEF rest
  <2>2. sources' = [sources EXCEPT ![g] = rest]
    BY <1>2 DEF group_dequeue_source, rest
  <2>3. \A h \in Groups : sources'[h] = IF h = g THEN rest ELSE sources[h]
    BY <2>2 DEF DataOK
  <2>4. DataOK'
    BY <1>2, <2>1, <2>2 DEF group_dequeue_source, DataOK, flags, settings
  <2>5. QueuesOK'
    BY <1>2, <2>1, <2>3, ShrinkKeepsQueues DEF group_dequeue_source, settings
  <2>. QED
    BY <1>2, <2>4, <2>5, ClientKeeps DEF group_dequeue_source
<1>3. ASSUME NEW s \in Sources, source_dequeue_itself(s)
      PROVE  IInv'
  <2>1. \A g \in Groups : /\ Without(sources[g], s) \in Seq(Sources)
                          /\ Members(Without(sources[g], s)) \subseteq Members(sources[g])
    BY WithoutMembers DEF DataOK
  <2>2. \A g \in Groups : sources'[g] = Without(sources[g], s)
    BY <1>3 DEF source_dequeue_itself
  <2>3. DataOK'
    BY <1>3, <2>1 DEF source_dequeue_itself, DataOK, flags, settings
  <2>4. QueuesOK'
    BY <1>3, <2>1, <2>2, ShrinkKeepsQueues DEF source_dequeue_itself, settings
  <2>. QED
    BY <1>3, <2>3, <2>4, ClientKeeps DEF source_dequeue_itself
<1>4. ASSUME NEW l \in Loops, NEW g \in Groups, loop_enqueue_group(l, g)
      PROVE  IInv'
  <2>. DEFINE longer == Enqueued(groups[l], g)
  <2>1. longer \in Seq(Groups)
    BY EnqueuedMembers DEF DataOK
  <2>. HIDE DEF longer
  <2>2. groups' = [groups EXCEPT ![l] = longer]
    BY <1>4 DEF loop_enqueue_group, longer
  <2>3. DataOK' /\ QueuesOK'
    BY <1>4, <2>1, <2>2
    DEF loop_enqueue_group, DataOK, QueuesOK, flags, settings
  <2>. QED
    BY <1>4, <2>3, ClientKeeps DEF loop_enqueue_group
<1>5. ASSUME NEW l \in Loops, loop_dequeue_group(l)
      PROVE  IInv'
  <2>. DEFINE rest == Dequeued(groups[l])
  <2>1. rest \in Seq(Groups)
    BY DequeuedMembers DEF DataOK
  <2>. HIDE DEF rest
  <2>2. groups' = [groups EXCEPT ![l] = rest]
    BY <1>5 DEF loop_dequeue_group, rest
  <2>3. DataOK' /\ QueuesOK'
    BY <1>5, <2>1, <2>2
    DEF loop_dequeue_group, DataOK, QueuesOK, flags, settings
  <2>. QED
    BY <1>5, <2>3, ClientKeeps DEF loop_dequeue_group
<1>6. ASSUME NEW g \in Groups, group_dequeue_itself(g)
      PROVE  IInv'
  <2>1. \A l \in Loops : Without(groups[l], g) \in Seq(Groups)
    BY WithoutMembers DEF DataOK
  <2>2. DataOK' /\ QueuesOK'
    BY <1>6, <2>1
    DEF group_dequeue_itself, DataOK, QueuesOK, flags, settings
  <2>. QED
    BY <1>6, <2>2, ClientKeeps DEF group_dequeue_itself
<1>. QED
  BY <1>1, <1>2, <1>3, <1>4, <1>5, <1>6 DEF QueueOp

LEMMA FinalOpKeeps ==
  ASSUME IInv, ClientRuns, FinalOp
  PROVE  IInv'
<1>. USE IInvParts
<1>e. Members(<<>>) = {} /\ <<>> \in Seq(Sources) /\ <<>> \in Seq(Groups)
  BY DEF Members
<1>m. \A g \in Groups : Members(sources[g]) \subseteq Sources
  BY DEF Members, DataOK
<1>1. ASSUME NEW g \in Groups, group_final(g)
      PROVE  IInv'
  <2>1. DataOK'
    BY <1>1, <1>e, <1>m DEF group_final, source_final, DataOK, flags
  <2>2. \A h \in Groups : sources'[h] = IF h = g THEN <<>> ELSE sources[h]
    BY <1>1 DEF group_final, DataOK
  <2>3. finalised' = finalised \cup Members(sources[g])
    BY <1>1 DEF group_final, source_final
  <2>4. \A h \in Groups : Members(sources'[h]) = IF h = g THEN {} ELSE Members(sources[h])
    BY <1>e, <2>2
  <2>5. \A h \in Groups : Members(sources'[h]) \cap finalised' = {}
    BY <2>3, <2>4 DEF QueuesOK
  <2>6. \A h, k \in Groups : h # k => Members(sources'[h]) \cap Members(sources'[k]) = {}
    BY <2>4 DEF QueuesOK
  <2>7. QueuesOK'
    BY <2>5, <2>6 DEF QueuesOK
  <2>. QED
    BY <1>1, <2>1, <2>7, ClientKeeps DEF group_final
<1>2. ASSUME NEW l \in Loops, loop_final(l)
      PROVE  IInv'
  <2>. DEFINE taken == Members(groups[l])
              gone == UNION {Members(sources[h]) : h \in taken}
  <2>1. taken \subseteq Groups
    BY DEF Members, DataOK
  <2>. HIDE DEF taken
  <2>2. gone \subseteq Sources
    BY <2>1, <1>m
  <2>. HIDE DEF gone
  <2>3. /\ groups' = [groups EXCEPT ![l] = <<>>]
        /\ sources' = [g \in Groups |-> IF g \in taken THEN <<>> ELSE sources[g]]
        /\ finalised' = finalised \cup gone
        /\ UNCHANGED <<flags, enabled, expiration, stack>>
    BY <1>2 DEF loop_final, source_final, taken, gone
  <2>4. DataOK'
    BY <1>e, <2>2, <2>3 DEF DataOK, flags
  <2>5. \A h \in Groups :
          Members(sources'[h]) = IF h \in taken THEN {} ELSE Members(sources[h])
    BY <1>e, <2>3
  <2>6. \A h \in Groups : h \notin taken => Members(sources[h]) \cap gone = {}
    BY <2>1 DEF QueuesOK, gone
  <2>7. \A h \in Groups : Members(sources'[h]) \cap finalised' = {}
    BY <2>3, <2>5, <2>6 DEF QueuesOK
  <2>8. \A h, k \in Groups : h # k => Members(sources'[h]) \cap Members(sources'[k]) = {}
    BY <2>5 DEF QueuesOK
  <2>9. QueuesOK'
    BY <2>7, <2>8 DEF QueuesOK
  <2>. QED
    BY <2>3, <2>4, <2>9, ClientKeeps
<1>3. ASSUME NEW s \in Sources, source_init(s)
      PROVE  IInv'
  <2>1. DataOK'
    BY <1>3 DEF source_init, DataOK, queues, flags, Times
  <2>2. QueuesOK'
    BY <1>3, ShrinkKeepsQueues DEF source_init, queues
  <2>. QED
    BY <1>3, <2>1, <2>2, ClientKeeps DEF source_init
<1>4. ASSUME NEW s \in Sources, release(s)
      PROVE  IInv'
  <2>1. \A g \in Groups : s \notin Members(sources[g])
    BY <1>4 DEF release, GroupsOf
  <2>2. /\ sources' = sources /\ finalised' = finalised \cup {s}
        /\ UNCHANGED <<queues, flags, enabled, expiration, stack>>
    BY <1>4 DEF release, source_final, queues
  <2>3. DataOK'
    BY <2>2 DEF DataOK, queues, flags
  <2>4. QueuesOK'
    BY <2>1, <2>2 DEF QueuesOK
  <2>. QED
    BY <2>2, <2>3, <2>4, ClientKeeps
<1>. QED
  BY <1>1, <1>2, <1>3, <1>4 DEF FinalOp

LEMMA SettingOpKeeps ==
  ASSUME IInv, ClientRuns, SettingOp
  PROVE  IInv'
<1>. USE IInvParts
<1>1. UNCHANGED <<queues, finalised, stack>> /\ DataOK'
  <2>1. ASSUME NEW g \in Groups, group_post_request_to_leave(g)
        PROVE  UNCHANGED <<queues, finalised, stack>> /\ DataOK'
    BY <2>1 DEF group_post_request_to_leave, DataOK, queues, settings
  <2>2. ASSUME NEW l \in Loops, loop_post_request_to_leave(l)
        PROVE  UNCHANGED <<queues, finalised, stack>> /\ DataOK'
    BY <2>2 DEF loop_post_request_to_leave, DataOK, queues, settings
  <2>3. ASSUME NEW s \in Sources, NEW on \in BOOLEAN, source_set_servicing(s, on)
        PROVE  UNCHANGED <<queues, finalised, stack>> /\ DataOK'
    BY <2>3 DEF source_set_servicing, DataOK, queues, flags
  <2>4. ASSUME NEW s \in Sources, NEW time \in Times, source_set_timeout(s, time)
        PROVE  UNCHANGED <<queues, finalised, stack>> /\ DataOK'
    BY <2>4 DEF source_set_timeout, DataOK, queues, flags
  <2>. QED
    BY <2>1, <2>2, <2>3, <2>4 DEF SettingOp
<1>2. QueuesOK'
  BY <1>1 DEF QueuesOK, queues
<1>. QED
  BY <1>1, <1>2, ClientKeeps

LEMMA EnterOpKeeps ==
  ASSUME IInv, ClientRuns, EnterOp
  PROVE  IInv'
<1>. USE IInvParts
<1>c. stack # <<>> => Head(stack).at # "entered" /\ Head(stack).proc = "source"
  <2>1. stack # <<>> => Head(stack) \in Frames
    BY DEF StackOK
  <2>. QED
    BY <2>1, FramesShape DEF ClientRuns, ClientCode
<1>1. ASSUME NEW f \in Frames, Push(f), f.proc = "group" => f.attempts <= Watermark[f.obj],
             UNCHANGED <<queues, finalised>>, DataOK'
      PROVE  IInv'
  <2>1. /\ StackOK' /\ Len(stack') = Len(stack) + 1
        /\ Len(stack) > 0 => stack'[2] = Head(stack)
    BY <1>1, <1>c, PushKeeps
  <2>2. QueuesOK'
    BY <1>1 DEF QueuesOK, queues
  <2>3. Len(stack') > 1 => stack'[2].proc = "source"
    BY <1>c, <2>1 DEF StackOK
  <2>4. AttemptIsLive'
    BY <2>3 DEF AttemptIsLive
  <2>. QED
    BY <1>1, <2>1, <2>2, <2>4, IInvNext
<1>2. ASSUME NEW l \in Loops, loop_enter(l)
      PROVE  IInv'
  <2>1. LoopFrame(l) \in Frames /\ LoopFrame(l).proc # "group"
    BY FramesShape DEF LoopFrame
  <2>2. DataOK'
    BY <1>2 DEF loop_enter, DataOK, queues, settings
  <2>. QED
    BY <1>1, <1>2, <2>1, <2>2 DEF loop_enter, settings
<1>3. ASSUME NEW g \in Groups, group_enter(g)
      PROVE  IInv'
  <2>1. GroupFrame(g, 0) \in Frames /\ GroupFrame(g, 0).attempts <= Watermark[GroupFrame(g, 0).obj]
    BY FramesShape, EventLoopAssumption DEF GroupFrame
  <2>2. DataOK'
    BY <1>3 DEF group_enter, DataOK, queues, settings
  <2>. QED
    BY <1>1, <1>3, <2>1, <2>2 DEF group_enter, settings
<1>4. ASSUME NEW s \in Sources, do_one_event(s)
      PROVE  IInv'
  <2>1. SourceFrame(s, "entered") \in Frames /\ SourceFrame(s, "entered").proc # "group"
    BY FramesShape DEF SourceFrame
  <2>2. DataOK'
    BY <1>4 DEF do_one_event, DataOK, queues, flags, settings
  <2>. QED
    BY <1>1, <1>4, <2>1, <2>2 DEF do_one_event, settings
<1>. QED
  BY <1>2, <1>3, <1>4 DEF EnterOp

LEMMA ClockKeeps ==
  ASSUME IInv, NEW s \in Sources, clock_passes(s)
  PROVE  IInv'
<1>. USE IInvParts
<1>1. DataOK'
  BY DEF clock_passes, source_set_timeout, DataOK, queues, flags, Times
<1>2. StackOK' /\ QueuesOK' /\ AttemptIsLive'
  BY DEF clock_passes, source_set_timeout, StackOK, AttemptsWithinWatermark, BelowTop, QueuesOK, AttemptIsLive,
         At, Running, Self, queues
<1>. QED
  BY <1>1, <1>2, IInvNext

(***************************************************************************)
(* The steps of the library and the ends of callbacks.                     *)
(***************************************************************************)

\* A function returns: the frame that comes to the top is past its start.
LEMMA ReturnKeeps ==
  ASSUME IInv, stack # <<>>, Pop, UNCHANGED <<queues, finalised>>, DataOK'
  PROVE  IInv'
<1>1. StackOK' /\ (stack' # <<>> => Head(stack').at # "entered")
  BY PopKeeps, IInvParts
<1>2. QueuesOK'
  BY IInvParts DEF QueuesOK, queues
<1>3. AttemptIsLive'
  BY <1>1 DEF AttemptIsLive, At, Running
<1>. QED
  BY <1>1, <1>2, <1>3, IInvNext

\* do_one_event goes on to a callback or to its end.
LEMMA GotoKeeps ==
  ASSUME IInv, stack # <<>>, Head(stack).proc = "source",
         NEW place \in ClientCode, Goto(place)
  PROVE  IInv'
<1>. USE IInvParts
<1>1. Self \in Sources
  <2>1. Head(stack) \in Frames
    BY DEF StackOK
  <2>. QED
    BY <2>1, FramesShape DEF Self
<1>2. SourceFrame(Self, place) \in Frames /\ SourceFrame(Self, place).proc = "source"
      /\ SourceFrame(Self, place).at # "entered"
  BY <1>1, FramesShape DEF SourceFrame, ClientCode
<1>3. Become(SourceFrame(Self, place)) /\ UNCHANGED <<queues, flags, settings>>
  BY DEF Goto
<1>4. StackOK' /\ stack' # <<>> /\ Head(stack') = SourceFrame(Self, place)
  BY <1>2, <1>3, BecomeKeeps
<1>5. AttemptIsLive'
  BY <1>2, <1>4 DEF AttemptIsLive, At, Running
<1>6. DataOK' /\ QueuesOK'
  BY <1>3 DEF DataOK, QueuesOK, queues, flags, settings
<1>. QED
  BY <1>4, <1>5, <1>6, IInvNext

LEMMA CallbackEndsKeeps ==
  ASSUME IInv, CallbackEnds
  PROVE  IInv'
<1>1. CASE unwound
  <2>1. stack # <<>> /\ Pop /\ UNCHANGED <<queues, flags, settings>>
    BY <1>1 DEF unwound, At, Running
  <2>2. DataOK'
    BY <2>1, IInvParts DEF DataOK, queues, flags, settings
  <2>. QED
    BY <2>1, <2>2, ReturnKeeps DEF settings
<1>2. CASE found_event \/ found_no_event \/ handled \/ raise
  BY <1>2, GotoKeeps
  DEF found_event, found_no_event, handled, raise, At, Running, ClientCode
<1>. QED
  BY <1>1, <1>2 DEF CallbackEnds

\* A frame that calls changes, and the call is on top of it.
LEMMA TwoOnTail ==
  ASSUME NEW S, NEW s \in Seq(S), s # <<>>, NEW a \in S, NEW b \in S,
         NEW t, t = <<a, b>> \o Tail(s)
  PROVE  /\ t \in Seq(S) /\ Len(t) = Len(s) + 1
         /\ t[1] = a /\ t[2] = b
         /\ \A i \in 3..Len(t) : i - 1 \in 2..Len(s) /\ t[i] = s[i - 1]
<1>. DEFINE rest == Tail(s)
            top == <<a, b>>
<1>1. /\ Len(s) \in Nat /\ rest \in Seq(S) /\ Len(rest) = Len(s) - 1
      /\ \A i \in 1..(Len(s) - 1) : rest[i] = s[i + 1]
  OBVIOUS
<1>2. top \in Seq(S) /\ Len(top) = 2 /\ top[1] = a /\ top[2] = b
  OBVIOUS
<1>. HIDE DEF rest, top
<1>3. t = top \o rest
  BY DEF rest, top
<1>4. t \in Seq(S) /\ Len(t) = Len(s) + 1
  BY <1>1, <1>2, <1>3
<1>5. t[1] = a /\ t[2] = b
  BY <1>1, <1>2, <1>3, <1>4
<1>6. ASSUME NEW i \in 3..Len(t)
      PROVE  i - 1 \in 2..Len(s) /\ t[i] = s[i - 1]
  <2>1. i \in Int /\ i - 1 \in 2..Len(s) /\ i - 2 \in 1..(Len(s) - 1)
    BY <1>1, <1>4
  <2>2. t[i] = rest[i - 2]
    BY <1>1, <1>2, <1>3, <2>1
  <2>3. rest[i - 2] = s[(i - 2) + 1]
    BY <1>1, <2>1
  <2>4. (i - 2) + 1 = i - 1
    BY <2>1
  <2>. QED
    BY <2>1, <2>2, <2>3, <2>4
<1>. QED
  BY <1>4, <1>5, <1>6

LEMMA LibraryStepKeeps ==
  ASSUME IInv, LibraryStep
  PROVE  IInv'
<1>. USE IInvParts
<1>t. stack # <<>> => Head(stack) \in Frames
  BY DEF StackOK
<1>1. CASE is_disabled \/ is_expired \/ query
  BY <1>1, GotoKeeps DEF is_disabled, is_expired, query, At, Running, ClientCode
<1>2. CASE loop_return
  <2>1. stack # <<>> /\ Pop /\ UNCHANGED <<queues, group_leave, settings>>
    BY <1>2 DEF loop_return, Running
  <2>2. DataOK'
    BY <1>2 DEF loop_return, DataOK, queues, settings
  <2>. QED
    BY <2>1, <2>2, ReturnKeeps DEF settings
<1>3. CASE group_return
  <2>1. stack # <<>> /\ Pop /\ UNCHANGED <<queues, loop_leave, settings>>
    BY <1>3 DEF group_return, Running
  <2>2. DataOK'
    BY <1>3 DEF group_return, DataOK, queues, settings
  <2>. QED
    BY <2>1, <2>2, ReturnKeeps DEF settings
<1>4. CASE loop_turn
  <2>. DEFINE grp == Head(groups[Self])
              turned == Advanced(groups[Self])
  <2>1. stack # <<>> /\ Self \in Loops /\ Head(stack).at # "entered"
    BY <1>4, <1>t, FramesShape DEF loop_turn, Running, Self
  <2>2. groups[Self] \in Seq(Groups) /\ groups[Self] # <<>>
    BY <1>4, <2>1 DEF loop_turn, DataOK
  <2>3. grp \in Groups /\ turned \in Seq(Groups)
    BY <2>2, AdvancedMembers
  <2>. HIDE DEF grp, turned
  <2>4. /\ groups' = [groups EXCEPT ![Self] = turned]
        /\ group_leave' = [group_leave EXCEPT ![grp] = FALSE]
        /\ Push(GroupFrame(grp, 0))
        /\ UNCHANGED <<sources, loop_leave, settings>>
    BY <1>4 DEF loop_turn, advance_to_next_group, grp, turned
  <2>5. DataOK'
    BY <2>3, <2>4 DEF DataOK, settings
  <2>6. /\ GroupFrame(grp, 0) \in Frames /\ GroupFrame(grp, 0).at = "while"
        /\ GroupFrame(grp, 0).attempts <= Watermark[GroupFrame(grp, 0).obj]
    BY <2>3, FramesShape, EventLoopAssumption DEF GroupFrame
  <2>7. StackOK' /\ Len(stack') > 0 /\ stack'[1] = GroupFrame(grp, 0)
    BY <2>1, <2>4, <2>6, PushKeeps DEF StackOK
  <2>8. AttemptIsLive'
    BY <2>6, <2>7 DEF AttemptIsLive, At, Running
  <2>9. QueuesOK'
    BY <2>4 DEF QueuesOK, settings
  <2>. QED
    BY <2>5, <2>7, <2>8, <2>9, IInvNext
<1>5. CASE group_turn
  <2>. DEFINE src == Head(sources[Self])
              turned == Advanced(sources[Self])
              inner == SourceFrame(src, "entered")
              outer == GroupFrame(Self, Head(stack).attempts + 1)
  <2>1. /\ stack # <<>> /\ Self \in Groups /\ Head(stack).attempts \in Nat
        /\ Head(stack).attempts < Watermark[Self] /\ Watermark[Self] \in Nat
    BY <1>5, <1>t, FramesShape, EventLoopAssumption
    DEF group_turn, watermark_not_reached, Running, Self
  <2>2. sources[Self] \in Seq(Sources) /\ sources[Self] # <<>>
    BY <1>5, <2>1 DEF group_turn, DataOK
  <2>3. src \in Sources /\ src \in Members(sources[Self])
        /\ turned \in Seq(Sources) /\ Members(turned) \subseteq Members(sources[Self])
    BY <2>2, AdvancedMembers DEF Members
  <2>. HIDE DEF src, turned
  <2>4. /\ sources' = [sources EXCEPT ![Self] = turned]
        /\ stack' = <<inner, outer>> \o Tail(stack)
        /\ UNCHANGED <<groups, flags, settings>>
    BY <1>5 DEF group_turn, advance_to_next_source, src, turned
  <2>5. DataOK'
    BY <2>1, <2>3, <2>4 DEF DataOK, flags, settings
  <2>6. inner \in Frames /\ outer \in Frames /\ inner.proc = "source" /\ inner.obj = src
        /\ outer.at = "while" /\ outer.obj = Self
        /\ outer.attempts = Head(stack).attempts + 1
    BY <2>1, <2>3, FramesShape DEF SourceFrame, GroupFrame
  <2>. HIDE DEF inner, outer
  <2>7. /\ stack' \in Seq(Frames) /\ Len(stack') = Len(stack) + 1
        /\ stack'[1] = inner /\ stack'[2] = outer
        /\ \A i \in 3..Len(stack') : i - 1 \in 2..Len(stack) /\ stack'[i] = stack[i - 1]
    <3>1. stack \in Seq(Frames) /\ stack # <<>>
      BY <2>1 DEF StackOK
    <3>. QED
      BY <2>4, <2>6, <3>1, TwoOnTail
  <2>8. AttemptsWithinWatermark'
    <3>1. outer.attempts <= Watermark[outer.obj]
      BY <2>1, <2>6
    <3>2. \A i \in 2..Len(stack) :
            stack[i].proc = "group" => stack[i].attempts <= Watermark[stack[i].obj]
      BY DEF StackOK, AttemptsWithinWatermark
    <3>. SUFFICES ASSUME NEW i \in 1..Len(stack'), stack'[i].proc = "group"
                  PROVE  stack'[i].attempts <= Watermark[stack'[i].obj]
      BY <2>7 DEF AttemptsWithinWatermark
    <3>3. i = 1 \/ i = 2 \/ i \in 3..Len(stack')
      BY <2>7
    <3>. QED
      BY <2>6, <2>7, <3>1, <3>2, <3>3
  <2>9. BelowTop'
    <3>1. \A i \in 2..Len(stack') : i = 2 \/ i \in 3..Len(stack')
      BY <2>7
    <3>. QED
      BY <2>6, <2>7, <3>1 DEF BelowTop, StackOK
  <2>10. QueuesOK'
    <3>1. \A h \in Groups : Members(sources'[h]) \subseteq Members(sources[h])
      BY <2>3, <2>4 DEF DataOK
    <3>. QED
      BY <2>4, <3>1, ShrinkKeepsQueues DEF settings
  <2>11. AttemptIsLive'
    <3>1. src \notin finalised'
      BY <2>1, <2>3, <2>4 DEF QueuesOK, settings
    <3>2. Self' = src
      BY <2>6, <2>7 DEF Self
    <3>. QED
      BY <3>1, <3>2 DEF AttemptIsLive
  <2>. QED
    BY <2>5, <2>7, <2>8, <2>9, <2>10, <2>11, IInvNext DEF StackOK
<1>. QED
  BY <1>1, <1>2, <1>3, <1>4, <1>5 DEF LibraryStep

(***************************************************************************)
(* The theorems.                                                           *)
(***************************************************************************)

LEMMA InitEstablishes == Init => IInv
<1>. SUFFICES ASSUME Init PROVE IInv
  OBVIOUS
<1>1. TypeOK
  BY EventLoopAssumption DEF Init, TypeOK, Times
<1>2. AttemptsWithinWatermark /\ BelowTop /\ AttemptIsLive
  BY DEF Init, AttemptsWithinWatermark, BelowTop, AttemptIsLive
<1>3. QueuesOK
  BY EventLoopAssumption DEF Init, QueuesOK
<1>. QED
  BY <1>1, <1>2, <1>3 DEF IInv

LEMMA StepKeeps == IInv /\ [Next]_vars => IInv'
<1>. SUFFICES ASSUME IInv, [Next]_vars PROVE IInv'
  OBVIOUS
<1>1. CASE LibraryStep
  BY <1>1, LibraryStepKeeps
<1>2. CASE CallbackEnds
  BY <1>2, CallbackEndsKeeps
<1>3. CASE ClientStep
  BY <1>3, QueueOpKeeps, FinalOpKeeps, SettingOpKeeps, EnterOpKeeps DEF ClientStep
<1>4. CASE Clock
  BY <1>4, ClockKeeps DEF Clock
<1>5. CASE UNCHANGED vars
  BY <1>5 DEF vars, queues, flags, settings, IInv, TypeOK, AttemptsWithinWatermark,
              BelowTop, QueuesOK, AttemptIsLive, At, Running, Self
<1>. QED
  BY <1>1, <1>2, <1>3, <1>4, <1>5 DEF Next

\* Every reachable state satisfies the inductive invariant.
THEOREM LoopInvariance == Spec => []IInv
  BY InitEstablishes, StepKeeps, PTL DEF Spec

\* Flags, queues and frames keep their types, whatever the callbacks do and
\* however deep calls of ccevents_loop_enter and ccevents_group_enter are nested.
THEOREM LoopTypeCorrect == Spec => []TypeOK
<1>1. IInv => TypeOK
  BY DEF IInv
<1>. QED
  BY <1>1, LoopInvariance, PTL

\* No call of ccevents_group_enter exceeds the group's watermark of servicing
\* attempts (groups.c:70-75, 108-131), for any watermark and depth of nesting.
THEOREM WatermarkCorrect == Spec => []AttemptsWithinWatermark
<1>1. IInv => AttemptsWithinWatermark
  BY DEF IInv
<1>. QED
  BY <1>1, LoopInvariance, PTL

\* A source that a finaliser of groups or loops was applied to is in no group
\* and no group begins an attempt on it (groups.c:91-97, loops.c:68-74).
THEOREM FinalisationCorrect == Spec => []FinalisedIsGone
  BY IInvImplies, LoopInvariance, PTL

(***************************************************************************)
(* Requests to leave.  A flag is reset only by a step that starts or ends  *)
(* a call for its object, and such a step changes the number of calls.     *)
(***************************************************************************)

LEMMA LoopFlagReset ==
  ASSUME [Next]_vars, NEW l \in Loops, loop_leave[l], loop_leave'[l] # TRUE,
         loop_leave \in [Loops -> BOOLEAN]
  PROVE  loop_enter(l) \/ (loop_return /\ Self = l)
<1>1. loop_leave' # loop_leave
  OBVIOUS
<1>2. CASE LibraryStep
  BY <1>1, <1>2
  DEF LibraryStep, loop_turn, loop_return, group_turn, group_return, is_disabled, is_expired,
      query, Goto, flags
<1>3. CASE CallbackEnds
  BY <1>1, <1>3
  DEF CallbackEnds, found_event, found_no_event, handled, raise, unwound, Goto, flags
<1>4. CASE ClientStep
  <2>1. ~QueueOp
    BY <1>1
    DEF QueueOp, group_enqueue_source, group_dequeue_source, source_dequeue_itself,
        loop_enqueue_group, loop_dequeue_group, group_dequeue_itself, flags
  <2>2. ~FinalOp
    BY <1>1 DEF FinalOp, group_final, loop_final, source_init, release, flags
  <2>3. ~SettingOp
    BY <1>1
    DEF SettingOp, group_post_request_to_leave, loop_post_request_to_leave,
        source_set_servicing, source_set_timeout, flags
  <2>4. CASE EnterOp
    BY <1>1, <2>4 DEF EnterOp, loop_enter, group_enter, do_one_event, flags
  <2>. QED
    BY <1>4, <2>1, <2>2, <2>3, <2>4 DEF ClientStep
<1>5. ~Clock /\ ~UNCHANGED vars
  BY <1>1 DEF Clock, clock_passes, source_set_timeout, vars, flags
<1>. QED
  BY <1>2, <1>3, <1>4, <1>5 DEF Next

LEMMA GroupFlagReset ==
  ASSUME [Next]_vars, NEW g \in Groups, group_leave[g], group_leave'[g] # TRUE,
         group_leave \in [Groups -> BOOLEAN]
  PROVE  Push(GroupFrame(g, 0)) \/ (group_return /\ Self = g)
<1>1. group_leave' # group_leave
  OBVIOUS
<1>2. CASE LibraryStep
  BY <1>1, <1>2
  DEF LibraryStep, loop_turn, loop_return, group_turn, group_return, is_disabled, is_expired,
      query, Goto, flags
<1>3. CASE CallbackEnds
  BY <1>1, <1>3
  DEF CallbackEnds, found_event, found_no_event, handled, raise, unwound, Goto, flags
<1>4. CASE ClientStep
  <2>1. ~QueueOp
    BY <1>1
    DEF QueueOp, group_enqueue_source, group_dequeue_source, source_dequeue_itself,
        loop_enqueue_group, loop_dequeue_group, group_dequeue_itself, flags
  <2>2. ~FinalOp
    BY <1>1 DEF FinalOp, group_final, loop_final, source_init, release, flags
  <2>3. ~SettingOp
    BY <1>1
    DEF SettingOp, group_post_request_to_leave, loop_post_request_to_leave,
        source_set_servicing, source_set_timeout, flags
  <2>4. CASE EnterOp
    BY <1>1, <2>4 DEF EnterOp, loop_enter, group_enter, do_one_event, flags
  <2>. QED
    BY <1>4, <2>1, <2>2, <2>3, <2>4 DEF ClientStep
<1>5. ~Clock /\ ~UNCHANGED vars
  BY <1>1 DEF Clock, clock_passes, source_set_timeout, vars, flags
<1>. QED
  BY <1>2, <1>3, <1>4, <1>5 DEF Next

CallsIn(st, proc, x) ==
  Cardinality({i \in DOMAIN st : st[i].proc = proc /\ st[i].obj = x})

\* A stack with the frame f more.
Topped(longer, f, shorter) ==
  /\ longer \in Seq(Frames) /\ shorter \in Seq(Frames)
  /\ Len(longer) = Len(shorter) + 1 /\ longer[1] = f
  /\ \A i \in 1..Len(shorter) : longer[i + 1] = shorter[i]

LEMMA OneMoreCall ==
  ASSUME NEW longer, NEW shorter, NEW f, Topped(longer, f, shorter)
  PROVE  CallsIn(longer, f.proc, f.obj) # CallsIn(shorter, f.proc, f.obj)
<1>. DEFINE I == {i \in DOMAIN shorter : shorter[i].proc = f.proc /\ shorter[i].obj = f.obj}
            J == {i \in 2..Len(longer) : longer[i].proc = f.proc /\ longer[i].obj = f.obj}
            K == {i \in DOMAIN longer : longer[i].proc = f.proc /\ longer[i].obj = f.obj}
            n == Len(shorter)
<1>1. K = J \cup {1}
  BY DEF Topped
<1>2. n \in Nat /\ I \subseteq 1..n /\ J \subseteq 2..(n + 1)
  BY DEF Topped
<1>3. \A i \in 1..n : i \in I <=> i + 1 \in J
  <2>1. \A i \in 1..n : i + 1 \in 2..Len(longer)
    BY DEF Topped
  <2>. QED
    BY <2>1 DEF Topped
<1>. HIDE DEF I, J, K, n
<1>4. IsFiniteSet(I) /\ IsFiniteSet(J)
  <2>1. 1 \in Int /\ 2 \in Int /\ n \in Int /\ n + 1 \in Int
    BY <1>2
  <2>2. IsFiniteSet(1..n) /\ IsFiniteSet(2..(n + 1))
    BY <2>1, FS_Interval
  <2>. QED
    BY <1>2, <2>2, FS_Subset
<1>5. ExistsBijection(I, J)
  <2>. DEFINE up == [i \in I |-> i + 1]
  <2>1. up \in [I -> J]
    BY <1>2, <1>3
  <2>2. \A a, b \in I : up[a] = up[b] => a = b
    BY <1>2
  <2>3. \A j \in J : \E i \in I : up[i] = j
    <3>. SUFFICES ASSUME NEW j \in J PROVE j - 1 \in I /\ up[j - 1] = j
      OBVIOUS
    <3>1. j - 1 \in 1..n /\ (j - 1) + 1 = j
      BY <1>2
    <3>. QED
      BY <1>3, <3>1
  <2>. HIDE DEF up
  <2>4. up \in Bijection(I, J)
    BY <2>1, <2>2, <2>3 DEF Bijection, Injection, Surjection, IsInjective
  <2>. QED
    BY <2>4 DEF ExistsBijection
<1>6. Cardinality(I) = Cardinality(J) /\ Cardinality(J) \in Nat
  BY <1>4, <1>5, FS_Bijection, FS_CardinalityType
<1>7. Cardinality(K) = Cardinality(J) + 1
  <2>1. 1 \notin J
    BY <1>2
  <2>2. Cardinality(J \cup {1}) = Cardinality(J) + 1
    BY <2>1, <1>4, FS_AddElement
  <2>. QED
    BY <2>2, <1>1
<1>8. Cardinality(K) # Cardinality(I)
  BY <1>6, <1>7
<1>. QED
  BY <1>8 DEF I, K, CallsIn

LEMMA PushCounts ==
  ASSUME TypeOK, NEW f \in Frames, Push(f)
  PROVE  Calls(f.proc, f.obj)' # Calls(f.proc, f.obj)
<1>1. Topped(stack', f, stack)
  <2>1. stack \in Seq(Frames) /\ stack' = <<f>> \o stack
    BY DEF Push, TypeOK
  <2>. QED
    BY <2>1 DEF Topped
<1>2. CallsIn(stack', f.proc, f.obj) # CallsIn(stack, f.proc, f.obj)
  BY <1>1, OneMoreCall
<1>. QED
  BY <1>2 DEF Calls, CallsIn

LEMMA PopCounts ==
  ASSUME TypeOK, stack # <<>>, Pop, NEW proc, NEW x,
         Head(stack).proc = proc, Head(stack).obj = x
  PROVE  Calls(proc, x)' # Calls(proc, x)
<1>1. Topped(stack, Head(stack), stack')
  <2>1. stack \in Seq(Frames) /\ stack' = Tail(stack)
    BY DEF Pop, TypeOK
  <2>. QED
    BY <2>1 DEF Topped
<1>2. CallsIn(stack, proc, x) # CallsIn(stack', proc, x)
  BY <1>1, OneMoreCall
<1>. QED
  BY <1>2 DEF Calls, CallsIn

\* A posted request is withdrawn only by a call for the same object that starts
\* or returns (groups.c:106 and 135, loops.c:79 and 95), whatever else is on the
\* stack and whatever the callbacks do.
THEOREM RequestsCorrect == Spec => RequestStands
<1>. DEFINE Stands ==
       /\ \A l \in Loops : OnStack("loop", l) /\ loop_leave[l] =>
            loop_leave'[l] \/ Calls("loop", l)' # Calls("loop", l)
       /\ \A g \in Groups : OnStack("group", g) /\ group_leave[g] =>
            group_leave'[g] \/ Calls("group", g)' # Calls("group", g)
<1>1. TypeOK /\ TypeOK' /\ [Next]_vars => Stands
  <2>. SUFFICES ASSUME TypeOK, TypeOK', [Next]_vars PROVE Stands
    OBVIOUS
  <2>1. ASSUME NEW l \in Loops, loop_leave[l], loop_leave'[l] # TRUE
        PROVE  Calls("loop", l)' # Calls("loop", l)
    <3>1. CASE loop_enter(l)
      <4>1. /\ LoopFrame(l) \in Frames /\ Push(LoopFrame(l))
            /\ LoopFrame(l).proc = "loop" /\ LoopFrame(l).obj = l
        BY <3>1, FramesShape DEF loop_enter, LoopFrame
      <4>. HIDE DEF LoopFrame
      <4>. QED
        BY <4>1, PushCounts
    <3>2. CASE loop_return /\ Self = l
      BY <3>2, PopCounts DEF loop_return, Running, Self
    <3>. QED
      BY <2>1, <3>1, <3>2, LoopFlagReset DEF TypeOK
  <2>2. ASSUME NEW g \in Groups, group_leave[g], group_leave'[g] # TRUE
        PROVE  Calls("group", g)' # Calls("group", g)
    <3>1. CASE Push(GroupFrame(g, 0))
      <4>1. /\ GroupFrame(g, 0) \in Frames
            /\ GroupFrame(g, 0).proc = "group" /\ GroupFrame(g, 0).obj = g
        BY FramesShape DEF GroupFrame
      <4>. QED
        BY <3>1, <4>1, PushCounts
    <3>2. CASE group_return /\ Self = g
      BY <3>2, PopCounts DEF group_return, Running, Self
    <3>. QED
      BY <2>2, <3>1, <3>2, GroupFlagReset DEF TypeOK
  <2>. QED
    BY <2>1, <2>2
<1>2. TypeOK /\ TypeOK' /\ [Next]_vars => [Stands]_vars
  BY <1>1
<1>. QED
  BY <1>2, LoopTypeCorrect, PTL DEF Spec, RequestStands
=============================================================================
