--------------------------- MODULE SourcesProofs ---------------------------
(***************************************************************************)
(* What module Sources keeps for any sources, groups, loops and signals,   *)
(* any kinds of sources and any depth of nested calls.                     *)
(***************************************************************************)
EXTENDS Sources, EventLoopProofs

(***************************************************************************)
(* A step of Sources is a step of EventLoop: what is proved of EventLoop   *)
(* holds of the sources of every kind.                                     *)
(***************************************************************************)

LEMMA ProgramStepIsNext ==
  ASSUME ProgramStep
  PROVE  [Next]_vars
<1>r. ClientRuns
  BY DEF ProgramStep, ProgramRuns
<1>1. ASSUME NEW s \in Sources, Uses("source_init"), base_init(s)
      PROVE  Next
  BY <1>r, <1>1 DEF base_init, FinalOp, ClientStep, Next
<1>2. ASSUME NEW s \in Sources, set_callbacks(s)
      PROVE  UNCHANGED vars
  BY <1>2 DEF set_callbacks
<1>3. ASSUME NEW g \in Groups, NEW s \in Sources, Uses("enqueue_source"), enqueue_source(g, s)
      PROVE  Next
  BY <1>r, <1>3 DEF enqueue_source, Plain, QueueOp, ClientStep, Next
<1>4. ASSUME Plain(FinalisingOp)
      PROVE  Next
  BY <1>r, <1>4 DEF Plain, FinalisingOp, FinalOp, ClientStep, Next
<1>5. ASSUME Plain(DequeueOp)
      PROVE  Next
  BY <1>r, <1>5 DEF Plain, DequeueOp, QueueOp, ClientStep, Next
<1>6. ASSUME Plain(SettingOfAdjusted)
      PROVE  Next
  BY <1>r, <1>6 DEF Plain, SettingOfAdjusted, ClientStep, Next
<1>7. ASSUME Plain(EnterOp)
      PROVE  Next
  BY <1>r, <1>7 DEF Plain, ClientStep, Next
<1>8. ASSUME NEW l \in Loops, NEW g \in Groups,
             Uses("enqueue_group"), Plain(loop_enqueue_group(l, g))
      PROVE  Next
  BY <1>r, <1>8 DEF Plain, QueueOp, ClientStep, Next
<1>. QED
  BY <1>1, <1>2, <1>3, <1>4, <1>5, <1>6, <1>7, <1>8, SourcesAssumption
  DEF ProgramStep, fd_source_init, timer_source_init, task_source_init,
      signal_bub_source_init, fd_source_set, task_source_set, signal_bub_source_set

LEMMA CallbackMoveIsNext ==
  ASSUME CallbackMoves
  PROVE  [Next]_vars
<1>1. ASSUME signal_asks \/ acquirer_acquires
      PROVE  UNCHANGED vars
  BY <1>1 DEF signal_asks, acquirer_acquires
<1>2. ASSUME signal_answers \/ acquirer_answers
      PROVE  CallbackEnds
  BY <1>2 DEF signal_answers, acquirer_answers, CallbackEnds
<1>3. ASSUME timer_answers \/ fd_answers \/ task_answers
      PROVE  CallbackEnds
  BY <1>3 DEF timer_answers, fd_answers, default_event_query, query_fd, task_answers,
              Plain, CallbackEnds
<1>4. ASSUME handler_ends \/ Plain(unwound)
      PROVE  CallbackEnds
  BY <1>4 DEF handler_ends, Plain, CallbackEnds
<1>. QED
  BY <1>1, <1>2, <1>3, <1>4 DEF CallbackMoves, Next

LEMMA SourcesStepIsNext == [SourcesNext]_all => [Next]_vars
<1>. SUFFICES ASSUME [SourcesNext]_all PROVE [Next]_vars
  OBVIOUS
<1>1. CASE \E n \in Bub!Signals : send(n) \/ deliver(n)
  BY <1>1 DEF send, deliver
<1>2. CASE Plain(LibraryStep) \/ Plain(Clock)
  BY <1>2 DEF Plain, Next
<1>3. CASE signal_bub_source_init_clear
  BY <1>3 DEF signal_bub_source_init_clear
<1>4. CASE UNCHANGED all
  BY <1>4 DEF all
<1>. QED
  BY <1>1, <1>2, <1>3, <1>4, CallbackMoveIsNext, ProgramStepIsNext DEF SourcesNext

\* Module Sources implements module EventLoop: file descriptors, tasks, timers
\* and signals are sources whose inquirers answer in a particular way.
THEOREM SourcesImplementEventLoop == SourcesSpec => Spec
<1>1. SourcesInit => Init
  BY DEF SourcesInit
<1>. QED
  BY <1>1, SourcesStepIsNext, PTL DEF SourcesSpec, Spec

\* What the loop promises whatever the inquirers answer, it keeps with descriptors,
\* tasks, timers and signals as its sources: the watermarks, that nothing finalised
\* is in a group or attempted, and the requests to leave.
COROLLARY LoopPromisesKept ==
  SourcesSpec => []AttemptsWithinWatermark /\ []FinalisedIsGone /\ RequestStands
<1>. QED
  BY SourcesImplementEventLoop, WatermarkCorrect, FinalisationCorrect,
     RequestsCorrect, PTL

(***************************************************************************)
(* Reports: a flag stands for a delivery that no handler was given.        *)
(***************************************************************************)

ReportsOK ==
  /\ type \in [Sources -> Types]
  /\ arrived \in [Bub!Signals -> BOOLEAN]
  /\ \A n \in Bub!Signals : arrived[n] => n \in unhandled
  /\ pc = "delivered_clear" => signum \in Bub!Signals /\ flag = arrived[signum]

\* While the flag that was read is cleared, none is set: a signal is delivered
\* only between the two calls of acquire.
MaskOK ==
  /\ pc \notin {"unblocking", "unblocked"} => blocked = Bub!Signals
  /\ pc # "terminated"

LEMMA SelfIsSource == TypeOK /\ Running("source") => Self \in Sources
<1>. SUFFICES ASSUME TypeOK, Running("source") PROVE Self \in Sources
  OBVIOUS
<1>1. Head(stack) \in Frames
  BY DEF TypeOK, Running
<1>. QED
  BY <1>1, FramesShape DEF Self, Running

LEMMA ReportsKept ==
  ASSUME ReportsOK, MaskOK, TypeOK, [SourcesNext]_all
  PROVE  ReportsOK' /\ MaskOK'
<1>. USE DEF Bub!vars, Bub!kernel, Bub!history
<1>1. ASSUME UNCHANGED <<type, bub, unhandled>>
      PROVE  ReportsOK' /\ MaskOK'
  BY <1>1 DEF ReportsOK, MaskOK, bub
<1>2. ASSUME NEW n \in Bub!Signals, send(n)
      PROVE  ReportsOK' /\ MaskOK'
  BY <1>2 DEF send, Bub!send, ReportsOK, MaskOK, structs
<1>3. ASSUME NEW n \in Bub!Signals, deliver(n)
      PROVE  ReportsOK' /\ MaskOK'
  <2>1. /\ n \notin blocked
        /\ arrived' = [arrived EXCEPT ![n] = TRUE] /\ unhandled' = unhandled \cup {n}
        /\ pc' = IF pc = "unblocking" THEN "unblocked" ELSE pc
        /\ UNCHANGED <<type, blocked, signum, flag>>
    BY <1>3 DEF deliver, Bub!handle, structs
  <2>2. pc \in {"unblocking", "unblocked"}
    BY <2>1 DEF MaskOK
  <2>. QED
    BY <2>1, <2>2 DEF ReportsOK, MaskOK
<1>4. CASE signal_asks
  <2>1. type[Self].signum \in Bub!Signals
    BY <1>4, SelfIsSource DEF signal_asks, Asked, At, ReportsOK, Types, Bub!Signals
  <2>. QED
    BY <1>4, <2>1 DEF signal_asks, Bub!delivered, ReportsOK, MaskOK, structs
<1>5. CASE signal_answers
  <2>1. /\ pc = "delivered_clear" /\ pc' = "client"
        /\ arrived' = [arrived EXCEPT ![signum] = FALSE]
        /\ unhandled' = unhandled \ {signum} \/ unhandled' = unhandled
        /\ UNCHANGED <<type, blocked>>
    BY <1>5 DEF signal_answers, Bub!delivered_clear, structs
  <2>. QED
    BY <2>1 DEF ReportsOK, MaskOK
<1>6. CASE acquirer_acquires
  BY <1>6 DEF acquirer_acquires, Bub!acquire, ReportsOK, MaskOK, structs
<1>7. CASE acquirer_answers
  BY <1>7 DEF acquirer_answers, Bub!acquire_block, ReportsOK, MaskOK, structs
<1>8. CASE signal_bub_source_init_clear
  BY <1>8 DEF signal_bub_source_init_clear, Bub!source_init_clear, Bub!clear_flag,
              ReportsOK, MaskOK, structs
<1>9. ASSUME NEW s \in Sources, signal_bub_source_init(s)
      PROVE  ReportsOK' /\ MaskOK'
  BY <1>9 DEF signal_bub_source_init, Bub!source_init, ReportsOK, MaskOK
<1>10. CASE CallbackMoves
  <2>1. timer_answers \/ fd_answers \/ task_answers \/ handler_ends \/ Plain(unwound)
          => UNCHANGED <<type, bub, unhandled>>
    BY DEF timer_answers, fd_answers, default_event_query, query_fd, task_answers,
           handler_ends, Plain, structs
  <2>. QED
    BY <1>10, <2>1, <1>1, <1>4, <1>5, <1>6, <1>7 DEF CallbackMoves
<1>11. CASE ProgramStep
  <2>1. \/ UNCHANGED <<type, bub, unhandled>>
        \/ \E s \in Sources : signal_bub_source_init(s)
    BY <1>11, SourcesAssumption
    DEF ProgramStep, fd_source_init, timer_source_init, task_source_init, fd_source_set,
        task_source_set, signal_bub_source_set, set_callbacks, enqueue_source, Plain, structs
  <2>. QED
    BY <2>1, <1>1, <1>9
<1>12. CASE Plain(LibraryStep) \/ Plain(Clock) \/ UNCHANGED all
  BY <1>1, <1>12 DEF Plain, all, structs
<1>. QED
  BY <1>2, <1>3, <1>8, <1>10, <1>11, <1>12 DEF SourcesNext

\* Every reachable state satisfies the inductive invariant of EventLoop and the
\* two parts above.
LEMMA ReportsInvariance == SourcesSpec => [](IInv /\ ReportsOK /\ MaskOK)
<1>1. SourcesInit => ReportsOK /\ MaskOK
  BY SourcesAssumption DEF SourcesInit, ReportsOK, MaskOK
<1>2. SourcesSpec => []IInv
  BY SourcesImplementEventLoop, LoopInvariance, PTL
<1>3. IInv => TypeOK
  BY DEF IInv
<1>4. ReportsOK /\ MaskOK /\ IInv /\ [SourcesNext]_all => (ReportsOK /\ MaskOK)'
  BY <1>3, ReportsKept
<1>. QED
  BY <1>1, <1>2, <1>4, PTL DEF SourcesSpec

\* However many sources wait for one signal, what one of them reports was not
\* given to a handler before (ccevents-sources-signal.c:105-106, 125).
THEOREM OneHandlerCorrect == SourcesSpec => []OneHandlerPerDelivery
<1>1. ReportsOK => OneHandlerPerDelivery
  BY DEF ReportsOK, OneHandlerPerDelivery
<1>. QED
  BY <1>1, ReportsInvariance, PTL

(***************************************************************************)
(* Frames: a source that is about to be asked is not released and its      *)
(* pointers are current.                                                   *)
(***************************************************************************)

FrameOK(f) ==
  f.proc = "source" =>
    /\ f.at \in {"entered", "inquirer"} =>
         f.obj \notin finalised /\ callbacks[f.obj] # "stale"
    /\ f.at = "event_handler" => callbacks[f.obj] = "set"

FramesOK == \A i \in DOMAIN stack : FrameOK(stack[i])

\* Only tasks and signals may be stale, and they have no defaults.
KindsOK ==
  /\ type \in [Sources -> Types]
  /\ callbacks \in [Sources -> Callbacks]
  /\ \A s \in Sources :
       /\ type[s].kind = "timer" => callbacks[s] = "default"
       /\ type[s].kind = "fd" => callbacks[s] # "stale"
       /\ type[s].kind \in {"task", "signal"} => callbacks[s] # "default"

QueuedOK == \A g \in Groups : \A s \in Members(sources[g]) : callbacks[s] # "stale"

SInv == FramesOK /\ KindsOK /\ QueuedOK

\* The stack changes and the frames that are new are right.
LEMMA NewFrames ==
  ASSUME FramesOK, UNCHANGED <<callbacks, finalised>>,
         \A i \in DOMAIN stack' :
           FrameOK(stack'[i]) \/ \E j \in DOMAIN stack : stack'[i] = stack[j]
  PROVE  FramesOK'
<1>1. \A i \in DOMAIN stack' : FrameOK(stack'[i])
  BY DEF FramesOK
<1>. QED
  BY <1>1 DEF FramesOK, FrameOK

LEMMA PushedFrame ==
  ASSUME FramesOK, TypeOK, NEW f \in Frames, Push(f), FrameOK(f),
         UNCHANGED <<callbacks, finalised>>
  PROVE  FramesOK'
<1>1. \A i \in DOMAIN stack' :
         \/ i = 1 /\ stack'[i] = f
         \/ i - 1 \in DOMAIN stack /\ stack'[i] = stack[i - 1]
  BY DEF Push, TypeOK
<1>. QED
  BY <1>1, NewFrames

LEMMA PoppedFrame ==
  ASSUME FramesOK, TypeOK, stack # <<>>, Pop, UNCHANGED <<callbacks, finalised>>
  PROVE  FramesOK'
<1>1. \A i \in DOMAIN stack' : i + 1 \in DOMAIN stack /\ stack'[i] = stack[i + 1]
  BY DEF Pop, TypeOK
<1>. QED
  BY <1>1, NewFrames

LEMMA GoneFrame ==
  ASSUME FramesOK, TypeOK, Running("source"), NEW place \in ClientCode, Goto(place),
         place \in {"inquirer", "event_handler"} => FrameOK(SourceFrame(Self, place)),
         UNCHANGED callbacks
  PROVE  FramesOK'
<1>1. SourceFrame(Self, place) \in Frames
  BY SelfIsSource, FramesShape
<1>2. FrameOK(SourceFrame(Self, place))
  BY DEF FrameOK, SourceFrame, ClientCode
<1>. DEFINE f == SourceFrame(Self, place)
<1>. HIDE DEF f
<1>3. \A i \in DOMAIN stack' :
         \/ stack'[i] = f
         \/ i \in DOMAIN stack /\ stack'[i] = stack[i]
  <2>1. stack' = <<f>> \o Tail(stack) /\ stack \in Seq(Frames) /\ stack # <<>> /\ f \in Frames
    BY <1>1 DEF Goto, Become, TypeOK, Running, f
  <2>. QED
    BY <2>1
<1>4. UNCHANGED finalised
  BY DEF Goto, settings
<1>. QED
  BY <1>2, <1>3, <1>4, NewFrames DEF f

\* The innermost frame keeps what it is allowed.
LEMMA TopFrame ==
  ASSUME FramesOK, TypeOK, Running("source")
  PROVE  /\ At("entered") \/ At("inquirer") => Self \notin finalised /\ callbacks[Self] # "stale"
         /\ At("event_handler") => callbacks[Self] = "set"
<1>1. FrameOK(Head(stack))
  BY DEF FramesOK, Running, TypeOK
<1>. QED
  BY <1>1 DEF FrameOK, At, Running, Self

LEMMA ShrunkQueues ==
  ASSUME QueuedOK, UNCHANGED callbacks,
         \A g \in Groups : Members(sources'[g]) \subseteq Members(sources[g])
  PROVE  QueuedOK'
  BY DEF QueuedOK

LEMMA LibraryKeeps ==
  ASSUME SInv, IInv, Plain(LibraryStep)
  PROVE  SInv'
<1>t. TypeOK /\ FramesOK /\ QueuedOK /\ KindsOK /\ UNCHANGED structs
  BY DEF SInv, IInv, Plain
<1>k. KindsOK'
  BY <1>t DEF KindsOK, structs
<1>1. CASE loop_return \/ group_return
  <2>1. stack # <<>> /\ Pop /\ UNCHANGED <<sources, finalised, callbacks>>
    BY <1>1, <1>t DEF loop_return, group_return, Running, queues, settings, structs
  <2>. QED
    BY <2>1, <1>t, <1>k, PoppedFrame, ShrunkQueues DEF SInv
<1>2. CASE loop_turn
  <2>. DEFINE grp == Head(groups[Self])
  <2>1. stack # <<>> /\ Head(stack) \in Frames
    BY <1>2, <1>t DEF loop_turn, Running, TypeOK
  <2>2. groups[Self] \in Seq(Groups) /\ groups[Self] # <<>>
    BY <1>2, <1>t, <2>1, FramesShape DEF loop_turn, Running, Self, TypeOK
  <2>3. grp \in Groups
    BY <2>2
  <2>. HIDE DEF grp
  <2>4. Push(GroupFrame(grp, 0)) /\ UNCHANGED <<sources, finalised, callbacks>>
    BY <1>2, <1>t DEF loop_turn, settings, structs, grp
  <2>5. GroupFrame(grp, 0) \in Frames /\ FrameOK(GroupFrame(grp, 0))
    BY <2>3, FramesShape DEF FrameOK, GroupFrame
  <2>. QED
    BY <2>4, <2>5, <1>t, <1>k, PushedFrame, ShrunkQueues DEF SInv
<1>3. CASE group_turn
  <2>. DEFINE src == Head(sources[Self])
              inner == SourceFrame(src, "entered")
              outer == GroupFrame(Self, Head(stack).attempts + 1)
  <2>1. /\ stack # <<>> /\ stack \in Seq(Frames)
        /\ Self \in Groups /\ Head(stack).attempts \in Nat
    <3>1. stack # <<>> /\ Head(stack) \in Frames
      BY <1>3, <1>t DEF group_turn, Running, TypeOK
    <3>. QED
      BY <3>1, <1>3, <1>t, FramesShape DEF group_turn, Running, Self, TypeOK
  <2>2. sources[Self] \in Seq(Sources) /\ sources[Self] # <<>>
    BY <1>3, <2>1, <1>t DEF group_turn, TypeOK
  <2>3. src \in Sources /\ src \in Members(sources[Self])
        /\ Members(Advanced(sources[Self])) \subseteq Members(sources[Self])
    <3>1. src \in Sources /\ src \in Members(sources[Self])
      BY <2>2 DEF Members
    <3>2. Members(Advanced(sources[Self])) \subseteq Members(sources[Self])
      BY <2>2, AdvancedMembers
    <3>. QED
      BY <3>1, <3>2
  <2>4. /\ stack' = <<inner, outer>> \o Tail(stack)
        /\ sources' = [sources EXCEPT ![Self] = Advanced(sources[Self])]
        /\ UNCHANGED <<finalised, callbacks>>
    BY <1>3, <1>t DEF group_turn, advance_to_next_source, settings, structs
  <2>5. src \notin finalised /\ callbacks[src] # "stale"
    BY <2>1, <2>3, <1>t DEF QueuedOK, IInv, QueuesOK
  <2>6. inner \in Frames /\ outer \in Frames /\ FrameOK(inner) /\ FrameOK(outer)
    BY <2>1, <2>3, <2>5, FramesShape DEF FrameOK, SourceFrame, GroupFrame
  <2>7. QueuedOK'
    BY <2>1, <2>3, <2>4, <1>t, ShrunkQueues DEF TypeOK
  <2>. HIDE DEF inner, outer, src
  <2>8. \A i \in DOMAIN stack' :
          \/ stack'[i] = inner
          \/ stack'[i] = outer
          \/ i - 1 \in DOMAIN stack /\ stack'[i] = stack[i - 1]
    BY <2>1, <2>4, <2>6
  <2>9. FramesOK'
    BY <2>4, <2>6, <2>8, <1>t, NewFrames
  <2>. QED
    BY <2>7, <2>9, <1>k DEF SInv
<1>4. CASE is_disabled \/ is_expired \/ query
  <2>1. Running("source") /\ UNCHANGED <<sources, finalised, callbacks>>
    BY <1>4, <1>t DEF is_disabled, is_expired, query, At, Goto, queues, settings, structs
  <2>2. FramesOK'
    <3>1. CASE is_disabled \/ is_expired
      BY <3>1, <2>1, <1>t, GoneFrame DEF is_disabled, is_expired, ClientCode
    <3>2. CASE query
      <4>1. FrameOK(SourceFrame(Self, "inquirer"))
        BY <3>2, <2>1, <1>t, TopFrame DEF query, FrameOK, SourceFrame
      <4>. QED
        BY <3>2, <4>1, <2>1, <1>t, GoneFrame DEF query, ClientCode
    <3>. QED
      BY <1>4, <3>1, <3>2
  <2>. QED
    BY <2>1, <2>2, <1>t, <1>k, ShrunkQueues DEF SInv
<1>. QED
  BY <1>1, <1>2, <1>3, <1>4 DEF Plain, LibraryStep

LEMMA CallbacksKeep ==
  ASSUME SInv, IInv, CallbackMoves
  PROVE  SInv'
<1>t. TypeOK /\ FramesOK /\ QueuedOK /\ KindsOK
  BY DEF SInv, IInv
<1>1. ASSUME UNCHANGED <<vars, structs>>
      PROVE  SInv'
  BY <1>1, <1>t DEF vars, queues, settings, structs, SInv, FramesOK, FrameOK, KindsOK, QueuedOK
<1>2. ASSUME NEW place \in ClientCode, Running("source"), Goto(place), UNCHANGED structs,
             place = "event_handler" => callbacks[Self] = "set", place # "inquirer"
      PROVE  SInv'
  <2>1. FrameOK(SourceFrame(Self, place))
    BY <1>2 DEF FrameOK, SourceFrame, ClientCode
  <2>2. UNCHANGED <<sources, type, callbacks>>
    BY <1>2 DEF Goto, queues, structs
  <2>3. FramesOK'
    BY <1>2, <2>1, <2>2, <1>t, GoneFrame
  <2>. QED
    BY <2>2, <2>3, <1>t DEF SInv, KindsOK, QueuedOK
<1>3. ASSUME found_no_event \/ handled \/ raise, UNCHANGED structs
      PROVE  SInv'
  BY <1>2, <1>3 DEF found_no_event, handled, raise, At, ClientCode
<1>4. ASSUME found_event, UNCHANGED structs, type[Self].kind # "fd" \/ callbacks[Self] = "set",
             type[Self].kind # "timer"
      PROVE  SInv'
  <2>1. Self \in Sources /\ Running("source") /\ callbacks[Self] # "stale"
    BY <1>4, <1>t, SelfIsSource, TopFrame DEF found_event, At
  <2>2. callbacks[Self] = "set"
    BY <1>4, <2>1, <1>t DEF KindsOK, Callbacks, Types
  <2>. QED
    BY <1>2, <1>4, <2>1, <2>2 DEF found_event, ClientCode
<1>5. CASE signal_asks \/ acquirer_acquires
  BY <1>1, <1>5 DEF signal_asks, acquirer_acquires
<1>6. CASE signal_answers
  BY <1>3, <1>4, <1>6 DEF signal_answers, Asked
<1>7. CASE acquirer_answers
  BY <1>3, <1>7 DEF acquirer_answers
<1>8. CASE timer_answers
  BY <1>3, <1>8 DEF timer_answers, Plain
<1>9. CASE fd_answers
  BY <1>3, <1>4, <1>9 DEF fd_answers, default_event_query, query_fd, Asked, Plain
<1>10. CASE task_answers
  BY <1>3, <1>4, <1>10 DEF task_answers, Asked, Plain
<1>11. CASE handler_ends
  BY <1>3, <1>11 DEF handler_ends, Plain
<1>12. CASE Plain(unwound)
  <2>1. stack # <<>> /\ Pop /\ UNCHANGED <<sources, finalised, type, callbacks>>
    BY <1>12 DEF Plain, unwound, At, Running, queues, settings, structs
  <2>2. FramesOK'
    BY <2>1, <1>t, PoppedFrame
  <2>. QED
    BY <2>1, <2>2, <1>t DEF SInv, KindsOK, QueuedOK
<1>. QED
  BY <1>5, <1>6, <1>7, <1>8, <1>9, <1>10, <1>11, <1>12 DEF CallbackMoves

\* A source of which no frame and no queue knows gets other pointers.
LEMMA ReinitKeeps ==
  ASSUME SInv, IInv, NEW s \in Sources, base_init(s), UNCHANGED type,
         \A r \in Sources \ {s} : callbacks'[r] = callbacks[r],
         KindsOK'
  PROVE  SInv'
<1>1. /\ \A g \in Groups : s \notin Members(sources[g]) /\ Members(sources[g]) \subseteq Sources
      /\ UNCHANGED <<sources, stack>> /\ finalised' \subseteq finalised
  BY DEF base_init, source_init, GroupsOf, queues, IInv, TypeOK, Members
<1>2. \A i \in DOMAIN stack :
        stack[i].proc = "source" => stack[i].obj \in Sources \ {s}
  BY FramesShape DEF base_init, OnStack, IInv, TypeOK
<1>3. FramesOK'
  BY <1>1, <1>2 DEF SInv, FramesOK, FrameOK
<1>4. QueuedOK'
  BY <1>1 DEF SInv, QueuedOK
<1>. QED
  BY <1>3, <1>4 DEF SInv

LEMMA ProgramKeeps ==
  ASSUME SInv, IInv, ProgramStep
  PROVE  SInv'
<1>t. TypeOK /\ FramesOK /\ QueuedOK /\ KindsOK
  BY DEF SInv, IInv
<1>1. ASSUME NEW s \in Sources, fd_source_init(s) \/ timer_source_init(s)
                                \/ task_source_init(s) \/ signal_bub_source_init(s)
      PROVE  SInv'
  <2>1. /\ base_init(s) /\ UNCHANGED type
        /\ \/ type[s].kind = "fd" /\ callbacks' = [callbacks EXCEPT ![s] = "default"]
           \/ type[s].kind = "timer" /\ callbacks' = callbacks
           \/ type[s].kind \in {"task", "signal"} /\ callbacks' = [callbacks EXCEPT ![s] = "stale"]
    BY <1>1 DEF fd_source_init, timer_source_init, task_source_init,
                signal_bub_source_init, structs
  <2>2. KindsOK'
    BY <2>1, <1>t DEF KindsOK, Callbacks
  <2>3. \A r \in Sources \ {s} : callbacks'[r] = callbacks[r]
    BY <2>1, <1>t DEF KindsOK
  <2>. QED
    BY <2>1, <2>2, <2>3, ReinitKeeps
<1>2. ASSUME NEW s \in Sources,
             fd_source_set(s) \/ task_source_set(s) \/ signal_bub_source_set(s)
      PROVE  SInv'
  <2>1. /\ type[s].kind # "timer" /\ callbacks' = [callbacks EXCEPT ![s] = "set"]
        /\ UNCHANGED <<sources, finalised, stack, type>>
    BY <1>2 DEF fd_source_set, task_source_set, signal_bub_source_set, set_callbacks,
                vars, queues, settings
  <2>2. KindsOK'
    BY <2>1, <1>t DEF KindsOK, Callbacks
  <2>3. \A r \in Sources : callbacks'[r] = callbacks[r] \/ callbacks'[r] = "set"
    BY <2>1, <1>t DEF KindsOK
  <2>4. \A i \in DOMAIN stack : stack[i].proc = "source" => stack[i].obj \in Sources
    BY <1>t, FramesShape DEF TypeOK
  <2>5. FramesOK'
    BY <2>1, <2>3, <2>4, <1>t DEF FramesOK, FrameOK
  <2>6. \A g \in Groups : Members(sources[g]) \subseteq Sources
    BY <1>t DEF TypeOK, Members
  <2>7. QueuedOK'
    BY <2>1, <2>3, <2>6, <1>t DEF QueuedOK
  <2>. QED
    BY <2>2, <2>5, <2>7 DEF SInv
<1>3. ASSUME NEW g \in Groups, NEW s \in Sources, enqueue_source(g, s)
      PROVE  SInv'
  <2>1. /\ sources' = [sources EXCEPT ![g] = Enqueued(sources[g], s)]
        /\ UNCHANGED <<finalised, stack, type, callbacks>>
        /\ callbacks[s] # "stale"
    BY <1>3, <1>t DEF enqueue_source, Plain, group_enqueue_source, MayBeEnqueued,
                      settings, structs, KindsOK, Types
  <2>2. Members(Enqueued(sources[g], s)) = Members(sources[g]) \cup {s}
    BY <1>t, EnqueuedMembers DEF TypeOK
  <2>3. \A h \in Groups : Members(sources'[h]) \subseteq Members(sources[h]) \cup {s}
    BY <2>1, <2>2, <1>t DEF TypeOK
  <2>4. QueuedOK'
    BY <2>1, <2>3, <1>t DEF QueuedOK
  <2>. QED
    BY <2>1, <2>4, <1>t DEF SInv, FramesOK, FrameOK, KindsOK
<1>4. ASSUME Plain(FinalisingOp)
      PROVE  SInv'
  <2>1. UNCHANGED <<stack, type, callbacks>>
    BY <1>4 DEF Plain, FinalisingOp, group_final, loop_final, release, structs
  <2>2. \A g \in Groups : Members(sources'[g]) \subseteq Members(sources[g])
    <3>1. \A g \in Groups : sources'[g] \in {<<>>, sources[g]}
      BY <1>4, <1>t DEF Plain, FinalisingOp, group_final, loop_final, release, queues, TypeOK
    <3>. QED
      BY <3>1 DEF Members
  <2>3. \A i \in DOMAIN stack :
          stack[i].proc = "source" /\ stack[i].at \in {"entered", "inquirer"}
            => stack[i].obj \notin finalised' \ finalised
    BY <1>4 DEF Plain, FinalisingOp, IsInquired
  <2>4. FramesOK'
    BY <2>1, <2>3, <1>t DEF FramesOK, FrameOK
  <2>. QED
    BY <2>1, <2>2, <2>4, <1>t, ShrunkQueues DEF SInv, KindsOK
<1>5. ASSUME Plain(DequeueOp)
      PROVE  SInv'
  <2>1. UNCHANGED <<finalised, stack, type, callbacks>>
    BY <1>5 DEF Plain, DequeueOp, group_dequeue_source, source_dequeue_itself,
                loop_dequeue_group, group_dequeue_itself, settings, structs
  <2>2. \A g \in Groups : Members(sources'[g]) \subseteq Members(sources[g])
    <3>1. \A g \in Groups :
            \/ sources'[g] = sources[g]
            \/ sources'[g] = Dequeued(sources[g])
            \/ \E s \in Sources : sources'[g] = Without(sources[g], s)
      BY <1>5, <1>t DEF Plain, DequeueOp, group_dequeue_source, source_dequeue_itself,
                        loop_dequeue_group, group_dequeue_itself, TypeOK
    <3>2. \A g \in Groups :
            /\ Members(Dequeued(sources[g])) \subseteq Members(sources[g])
            /\ \A s : Members(Without(sources[g], s)) \subseteq Members(sources[g])
      BY <1>t, DequeuedMembers, WithoutMembers DEF TypeOK
    <3>. QED
      BY <3>1, <3>2
  <2>. QED
    BY <2>1, <2>2, <1>t, ShrunkQueues DEF SInv, FramesOK, FrameOK, KindsOK
<1>6. ASSUME Plain(SettingOfAdjusted)
      PROVE  SInv'
  <2>1. UNCHANGED <<sources, finalised, stack, type, callbacks>>
    BY <1>6 DEF Plain, SettingOfAdjusted, SettingOp, group_post_request_to_leave,
                loop_post_request_to_leave, source_set_servicing, source_set_timeout,
                queues, settings, structs
  <2>. QED
    BY <2>1, <1>t DEF SInv, FramesOK, FrameOK, KindsOK, QueuedOK
<1>7. ASSUME Plain(EnterOp), MayBeEntered
      PROVE  SInv'
  <2>1. ASSUME NEW f \in Frames, Push(f), UNCHANGED <<sources, finalised, type, callbacks>>,
               f.proc = "source" => f.obj \in Sources /\ f.at = "entered"
        PROVE  SInv'
    <3>1. Head(stack') = f
      BY <2>1, <1>t DEF Push, TypeOK
    <3>2. FrameOK(f)
      <4>1. CASE f.proc = "source"
        <5>1. f.obj \notin finalised /\ callbacks[f.obj] # "stale"
          BY <1>7, <2>1, <3>1, <4>1, <1>t DEF MayBeEntered, MayBeEnqueued, KindsOK, Types
        <5>. QED
          BY <2>1, <4>1, <5>1 DEF FrameOK
      <4>2. CASE f.proc # "source"
        BY <4>2 DEF FrameOK
      <4>. QED
        BY <4>1, <4>2
    <3>. QED
      BY <2>1, <3>2, <1>t, PushedFrame DEF SInv, KindsOK, QueuedOK
  <2>2. \E f \in Frames : /\ Push(f) /\ UNCHANGED <<sources, finalised>>
                          /\ f.proc = "source" => f.obj \in Sources /\ f.at = "entered"
    <3>1. ASSUME NEW l \in Loops, loop_enter(l)
          PROVE  Push(LoopFrame(l)) /\ UNCHANGED <<sources, finalised>>
      BY <3>1 DEF loop_enter, queues, settings
    <3>2. ASSUME NEW g \in Groups, group_enter(g)
          PROVE  Push(GroupFrame(g, 0)) /\ UNCHANGED <<sources, finalised>>
      BY <3>2 DEF group_enter, queues, settings
    <3>3. ASSUME NEW s \in Sources, do_one_event(s)
          PROVE  Push(SourceFrame(s, "entered")) /\ UNCHANGED <<sources, finalised>>
      BY <3>3 DEF do_one_event, queues, settings
    <3>4. \A l \in Loops : LoopFrame(l) \in Frames /\ LoopFrame(l).proc # "source"
      BY FramesShape DEF LoopFrame
    <3>5. \A g \in Groups : GroupFrame(g, 0) \in Frames /\ GroupFrame(g, 0).proc # "source"
      BY FramesShape DEF GroupFrame
    <3>6. \A s \in Sources : /\ SourceFrame(s, "entered") \in Frames
                             /\ SourceFrame(s, "entered").obj = s
                             /\ SourceFrame(s, "entered").at = "entered"
      BY FramesShape DEF SourceFrame
    <3>7. \/ \E l \in Loops : loop_enter(l)
          \/ \E g \in Groups : group_enter(g)
          \/ \E s \in Sources : do_one_event(s)
      BY <1>7 DEF Plain, EnterOp
    <3>. QED
      BY <3>1, <3>2, <3>3, <3>4, <3>5, <3>6, <3>7
  <2>. QED
    BY <1>7, <2>1, <2>2 DEF Plain, structs
<1>8. ASSUME NEW l \in Loops, NEW g \in Groups, Plain(loop_enqueue_group(l, g))
      PROVE  SInv'
  <2>1. UNCHANGED <<sources, finalised, stack, type, callbacks>>
    BY <1>8 DEF Plain, loop_enqueue_group, settings, structs
  <2>. QED
    BY <2>1, <1>t DEF SInv, FramesOK, FrameOK, KindsOK, QueuedOK
<1>. QED
  BY <1>1, <1>2, <1>3, <1>4, <1>5, <1>6, <1>7, <1>8, SourcesAssumption DEF ProgramStep

LEMMA SourcesInitEstablishes == SourcesInit => SInv
<1>. SUFFICES ASSUME SourcesInit PROVE SInv
  OBVIOUS
<1>1. type \in [Sources -> Types] /\ stack = <<>>
  BY SourcesAssumption DEF SourcesInit, Init
<1>2. KindsOK
  BY <1>1 DEF SourcesInit, KindsOK, Callbacks
<1>3. \A g \in Groups : \A s \in Members(sources[g]) : s \in Sources /\ GroupsOf(s) # {}
  BY EventLoopAssumption DEF SourcesInit, Init, GroupsOf, Members
<1>4. QueuedOK
  BY <1>3 DEF SourcesInit, QueuedOK
<1>5. FramesOK
  BY <1>1 DEF FramesOK
<1>. QED
  BY <1>2, <1>4, <1>5 DEF SInv

LEMMA SourcesStepKeeps ==
  ASSUME SInv, IInv, [SourcesNext]_all
  PROVE  SInv'
<1>1. ASSUME UNCHANGED <<sources, finalised, stack, type, callbacks>>
      PROVE  SInv'
  BY <1>1 DEF SInv, FramesOK, FrameOK, KindsOK, QueuedOK
<1>2. CASE \E n \in Bub!Signals : send(n) \/ deliver(n)
  BY <1>1, <1>2 DEF send, deliver, vars, queues, settings, structs
<1>3. CASE signal_bub_source_init_clear \/ UNCHANGED all
  BY <1>1, <1>3 DEF signal_bub_source_init_clear, all, vars, queues, settings, structs
<1>4. CASE Plain(Clock)
  BY <1>1, <1>4 DEF Plain, Clock, clock_passes, source_set_timeout, queues, structs
<1>. QED
  BY <1>2, <1>3, <1>4, LibraryKeeps, CallbacksKeep, ProgramKeeps DEF SourcesNext

\* Every reachable state satisfies the invariant of frames and queues.
LEMMA SourcesInvariance == SourcesSpec => [](IInv /\ SInv)
<1>1. SourcesSpec => []IInv
  BY SourcesImplementEventLoop, LoopInvariance, PTL
<1>2. SInv /\ IInv /\ [SourcesNext]_all => SInv'
  BY SourcesStepKeeps
<1>. QED
  BY <1>1, <1>2, SourcesInitEstablishes, PTL DEF SourcesSpec

\* A loop calls no pointer that an init function left as it was, and an event
\* handler only if it was set since (ccevents-sources-fd.c:86-88), however
\* callbacks initialise, set and dequeue the sources and nest their calls.
THEOREM CallbacksCorrect == SourcesSpec => []CallbacksAreCurrent
<1>1. IInv /\ SInv => CallbacksAreCurrent
  <2>. SUFFICES ASSUME IInv, SInv PROVE CallbacksAreCurrent
    OBVIOUS
  <2>1. Running("source") => /\ At("inquirer") => callbacks[Self] # "stale"
                             /\ At("event_handler") => callbacks[Self] = "set"
    BY TopFrame DEF IInv, SInv
  <2>. QED
    BY <2>1 DEF CallbacksAreCurrent, At
<1>. QED
  BY <1>1, SourcesInvariance, PTL

LEMMA SettingsOfReleased ==
  ASSUME SInv, IInv, [SourcesNext]_all, NEW s \in finalised, s \in finalised'
  PROVE  enabled'[s] = enabled[s] /\ expiration'[s] = expiration[s] /\ callbacks'[s] = callbacks[s]
<1>s. s \in Sources
  BY DEF IInv, TypeOK
<1>t. TypeOK /\ KindsOK
  BY DEF IInv, SInv
<1>1. CASE UNCHANGED <<enabled, expiration, callbacks>>
  BY <1>1
<1>2. CASE \/ \E n \in Bub!Signals : send(n) \/ deliver(n)
           \/ signal_bub_source_init_clear
           \/ UNCHANGED all
  BY <1>1, <1>2 DEF send, deliver, signal_bub_source_init_clear, all, vars, settings, structs
<1>3. CASE Plain(LibraryStep)
  BY <1>1, <1>3
  DEF Plain, LibraryStep, loop_turn, loop_return, group_turn, group_return,
      is_disabled, is_expired, query, Goto, settings, structs
<1>4. CASE Plain(Clock)
  BY <1>4, <1>s, <1>t DEF Plain, Clock, clock_passes, source_set_timeout, structs, TypeOK
<1>5. CASE CallbackMoves
  <2>1. UNCHANGED <<settings, callbacks>>
    BY <1>5
    DEF CallbackMoves, signal_asks, signal_answers, acquirer_acquires, acquirer_answers,
        timer_answers, fd_answers, default_event_query, query_fd, task_answers, handler_ends,
        found_event, found_no_event, handled, raise, unwound, Goto, Plain, vars, structs
  <2>. QED
    BY <2>1, <1>1 DEF settings
<1>6. CASE ProgramStep
  <2>1. ASSUME NEW r \in Sources, fd_source_init(r) \/ timer_source_init(r)
                                  \/ task_source_init(r) \/ signal_bub_source_init(r)
        PROVE  /\ enabled'[s] = enabled[s] /\ expiration'[s] = expiration[s]
               /\ callbacks'[s] = callbacks[s]
    <3>1. base_init(r) /\ \E new \in Callbacks :
                            callbacks' = [callbacks EXCEPT ![r] = new] \/ callbacks' = callbacks
      BY <2>1 DEF fd_source_init, timer_source_init, task_source_init,
                  signal_bub_source_init, structs, Callbacks
    <3>2. r # s
      BY <3>1 DEF base_init, source_init
    <3>. QED
      BY <3>1, <3>2, <1>s, <1>t DEF base_init, source_init, TypeOK, KindsOK
  <2>2. ASSUME NEW r \in Sources,
               fd_source_set(r) \/ task_source_set(r) \/ signal_bub_source_set(r)
        PROVE  /\ enabled'[s] = enabled[s] /\ expiration'[s] = expiration[s]
               /\ callbacks'[s] = callbacks[s]
    BY <2>2, <1>s, <1>t
    DEF fd_source_set, task_source_set, signal_bub_source_set, set_callbacks, vars,
        settings, KindsOK
  <2>3. ASSUME \/ \E g \in Groups, r \in Sources : enqueue_source(g, r)
               \/ \E l \in Loops, g \in Groups : Plain(loop_enqueue_group(l, g))
               \/ Plain(DequeueOp) \/ Plain(FinalisingOp)
        PROVE  UNCHANGED <<enabled, expiration, callbacks>>
    BY <2>3 DEF enqueue_source, Plain, group_enqueue_source, loop_enqueue_group,
                DequeueOp, group_dequeue_source, source_dequeue_itself,
                loop_dequeue_group, group_dequeue_itself,
                FinalisingOp, group_final, loop_final, release, settings, structs
  <2>4. ASSUME Plain(SettingOfAdjusted)
        PROVE  /\ enabled'[s] = enabled[s] /\ expiration'[s] = expiration[s]
               /\ callbacks'[s] = callbacks[s]
    BY <2>4, <1>s, <1>t
    DEF Plain, SettingOfAdjusted, SettingOp, group_post_request_to_leave,
        loop_post_request_to_leave, source_set_servicing, source_set_timeout, settings,
        structs, TypeOK
  <2>5. ASSUME Plain(EnterOp)
        PROVE  UNCHANGED <<enabled, expiration, callbacks>>
    BY <2>5 DEF Plain, EnterOp, loop_enter, group_enter, do_one_event, settings, structs
  <2>. QED
    BY <1>1, <1>6, <2>1, <2>2, <2>3, <2>4, <2>5, SourcesAssumption DEF ProgramStep
<1>. QED
  BY <1>2, <1>3, <1>4, <1>5, <1>6 DEF SourcesNext

\* A source that a callback released, perhaps its own event handler, is not
\* touched any more (sources-base.c:161-167), whatever it was and whoever else is
\* on the stack.
THEOREM ReleasedCorrect == SourcesSpec => ReleasedIsLeftAlone
<1>. DEFINE LeftAlone ==
       \A s \in finalised \cap finalised' :
         /\ enabled'[s] = enabled[s] /\ expiration'[s] = expiration[s]
         /\ callbacks'[s] = callbacks[s]
         /\ ~(IsInquired(s) \/ IsInquired(s)')
<1>1. SInv /\ IInv /\ SInv' /\ [SourcesNext]_all => LeftAlone
  <2>. SUFFICES ASSUME SInv, IInv, SInv', [SourcesNext]_all, NEW s \in finalised, s \in finalised'
                PROVE  /\ enabled'[s] = enabled[s] /\ expiration'[s] = expiration[s]
                       /\ callbacks'[s] = callbacks[s]
                       /\ ~(IsInquired(s) \/ IsInquired(s)')
    OBVIOUS
  <2>1. ~IsInquired(s) /\ ~IsInquired(s)'
    BY DEF SInv, FramesOK, FrameOK, IsInquired
  <2>. QED
    BY <2>1, SettingsOfReleased
<1>2. SInv /\ IInv /\ SInv' /\ [SourcesNext]_all => [LeftAlone]_all
  BY <1>1
<1>. QED
  BY <1>2, SourcesInvariance, PTL DEF SourcesSpec, ReleasedIsLeftAlone

(***************************************************************************)
(* A step of Sources is also a step of SignalBub, but not from its initial *)
(* state: the interface is initialised.  What SignalBub keeps is kept in   *)
(* a loop.                                                                 *)
(***************************************************************************)

PollingOps == {"acquire", "delivered", "source_init"}

Polling == INSTANCE SignalBubProofs WITH Ops <- PollingOps

LEMMA PollingAssumption == Polling!SignalAssumption
  BY SourcesAssumption DEF PollingOps

LEMMA SourcesStepIsPolling ==
  ASSUME MaskOK, ReportsOK, TypeOK, [SourcesNext]_all
  PROVE  [Polling!Next]_(Polling!vars)
<1>. USE DEF Polling!vars, Polling!kernel, Polling!history
<1>1. ASSUME UNCHANGED bub
      PROVE  UNCHANGED Polling!vars
  BY <1>1 DEF bub
<1>2. CASE \E n \in Bub!Signals : send(n) \/ deliver(n)
  BY <1>2 DEF send, deliver, Bub!send, Bub!handle, Bub!Signals, Polling!Signals, Polling!send,
              Polling!handle, Polling!Kernel, Polling!Next, MaskOK
<1>3. CASE signal_asks
  <2>1. type[Self].signum \in Bub!Signals
    BY <1>3, SelfIsSource DEF signal_asks, Asked, At, ReportsOK, Types, Bub!Signals
  <2>. QED
    BY <1>3, <2>1 DEF signal_asks, Bub!delivered, Bub!Signals, Polling!Signals,
       Polling!delivered, Polling!Call, Polling!Next, PollingOps, Bub!kernel, Bub!history
<1>4. CASE signal_answers \/ signal_bub_source_init_clear
  BY <1>4 DEF signal_answers, signal_bub_source_init_clear, Bub!delivered_clear,
     Bub!source_init_clear, Bub!clear_flag, Bub!OwedWithout, Bub!kernel, Polling!delivered_clear,
     Polling!source_init_clear, Polling!clear_flag, Polling!OwedWithout, Polling!Inside, Polling!Next
<1>5. CASE acquirer_acquires
  BY <1>5 DEF acquirer_acquires, Bub!acquire, Bub!Active, Bub!Signals, Polling!acquire,
     Polling!Active, Polling!Signals, Polling!Call, Polling!Next, PollingOps
<1>6. CASE acquirer_answers
  BY <1>6 DEF acquirer_answers, Bub!acquire_block, Bub!Signals, Bub!history,
     Polling!acquire_block, Polling!Signals, Polling!Inside, Polling!Next
<1>7. ASSUME NEW s \in Sources, signal_bub_source_init(s)
      PROVE  Polling!Next
  <2>1. type[s].signum \in Bub!Signals
    BY DEF ReportsOK, Types, Bub!Signals
  <2>. QED
    BY <1>7, <2>1 DEF signal_bub_source_init, Bub!source_init, Bub!Signals, Bub!kernel,
       Bub!history, Polling!Signals, Polling!source_init, Polling!Call, Polling!Next, PollingOps
<1>8. CASE CallbackMoves
  <2>1. timer_answers \/ fd_answers \/ task_answers \/ handler_ends \/ Plain(unwound)
          => UNCHANGED bub
    BY DEF timer_answers, fd_answers, default_event_query, query_fd, task_answers,
           handler_ends, Plain
  <2>. QED
    BY <1>8, <2>1, <1>1, <1>3, <1>4, <1>5, <1>6 DEF CallbackMoves
<1>9. CASE ProgramStep
  <2>1. UNCHANGED bub \/ \E s \in Sources : signal_bub_source_init(s)
    BY <1>9, SourcesAssumption
    DEF ProgramStep, fd_source_init, timer_source_init, task_source_init, fd_source_set,
        task_source_set, signal_bub_source_set, set_callbacks, enqueue_source, Plain
  <2>. QED
    BY <2>1, <1>1, <1>7
<1>10. CASE Plain(LibraryStep) \/ Plain(Clock) \/ UNCHANGED all
  BY <1>1, <1>10 DEF Plain, all
<1>. QED
  BY <1>2, <1>4, <1>8, <1>9, <1>10 DEF SourcesNext

LEMMA PollingEstablished == SourcesInit => Polling!IInv
<1>. SUFFICES ASSUME SourcesInit PROVE Polling!IInv
  OBVIOUS
<1>. USE DEF Bub!Signals, Polling!Signals
<1>1. Polling!TypeOK /\ Polling!NoSignalLost
  <2>1. 0 \in Bub!Signals
    BY SourcesAssumption
  <2>2. arrived \in [Bub!Signals -> BOOLEAN]
    BY Zenon DEF SourcesInit
  <2>. QED
    BY <2>1, <2>2 DEF SourcesInit, Polling!TypeOK, Polling!Places, Polling!NoSignalLost
<1>2. Polling!Shielded
  BY DEF SourcesInit, Polling!Shielded, Polling!InitLoop, Polling!FinalLoop, Polling!Active
<1>3. /\ Polling!LoopProgress /\ Polling!AtFirst /\ Polling!FlagIsCurrent
      /\ Polling!DefaultsBlocked
  BY DEF SourcesInit, Polling!LoopProgress, Polling!InitLoop, Polling!FinalLoop,
         Polling!AtFirst, Polling!FlagIsCurrent, Polling!DefaultsBlocked
<1>. QED
  BY <1>1, <1>2, <1>3 DEF Polling!IInv

LEMMA PollingInvariance == SourcesSpec => []Polling!IInv
<1>1. IInv => TypeOK
  BY DEF IInv
<1>2. Polling!IInv /\ IInv /\ ReportsOK /\ MaskOK /\ [SourcesNext]_all => Polling!IInv'
  BY <1>1, SourcesStepIsPolling, Polling!StepKeeps, PollingAssumption
<1>. QED
  BY <1>2, PollingEstablished, ReportsInvariance, PTL DEF SourcesSpec

\* No signal is lost between being sent and being reported to a source, when
\* signals are acquired and asked for from the callbacks of a loop
\* (ccevents-sources-signal.c:92-124).
THEOREM SignalsKeptInLoop == SourcesSpec => []Bub!NoSignalLost
<1>1. Polling!IInv => Bub!NoSignalLost
  BY DEF Polling!IInv, Polling!NoSignalLost, Bub!NoSignalLost, Polling!Reporting, Bub!Reporting
<1>. QED
  BY <1>1, PollingInvariance, PTL

\* Sources, queues, frames, signals and pointers keep their types.
THEOREM SourcesTypeCorrect == SourcesSpec => []SourcesTypeOK
<1>1. IInv /\ SInv /\ Polling!IInv /\ unhandled \subseteq Bub!Signals /\ type \in Designs
        => SourcesTypeOK
  BY DEF IInv, SInv, KindsOK, Polling!IInv, Polling!TypeOK, Bub!TypeOK, Polling!Signals,
         Bub!Signals, Polling!Places, Bub!Places, SourcesTypeOK
<1>2. SourcesInit => unhandled \subseteq Bub!Signals /\ type \in Designs
  BY DEF SourcesInit
<1>3. /\ unhandled \subseteq Bub!Signals /\ type \in Designs /\ [SourcesNext]_all
      => (unhandled \subseteq Bub!Signals /\ type \in Designs)'
  <2>. SUFFICES ASSUME [SourcesNext]_all
                PROVE  /\ UNCHANGED type
                       /\ \/ unhandled' \subseteq unhandled
                          \/ \E n \in Bub!Signals : unhandled' = unhandled \cup {n}
    BY DEF Bub!Signals
  <2>1. CASE ProgramStep
    BY <2>1
    DEF ProgramStep, fd_source_init, timer_source_init, task_source_init,
        signal_bub_source_init, fd_source_set, task_source_set, signal_bub_source_set,
        set_callbacks, enqueue_source, Plain, structs
  <2>2. CASE CallbackMoves
    BY <2>2
    DEF CallbackMoves, signal_asks, signal_answers, acquirer_acquires, acquirer_answers,
        timer_answers, fd_answers, default_event_query, query_fd, task_answers, handler_ends,
        Plain, structs
  <2>3. CASE \/ \E n \in Bub!Signals : send(n) \/ deliver(n)
             \/ signal_bub_source_init_clear
             \/ Plain(LibraryStep) \/ Plain(Clock)
             \/ UNCHANGED all
    BY <2>3 DEF send, deliver, signal_bub_source_init_clear, Plain, all, structs
  <2>. QED
    BY <2>1, <2>2, <2>3 DEF SourcesNext
<1>. QED
  BY <1>1, <1>2, <1>3, SourcesInvariance, PollingInvariance, PTL DEF SourcesSpec
=============================================================================
