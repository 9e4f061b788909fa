---------------------------- MODULE MCEventLoop ----------------------------
(* Small instances of module EventLoop for TLC. *)
EXTENDS EventLoop, TLC

CONSTANTS g1, g2, s1, s2, s3

\* The first group makes up to two attempts per call, the others one.
TwoWatermarks == [g \in Groups |-> IF g = g1 THEN 2 ELSE 1]

\* Where the program starts: the groups in the loops, the sources in the
\* groups.
AllInLoop == [l \in Loops |-> <<g1, g2>>]
OneEach == [g \in Groups |-> IF g = g1 THEN <<s1>> ELSE <<s2>>]
TwoAndOne == [g \in Groups |-> IF g = g1 THEN <<s1, s2>> ELSE <<s3>>]

\* What it does while it runs.
SourceQueueOps == {"enqueue_source", "dequeue_source", "source_dequeue_itself"}
GroupQueueOps == {"enqueue_group", "dequeue_group", "group_dequeue_itself"}
RequestOps == {"post_group_leave", "post_loop_leave"}

CallbackOps ==
  SourceQueueOps \cup GroupQueueOps \cup RequestOps \cup
  {"group_final", "loop_final", "source_init", "source_final", "do_one_event",
   "loop_enter", "group_enter"}

\* Programs that enqueue nothing while the loop runs.
ServiceOps ==
  {"source_dequeue_itself", "post_group_leave", "enable", "disable",
   "set_timeout", "loop_enter"}
=============================================================================
