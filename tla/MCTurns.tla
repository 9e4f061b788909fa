------------------------------ MODULE MCTurns ------------------------------
(* Small instances of module Turns for TLC. *)
EXTENDS Turns, TLC

CONSTANTS g1, g2, g3, s1, s2, s3

Watermarks == [g \in Groups |-> 2]

\* All groups in the loop, all sources in the first group.
OneGroup == [l \in Loops |-> <<g1>>]
ThreeGroups == [l \in Loops |-> <<g1, g2, g3>>]
TwoSources == [g \in Groups |-> <<s1, s2>>]
ThreeSources == [g \in Groups |-> IF g = g1 THEN <<s1, s2, s3>> ELSE <<>>]

NestedOps ==
  {"post_group_leave", "post_loop_leave", "enqueue_source",
   "source_dequeue_itself", "loop_enter", "group_enter", "do_one_event"}
QueueOps ==
  {"enqueue_group", "dequeue_group", "group_dequeue_itself",
   "enqueue_source", "source_dequeue_itself", "loop_enter"}
=============================================================================
