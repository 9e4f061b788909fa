----------------------------- MODULE MCSources -----------------------------
(* A small instance of module Sources for TLC. *)
EXTENDS Sources

CONSTANTS g1, s1, s2, s3

Watermarks == [g \in Groups |-> 1]
OneGroup == [l \in Loops |-> <<g1>>]
TwoSources == [g \in Groups |-> <<s1, s2>>]

\* A source for a signal, and one of any kind.
SignalAndAny ==
  {[s \in Sources |-> IF s = s1 THEN [kind |-> "task", signum |-> 0]
                     ELSE IF s = s2 THEN [kind |-> "signal", signum |-> 0] ELSE t] :
     t \in {u \in Types : u.signum = 0 \/ u.kind = "signal"}}

LoopOps ==
  {"enqueue_source", "dequeue_source", "source_dequeue_itself",
   "enqueue_group", "dequeue_group", "group_dequeue_itself",
   "source_init", "source_final", "group_final", "loop_final",
   "disable", "enable", "set_timeout", "loop_enter"}
=============================================================================
