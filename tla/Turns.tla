------------------------------- MODULE Turns -------------------------------
(***************************************************************************)
(* Module EventLoop with a history: who had a turn while whom was waiting. *)
(* A turn of a source is an attempt by group_enter, a turn of a group is a *)
(* call of group_enter by loop_enter.                                      *)
(***************************************************************************)
EXTENDS EventLoop, Functions

VARIABLE overtaken \* waiting x |-> the y that had a turn since the last turn
                   \* of x, both being in the same queue all the time

Items == Sources \cup Groups

\* The queues the program starts from are such as enqueuing makes them.
ASSUME TurnsAssumption ==
  /\ Sources \cap Groups = {}
  /\ \A g \in Groups : IsInjective(FirstSources[g])
  /\ \A l \in Loops : IsInjective(FirstGroups[l])
  /\ \A l, m \in Loops :  \* a group is in one loop at a time
       l # m => Members(FirstGroups[l]) \cap Members(FirstGroups[m]) = {}

Together(x, y) ==
  \/ \E g \in Groups : {x, y} \subseteq Members(sources[g])
  \/ \E l \in Loops : {x, y} \subseteq Members(groups[l])

\* The item that this step gives a turn to, if any.
HasTurn(x) ==
  /\ Len(stack') > Len(stack)
  /\ \/ Running("group") /\ Head(stack').proc = "source"
     \/ Running("loop") /\ Head(stack').proc = "group"
  /\ Head(stack').obj = x

TurnsInit == Init /\ overtaken = [x \in Items |-> {}]

TurnsNext ==
  /\ Next
  /\ overtaken' =
       [x \in Items |->
         IF HasTurn(x) THEN {}
         ELSE {y \in Items \ {x} :
                 /\ y \in overtaken[x] \/ HasTurn(y)
                 /\ Together(x, y) /\ Together(x, y)'}]

TurnsSpec == TurnsInit /\ [][TurnsNext]_<<vars, overtaken>>

\* Round robin among the sources of a group: a source that had its turn while
\* another one was waiting is behind it in the queue, so it cannot have a
\* second turn before the other one has its first, whatever the callbacks
\* dequeue, enqueue or enter (groups.c:113-122).
SourcesTakeTurns ==
  \A g \in Groups : \A x, y \in Members(sources[g]) :
    y \in overtaken[x] => Ahead(sources[g], x, y)

\* The same among the groups of a loop (loops.c:83-91).
GroupsTakeTurns ==
  \A l \in Loops : \A x, y \in Members(groups[l]) :
    y \in overtaken[x] => Ahead(groups[l], x, y)
=============================================================================
