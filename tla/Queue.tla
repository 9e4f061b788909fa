------------------------------- MODULE Queue -------------------------------
(***************************************************************************)
(* The circular doubly linked lists of src/src/ccevents-queues.c, pointer  *)
(* by pointer.  A group keeps its event sources and a loop keeps its       *)
(* groups in such a queue; a node knows the queue it is in (base).         *)
(*                                                                         *)
(* One action per library operation.  The operations are plain functions   *)
(* of a single-threaded library, so each one is a single step.             *)
(***************************************************************************)
EXTENDS Naturals, FiniteSets

CONSTANTS Nodes,   \* ccevents_queue_node_t instances
          Queues,  \* ccevents_queue_t instances
          NULL     \* the null pointer

ASSUME QueueAssumption ==
  /\ IsFiniteSet(Nodes)
  /\ NULL \notin Nodes
  /\ NULL \notin Queues

VARIABLES base,            \* node |-> the queue it is in, or NULL
          next, prev,      \* node |-> its neighbours in the ring, or NULL
          current,         \* queue |-> the current node, or NULL
          number_of_nodes  \* queue |-> the counter of its nodes

vars == <<base, next, prev, current, number_of_nodes>>

MembersOf(q) == {n \in Nodes : base[n] = q}

TypeOK ==
  /\ base \in [Nodes -> Queues \cup {NULL}]
  /\ next \in [Nodes -> Nodes \cup {NULL}]
  /\ prev \in [Nodes -> Nodes \cup {NULL}]
  /\ current \in [Queues -> Nodes \cup {NULL}]
  /\ number_of_nodes \in [Queues -> 0..Cardinality(Nodes)]

(***************************************************************************)
(* Operations.                                                             *)
(***************************************************************************)

\* ccevents_queue_init on every queue, ccevents_queue_node_init on every node.
Init ==
  /\ base = [n \in Nodes |-> NULL]
  /\ next = [n \in Nodes |-> NULL]
  /\ prev = [n \in Nodes |-> NULL]
  /\ current = [q \in Queues |-> NULL]
  /\ number_of_nodes = [q \in Queues |-> 0]

is_not_empty(q) == current[q] # NULL

node_is_enqueued(n) == base[n] # NULL

\* Fault: the queue is walked against the order.
Fault_advance_backwards(q) ==
  /\ is_not_empty(q)
  /\ current' = [current EXCEPT ![q] = prev[current[q]]]
  /\ UNCHANGED <<base, next, prev, number_of_nodes>>

advance_current(q) ==
  /\ current' = IF is_not_empty(q)
                THEN [current EXCEPT ![q] = next[current[q]]]
                ELSE current
  /\ UNCHANGED <<base, next, prev, number_of_nodes>>

\* Fault: a new node is always linked to itself only.
Fault_enqueue_alone(q, n) ==
  /\ ~node_is_enqueued(n)
  /\ next' = [next EXCEPT ![n] = n]
  /\ prev' = [prev EXCEPT ![n] = n]
  /\ base' = [base EXCEPT ![n] = q]
  /\ current' = [current EXCEPT ![q] = n]
  /\ number_of_nodes' = [number_of_nodes EXCEPT ![q] = @ + 1]

\* The new node is linked between the current one and its predecessor.  The
\* code does not test it, but the caller must not enqueue an enqueued node.
enqueue(q, n) ==
  /\ ~node_is_enqueued(n)
  /\ IF is_not_empty(q)
     THEN LET old == current[q]
              before == prev[old]
          IN /\ next' = [next EXCEPT ![n] = old, ![before] = n]
             /\ prev' = [prev EXCEPT ![old] = n, ![n] = before]
     ELSE /\ next' = [next EXCEPT ![n] = n]
          /\ prev' = [prev EXCEPT ![n] = n]
  /\ base' = [base EXCEPT ![n] = q]
  /\ current' = [current EXCEPT ![q] = n]
  /\ number_of_nodes' = [number_of_nodes EXCEPT ![q] = @ + 1]

\* Whether the old current node is alone is decided by the counter, not by
\* the pointers.
dequeue(q) ==
  IF is_not_empty(q)
  THEN LET old == current[q]
           others == number_of_nodes[q] - 1
       IN /\ number_of_nodes' = [number_of_nodes EXCEPT ![q] = others]
          /\ base' = [base EXCEPT ![old] = NULL]
          /\ IF others # 0
             THEN /\ current' = [current EXCEPT ![q] = next[old]]
                  /\ prev' = [prev EXCEPT ![next[old]] = prev[old], ![old] = NULL]
                  /\ next' = [next EXCEPT ![prev[old]] = next[old], ![old] = NULL]
             ELSE /\ current' = [current EXCEPT ![q] = NULL]
                  /\ prev' = [prev EXCEPT ![old] = NULL]
                  /\ next' = [next EXCEPT ![old] = NULL]
  ELSE UNCHANGED vars

\* Fault: only one of the two neighbours learns of the removal.
Fault_extract_one_way(n) ==
  /\ prev' = [prev EXCEPT ![n] = NULL]
  /\ next' = [next EXCEPT ![prev[n]] = next[n], ![n] = NULL]
  /\ number_of_nodes' = [number_of_nodes EXCEPT ![base[n]] = @ - 1]
  /\ base' = [base EXCEPT ![n] = NULL]
  /\ UNCHANGED current

\* Fault: the counter is forgotten.
Fault_extract_uncounted(n) ==
  /\ prev' = [prev EXCEPT ![next[n]] = prev[n], ![n] = NULL]
  /\ next' = [next EXCEPT ![prev[n]] = next[n], ![n] = NULL]
  /\ base' = [base EXCEPT ![n] = NULL]
  /\ UNCHANGED <<current, number_of_nodes>>

\* A node that is not the current one of its queue is cut out of the ring.
extract(n) ==
  /\ prev' = [prev EXCEPT ![next[n]] = prev[n], ![n] = NULL]
  /\ next' = [next EXCEPT ![prev[n]] = next[n], ![n] = NULL]
  /\ number_of_nodes' = [number_of_nodes EXCEPT ![base[n]] = @ - 1]
  /\ base' = [base EXCEPT ![n] = NULL]
  /\ UNCHANGED current

\* Fault: the current node gets no special handling.
Fault_dequeue_itself_no_special(n) ==
  IF ~node_is_enqueued(n) THEN UNCHANGED vars ELSE extract(n)

node_dequeue_itself(n) ==
  IF ~node_is_enqueued(n) THEN UNCHANGED vars
  ELSE IF current[base[n]] = n THEN dequeue(base[n])
  ELSE extract(n)

Next ==
  \/ \E q \in Queues : advance_current(q) \/ dequeue(q)
  \/ \E q \in Queues, n \in Nodes : enqueue(q, n)
  \/ \E n \in Nodes : node_dequeue_itself(n)

Spec == Init /\ [][Next]_vars

(***************************************************************************)
(* Properties.                                                             *)
(***************************************************************************)

Linked(n) ==
  /\ next[n] \in Nodes /\ base[next[n]] = base[n] /\ prev[next[n]] = n
  /\ prev[n] \in Nodes /\ base[prev[n]] = base[n] /\ next[prev[n]] = n

Detached(n) == next[n] = NULL /\ prev[n] = NULL

\* The neighbour pointers of an enqueued node stay inside its queue and undo
\* each other; a node that left its queue keeps no pointer into it.  A
\* removal that forgets one of the two directions of ccevents-queues.c:112-114
\* or 150-155 breaks it, often many operations later.
Links == \A n \in Nodes : IF node_is_enqueued(n) THEN Linked(n) ELSE Detached(n)

\* A queue has a current node exactly while nodes name it as their base, and
\* the current node is one of them: is_not_empty (ccevents.h:230-235) answers
\* for the whole ring, though it looks at one pointer.
CurrentInside ==
  \A q \in Queues :
    IF is_not_empty(q) THEN base[current[q]] = q ELSE MembersOf(q) = {}

\* The counter is the number of nodes of the ring.  The removal of the current
\* node trusts the counter to tell the last node from the others
\* (ccevents-queues.c:109-118).
CountExact == \A q \in Queues : number_of_nodes[q] = Cardinality(MembersOf(q))

\* From the current node, following next meets every node of the queue: the
\* nodes are one ring, never two.  Stated without walking the list: a set that
\* holds the current node and is closed under next holds them all.
OneRing ==
  \A q \in Queues : is_not_empty(q) =>
    \A S \in SUBSET Nodes :
      (current[q] \in S /\ \A n \in S \cap MembersOf(q) : next[n] \in S)
        => MembersOf(q) \subseteq S

(***************************************************************************)
(* The pointers implement the sequences of module Ring.                    *)
(***************************************************************************)

RingOf(q) ==
  LET walk[i \in 1..number_of_nodes[q]] ==
        IF i = 1 THEN current[q] ELSE next[walk[i - 1]]
  IN  walk

rings == [q \in Queues |-> RingOf(q)]

Abstract == INSTANCE Ring WITH ring <- rings

\* Every operation on the pointers has the effect its caller counts on, on its
\* own queue and on no other: enqueue puts the node at the current position,
\* dequeue takes the current one, advance rotates, dequeue_itself removes
\* without disturbing the order of the rest.
ImplementsRing == Abstract!Spec
=============================================================================
