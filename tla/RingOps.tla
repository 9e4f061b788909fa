------------------------------ MODULE RingOps ------------------------------
(***************************************************************************)
(* What the operations of src/src/ccevents-queues.c do to a queue, seen as *)
(* the finite sequence of its nodes read from the current node along the   *)
(* "next" pointers.  The head of the sequence is the current node.         *)
(***************************************************************************)
EXTENDS Naturals, Sequences

\* ccevents_queue_enqueue: the new node is linked before the current one
\* and becomes the current one.
Enqueued(ring, node) == <<node>> \o ring

\* ccevents_queue_dequeue: the current node leaves, its successor is current.
Dequeued(ring) == IF ring = <<>> THEN <<>> ELSE Tail(ring)

\* ccevents_queue_advance_current: the current node becomes the last one.
Advanced(ring) == IF ring = <<>> THEN <<>> ELSE Append(Tail(ring), Head(ring))

Members(ring) == {ring[i] : i \in DOMAIN ring}

\* ccevents_queue_node_dequeue_itself: the node leaves, wherever it is.
Without(ring, node) ==
  IF node \notin Members(ring) THEN ring
  ELSE LET at == CHOOSE i \in DOMAIN ring : ring[i] = node
       IN SubSeq(ring, 1, at - 1) \o SubSeq(ring, at + 1, Len(ring))

\* a comes before b on the way from the current node round the ring.
Ahead(ring, a, b) ==
  \E i, j \in DOMAIN ring : i < j /\ ring[i] = a /\ ring[j] = b
=============================================================================
