------------------------------- MODULE Ring -------------------------------
(***************************************************************************)
(* What the queues of ccevents promise to groups and loops: every queue is *)
(* a sequence of nodes without repetitions, no node is in two queues, and  *)
(* each operation edits exactly the sequence of the queue it is applied    *)
(* to.  Module Queue, the doubly linked lists of the source, implements it.*)
(***************************************************************************)
EXTENDS RingOps

CONSTANTS Nodes, Queues

VARIABLE ring

TypeOK == ring \in [Queues -> Seq(Nodes)]

Free(n) == \A q \in Queues : n \notin Members(ring[q])

Init == ring = [q \in Queues |-> <<>>]

Enqueue(q, n) ==
  /\ Free(n)
  /\ ring' = [ring EXCEPT ![q] = Enqueued(@, n)]

Dequeue(q) == ring' = [ring EXCEPT ![q] = Dequeued(@)]

AdvanceCurrent(q) == ring' = [ring EXCEPT ![q] = Advanced(@)]

DequeueItself(n) == ring' = [q \in Queues |-> Without(ring[q], n)]

Next ==
  \/ \E q \in Queues : Dequeue(q) \/ AdvanceCurrent(q)
  \/ \E q \in Queues, n \in Nodes : Enqueue(q, n)
  \/ \E n \in Nodes : DequeueItself(n)

Spec == Init /\ [][Next]_ring
=============================================================================
