---------------------------- MODULE QueueProofs ----------------------------
(***************************************************************************)
(* The ring of module Queue is well formed for any finite set of nodes and *)
(* any set of queues.  The inductive invariant is the conjunction of the   *)
(* properties TLC checks: none of them is inductive alone, because dequeue *)
(* tells the last node by the counter (CountExact) and the removal of any  *)
(* other node relies on its neighbours being other nodes (OneRing).        *)
(***************************************************************************)
EXTENDS Queue, RingOpsProofs

\* TypeOK without the bound of the counters, which follows from CountExact.
Types ==
  /\ base \in [Nodes -> Queues \cup {NULL}]
  /\ next \in [Nodes -> Nodes \cup {NULL}]
  /\ prev \in [Nodes -> Nodes \cup {NULL}]
  /\ current \in [Queues -> Nodes \cup {NULL}]
  /\ number_of_nodes \in [Queues -> Nat]

IInv == Types /\ Links /\ CurrentInside /\ CountExact /\ OneRing

\* The members of a queue are finitely many.
LEMMA MembersFinite ==
  ASSUME NEW q \in Queues
  PROVE  /\ IsFiniteSet(MembersOf(q))
         /\ Cardinality(MembersOf(q)) \in Nat
         /\ Cardinality(MembersOf(q)) <= Cardinality(Nodes)
<1>1. MembersOf(q) \in SUBSET Nodes
  BY DEF MembersOf
<1>2. IsFiniteSet(MembersOf(q)) /\ Cardinality(MembersOf(q)) <= Cardinality(Nodes)
  BY <1>1, FS_Subset, QueueAssumption
<1>. QED
  BY <1>2, FS_CardinalityType

\* The invariant bounds the counters, as TypeOK says.
LEMMA CountersBounded == IInv => TypeOK
<1>. SUFFICES ASSUME IInv PROVE TypeOK
  OBVIOUS
<1>1. Cardinality(Nodes) \in Nat
  BY FS_CardinalityType, QueueAssumption
<1>2. ASSUME NEW q \in Queues PROVE number_of_nodes[q] \in 0..Cardinality(Nodes)
  BY <1>1, MembersFinite DEF IInv, CountExact
<1>. QED
  BY <1>2 DEF TypeOK, IInv, Types

\* How the counter, the set of members and the pointers of the current node
\* agree on whether the current node is the only one.
LEMMA OnlyNode ==
  ASSUME IInv, NEW q \in Queues, current[q] # NULL
  PROVE  /\ current[q] \in Nodes
         /\ base[current[q]] = q
         /\ number_of_nodes[q] \in Nat \ {0}
         /\ number_of_nodes[q] = 1 => MembersOf(q) = {current[q]}
         /\ number_of_nodes[q] # 1 => next[current[q]] # current[q]
<1>. DEFINE c == current[q]
<1>1. c \in Nodes /\ base[c] = q /\ c \in MembersOf(q)
  BY DEF IInv, Types, CurrentInside, is_not_empty, MembersOf
<1>2. IsFiniteSet(MembersOf(q)) /\ number_of_nodes[q] = Cardinality(MembersOf(q))
  BY MembersFinite DEF IInv, CountExact
<1>3. number_of_nodes[q] \in Nat \ {0}
  BY <1>1, <1>2, FS_EmptySet, FS_CardinalityType
<1>4. number_of_nodes[q] = 1 => MembersOf(q) = {c}
  <2>. SUFFICES ASSUME number_of_nodes[q] = 1 PROVE MembersOf(q) = {c}
    OBVIOUS
  <2>1. PICK x : MembersOf(q) = {x}
    BY <1>2, FS_Singleton
  <2>. QED
    BY <1>1, <2>1
<1>5. next[c] = c => MembersOf(q) = {c}
  <2>. SUFFICES ASSUME next[c] = c PROVE MembersOf(q) = {c}
    OBVIOUS
  <2>1. {c} \in SUBSET Nodes /\ c \in {c} /\ \A n \in {c} \cap MembersOf(q) : next[n] \in {c}
    BY <1>1
  <2>2. MembersOf(q) \subseteq {c}
    BY <2>1 DEF IInv, OneRing, is_not_empty
  <2>. QED
    BY <1>1, <2>2
<1>6. Cardinality({c}) = 1
  BY FS_Singleton
<1>. QED
  BY <1>1, <1>2, <1>3, <1>4, <1>5, <1>6

\* The empty queues of Init.
LEMMA InitInvariant == Init => IInv
<1>. SUFFICES ASSUME Init PROVE IInv
  OBVIOUS
<1>1. Types
  BY DEF Init, Types
<1>2. Links
  BY DEF Init, Links, Detached, node_is_enqueued
<1>3. \A q \in Queues : MembersOf(q) = {}
  BY QueueAssumption DEF Init, MembersOf
<1>4. CurrentInside /\ OneRing
  BY <1>3 DEF Init, CurrentInside, OneRing, is_not_empty
<1>5. CountExact
  BY <1>3, FS_EmptySet DEF Init, CountExact
<1>. QED
  BY <1>1, <1>2, <1>4, <1>5 DEF IInv

(***************************************************************************)
(* Going one node round the ring.                                          *)
(***************************************************************************)

LEMMA AdvanceKeeps ==
  ASSUME IInv, NEW q \in Queues, advance_current(q)
  PROVE  IInv'
<1>. USE DEF advance_current
<1>1. CASE ~is_not_empty(q)
  <2>1. UNCHANGED vars
    BY <1>1 DEF vars
  <2>. QED
    BY <2>1 DEF vars, IInv, Types, Links, Linked, Detached, node_is_enqueued,
       CurrentInside, CountExact, OneRing, is_not_empty, MembersOf
<1>2. CASE is_not_empty(q)
  <2>. DEFINE c == current[q]
  <2>1. c \in Nodes /\ base[c] = q /\ next[c] \in Nodes /\ base[next[c]] = q
    BY <1>2, OnlyNode, QueueAssumption
       DEF IInv, Links, Linked, node_is_enqueued, is_not_empty
  <2>2. current' = [current EXCEPT ![q] = next[c]]
    BY <1>2
  <2>3. Types'
    BY <2>1, <2>2 DEF IInv, Types
  <2>4. Links'
    BY DEF IInv, Links, Linked, Detached, node_is_enqueued
  <2>5. CurrentInside'
    BY <2>1, <2>2, QueueAssumption
       DEF IInv, Types, CurrentInside, is_not_empty, MembersOf
  <2>6. CountExact'
    BY DEF IInv, CountExact, MembersOf
  <2>7. OneRing'
    <3>. SUFFICES ASSUME NEW p \in Queues, is_not_empty(p)', NEW S \in SUBSET Nodes,
                         current'[p] \in S,
                         \A n \in S \cap MembersOf(p) : next[n] \in S
                  PROVE  MembersOf(p) \subseteq S
      BY DEF OneRing, MembersOf
    <3>1. CASE p # q
      BY <3>1, <2>2 DEF IInv, Types, OneRing, is_not_empty
    <3>2. CASE p = q
      <4>. DEFINE T == S \cup {c}
      <4>1. next[c] \in S
        BY <3>2, <2>2 DEF IInv, Types
      <4>2. T \in SUBSET Nodes /\ current[p] \in T
            /\ \A n \in T \cap MembersOf(p) : next[n] \in T
        BY <3>2, <2>1, <4>1
      <4>3. MembersOf(p) \subseteq T
        BY <4>2, <3>2, <1>2 DEF IInv, OneRing
      <4>4. CASE c \in S
        BY <4>3, <4>4
      \* Otherwise S without c is already closed, so c would not be reached.
      <4>5. CASE c \notin S
        <5>1. prev[c] \in MembersOf(p) /\ next[prev[c]] = c /\ prev[c] \in Nodes
          BY <3>2, <2>1, QueueAssumption
             DEF IInv, Links, Linked, node_is_enqueued, MembersOf
        <5>2. prev[c] \in S \/ prev[c] = c
          BY <5>1, <4>3
        <5>3. prev[c] # c
          BY <5>1, <4>1, <4>5
        <5>. QED
          BY <5>1, <5>2, <5>3, <4>5
      <4>. QED
        BY <4>4, <4>5
    <3>. QED
      BY <3>1, <3>2
  <2>. QED
    BY <2>3, <2>4, <2>5, <2>6, <2>7 DEF IInv
<1>. QED
  BY <1>1, <1>2

(***************************************************************************)
(* Adding a node.                                                          *)
(***************************************************************************)

\* What enqueue does to the members and the counters, in either branch.
LEMMA EnqueueMembers ==
  ASSUME IInv, NEW q \in Queues, NEW n \in Nodes, enqueue(q, n)
  PROVE  /\ \A p \in Queues : MembersOf(p)' = IF p = q THEN MembersOf(q) \cup {n}
                                                       ELSE MembersOf(p)
         /\ n \notin MembersOf(q)
         /\ CountExact'
<1>. base[n] = NULL /\ base' = [base EXCEPT ![n] = q]
     /\ number_of_nodes' = [number_of_nodes EXCEPT ![q] = @ + 1]
  BY DEF enqueue, node_is_enqueued
<1>1. n \notin MembersOf(q)
  BY QueueAssumption DEF MembersOf
<1>2. \A p \in Queues : MembersOf(p)' = IF p = q THEN MembersOf(q) \cup {n}
                                                 ELSE MembersOf(p)
  BY QueueAssumption DEF IInv, Types, MembersOf
<1>3. Cardinality(MembersOf(q) \cup {n}) = Cardinality(MembersOf(q)) + 1
  BY <1>1, MembersFinite, FS_AddElement
<1>4. CountExact'
  BY <1>2, <1>3 DEF IInv, Types, CountExact
<1>. QED
  BY <1>1, <1>2, <1>4

LEMMA EnqueueKeeps ==
  ASSUME IInv, NEW q \in Queues, NEW n \in Nodes, enqueue(q, n)
  PROVE  IInv'
<1>1. base[n] = NULL /\ base' = [base EXCEPT ![n] = q]
      /\ current' = [current EXCEPT ![q] = n]
      /\ number_of_nodes' = [number_of_nodes EXCEPT ![q] = @ + 1]
  BY DEF enqueue, node_is_enqueued
<1>2. CurrentInside'
  <2>1. \A p \in Queues : base'[n] = q /\ (p # q => MembersOf(p)' = MembersOf(p))
    BY <1>1, EnqueueMembers DEF IInv, Types
  <2>. QED
    BY <1>1, <2>1, QueueAssumption
       DEF IInv, Types, CurrentInside, is_not_empty, MembersOf
\* The first node of a queue.
<1>3. CASE ~is_not_empty(q)
  <2>1. next' = [next EXCEPT ![n] = n] /\ prev' = [prev EXCEPT ![n] = n]
    BY <1>3 DEF enqueue
  <2>2. Types'
    BY <1>1, <2>1 DEF IInv, Types
  <2>3. Links'
    BY <1>1, <2>1, QueueAssumption
       DEF IInv, Types, Links, Linked, Detached, node_is_enqueued
  <2>4. MembersOf(q) = {}
    BY <1>3 DEF IInv, CurrentInside
  <2>5. OneRing'
    <3>. SUFFICES ASSUME NEW p \in Queues, is_not_empty(p)', NEW S \in SUBSET Nodes,
                         current'[p] \in S,
                         \A m \in S \cap MembersOf(p)' : next'[m] \in S
                  PROVE  MembersOf(p)' \subseteq S
      BY DEF OneRing
    <3>1. CASE p = q
      BY <3>1, <1>1, <2>4, EnqueueMembers DEF IInv, Types
    <3>2. CASE p # q
      <4>1. MembersOf(p)' = MembersOf(p) /\ current'[p] = current[p]
        BY <3>2, <1>1, EnqueueMembers DEF IInv, Types
      <4>2. n \notin MembersOf(p)
        BY <1>1, QueueAssumption DEF MembersOf
      <4>3. \A m \in S \cap MembersOf(p) : next[m] \in S
        BY <4>1, <4>2, <2>1 DEF IInv, Types, MembersOf
      <4>. QED
        BY <4>1, <4>3 DEF IInv, OneRing, is_not_empty
    <3>. QED
      BY <3>1, <3>2
  <2>. QED
    BY <1>2, <2>2, <2>3, <2>5, EnqueueMembers DEF IInv
\* A node before the current one.
<1>4. CASE is_not_empty(q)
  <2>. DEFINE old == current[q]
              before == prev[old]
  <2>1. /\ old \in Nodes /\ base[old] = q
        /\ before \in Nodes /\ base[before] = q /\ next[before] = old
    BY <1>4, OnlyNode, QueueAssumption
       DEF IInv, Links, Linked, node_is_enqueued, is_not_empty
  <2>2. n # old /\ n # before
    BY <1>1, <2>1, QueueAssumption
  <2>3. /\ next' = [next EXCEPT ![n] = old, ![before] = n]
        /\ prev' = [prev EXCEPT ![old] = n, ![n] = before]
    BY <1>4 DEF enqueue
  <2>4. Types'
    BY <1>1, <2>1, <2>3 DEF IInv, Types
  <2>5. /\ \A m \in Nodes : next'[m] = IF m = n THEN old ELSE IF m = before THEN n ELSE next[m]
        /\ \A m \in Nodes : prev'[m] = IF m = n THEN before ELSE IF m = old THEN n ELSE prev[m]
        /\ \A m \in Nodes : base'[m] = IF m = n THEN q ELSE base[m]
    BY <1>1, <2>1, <2>2, <2>3 DEF IInv, Types
  <2>6. Links'
    <3>. SUFFICES ASSUME NEW m \in Nodes
                  PROVE  IF base'[m] # NULL THEN Linked(m)' ELSE Detached(m)'
      BY DEF Links, node_is_enqueued
    <3>1. IF base[m] # NULL THEN Linked(m) ELSE Detached(m)
      BY DEF IInv, Links, node_is_enqueued
    <3>2. CASE m = n
      BY <3>2, <2>1, <2>2, <2>5, QueueAssumption DEF Linked
    <3>3. CASE m # n /\ base[m] = NULL
      BY <3>1, <3>3, <2>1, <2>2, <2>5, QueueAssumption DEF Detached
    <3>4. CASE m # n /\ base[m] # NULL
      <4>1. next[m] # n /\ prev[m] # n
        BY <3>1, <3>4, <1>1 DEF Linked
      <4>2. next[m] = old => m = before
        BY <3>1, <3>4 DEF Linked
      <4>. QED
        BY <3>1, <3>4, <4>1, <4>2, <2>1, <2>2, <2>5 DEF Linked
    <3>. QED
      BY <3>2, <3>3, <3>4
  <2>7. OneRing'
    <3>. SUFFICES ASSUME NEW p \in Queues, is_not_empty(p)', NEW S \in SUBSET Nodes,
                         current'[p] \in S,
                         \A m \in S \cap MembersOf(p)' : next'[m] \in S
                  PROVE  MembersOf(p)' \subseteq S
      BY DEF OneRing
    <3>1. CASE p = q
      <4>1. n \in S /\ MembersOf(p)' = MembersOf(q) \cup {n}
        BY <3>1, <1>1, EnqueueMembers DEF IInv, Types
      <4>2. old \in S
        BY <4>1, <2>5
      <4>3. \A m \in S \cap MembersOf(q) : next[m] \in S
        BY <3>1, <4>1, <4>2, <2>1, <2>5, EnqueueMembers DEF MembersOf
      <4>4. MembersOf(q) \subseteq S
        BY <4>2, <4>3, <1>4 DEF IInv, OneRing
      <4>. QED
        BY <4>1, <4>4
    <3>2. CASE p # q
      <4>1. MembersOf(p)' = MembersOf(p) /\ current'[p] = current[p]
        BY <3>2, <1>1, EnqueueMembers DEF IInv, Types
      <4>2. n \notin MembersOf(p) /\ before \notin MembersOf(p)
        BY <3>2, <1>1, <2>1, QueueAssumption DEF MembersOf
      <4>3. \A m \in S \cap MembersOf(p) : next[m] \in S
        BY <4>1, <4>2, <2>5 DEF MembersOf
      <4>. QED
        BY <4>1, <4>3 DEF IInv, OneRing, is_not_empty
    <3>. QED
      BY <3>1, <3>2
  <2>. QED
    BY <1>2, <2>4, <2>6, <2>7, EnqueueMembers DEF IInv
<1>. QED
  BY <1>3, <1>4

(***************************************************************************)
(* Removing a node.                                                        *)
(***************************************************************************)

\* What a removal does to the members and the counters.
LEMMA RemoveMembers ==
  ASSUME IInv, NEW q \in Queues, NEW n \in Nodes, base[n] = q,
         base' = [base EXCEPT ![n] = NULL],
         number_of_nodes' = [number_of_nodes EXCEPT ![q] = @ - 1]
  PROVE  /\ \A p \in Queues : MembersOf(p)' = IF p = q THEN MembersOf(q) \ {n}
                                                       ELSE MembersOf(p)
         /\ \A p \in Queues : p # q => n \notin MembersOf(p)
         /\ number_of_nodes' \in [Queues -> Nat]
         /\ CountExact'
<1>1. \A p \in Queues : MembersOf(p)' = IF p = q THEN MembersOf(q) \ {n}
                                                 ELSE MembersOf(p)
  BY QueueAssumption DEF IInv, Types, MembersOf
<1>2. n \in MembersOf(q)
  BY DEF MembersOf
<1>3. Cardinality(MembersOf(q) \ {n}) = Cardinality(MembersOf(q)) - 1
      /\ Cardinality(MembersOf(q) \ {n}) \in Nat
  BY <1>2, MembersFinite, FS_RemoveElement, FS_CardinalityType
<1>4. CountExact' /\ number_of_nodes' \in [Queues -> Nat]
  BY <1>1, <1>3 DEF IInv, Types, CountExact
<1>. QED
  BY <1>1, <1>4 DEF MembersOf

\* Cutting a node out between two neighbours that are other nodes: common to
\* the two removal branches that leave other nodes behind.
LEMMA UnlinkKeeps ==
  ASSUME IInv, NEW q \in Queues, NEW n \in Nodes, base[n] = q,
         next[n] # n,
         prev' = [prev EXCEPT ![next[n]] = prev[n], ![n] = NULL],
         next' = [next EXCEPT ![prev[n]] = next[n], ![n] = NULL],
         base' = [base EXCEPT ![n] = NULL],
         number_of_nodes' = [number_of_nodes EXCEPT ![q] = @ - 1],
         current' = IF current[q] = n THEN [current EXCEPT ![q] = next[n]] ELSE current
  PROVE  IInv'
<1>. DEFINE after == next[n]
            before == prev[n]
<1>1. /\ after \in Nodes /\ base[after] = q /\ prev[after] = n
      /\ before \in Nodes /\ base[before] = q /\ next[before] = n
      /\ after # n /\ before # n
  BY QueueAssumption DEF IInv, Links, Linked, node_is_enqueued
<1>2. /\ \A m \in Nodes : next'[m] = IF m = n THEN NULL ELSE IF m = before THEN after ELSE next[m]
      /\ \A m \in Nodes : prev'[m] = IF m = n THEN NULL ELSE IF m = after THEN before ELSE prev[m]
      /\ \A m \in Nodes : base'[m] = IF m = n THEN NULL ELSE base[m]
  BY <1>1 DEF IInv, Types
<1>3. Types'
  BY <1>1, RemoveMembers DEF IInv, Types
<1>4. Links'
  <2>. SUFFICES ASSUME NEW m \in Nodes
                PROVE  IF base'[m] # NULL THEN Linked(m)' ELSE Detached(m)'
    BY DEF Links, node_is_enqueued
  <2>1. IF base[m] # NULL THEN Linked(m) ELSE Detached(m)
    BY DEF IInv, Links, node_is_enqueued
  <2>2. CASE m = n
    BY <2>2, <1>2 DEF Detached
  <2>3. CASE m # n /\ base[m] = NULL
    BY <2>1, <2>3, <1>1, <1>2, QueueAssumption DEF Detached
  <2>4. CASE m # n /\ base[m] # NULL
    <3>1. next[m] = n => m = before
      BY <2>1, <2>4 DEF Linked
    <3>2. prev[m] = n => m = after
      BY <2>1, <2>4 DEF Linked
    <3>3. next[m] = after => m = n
      BY <2>1, <2>4, <1>1 DEF Linked
    <3>4. prev[m] = before => m = n
      BY <2>1, <2>4, <1>1 DEF Linked
    <3>5. next'[m] \in Nodes /\ base'[next'[m]] = base'[m] /\ prev'[next'[m]] = m
      <4>1. CASE m = before
        <5>1. next'[m] = after
          BY <4>1, <2>4, <1>2
        <5>2. prev'[after] = m /\ base'[after] = q /\ base'[m] = q
          BY <4>1, <2>4, <1>1, <1>2
        <5>. QED
          BY <5>1, <5>2, <1>1
      <4>2. CASE m # before
        <5>1. next'[m] = next[m] /\ next[m] \in Nodes /\ prev[next[m]] = m
              /\ base[next[m]] = base[m]
          BY <4>2, <2>1, <2>4, <1>2 DEF Linked
        <5>2. next[m] # n /\ next[m] # after
          BY <4>2, <2>4, <3>1, <3>3
        <5>3. prev'[next[m]] = prev[next[m]] /\ base'[next[m]] = base[next[m]]
          BY <5>1, <5>2, <1>2
        <5>. QED
          BY <5>1, <5>3, <2>4, <1>2
      <4>. QED
        BY <4>1, <4>2
    <3>6. prev'[m] \in Nodes /\ base'[prev'[m]] = base'[m] /\ next'[prev'[m]] = m
      <4>1. CASE m = after
        <5>1. prev'[m] = before
          BY <4>1, <2>4, <1>2
        <5>2. next'[before] = m /\ base'[before] = q /\ base'[m] = q
          BY <4>1, <2>4, <1>1, <1>2
        <5>. QED
          BY <5>1, <5>2, <1>1
      <4>2. CASE m # after
        <5>1. prev'[m] = prev[m] /\ prev[m] \in Nodes /\ next[prev[m]] = m
              /\ base[prev[m]] = base[m]
          BY <4>2, <2>1, <2>4, <1>2 DEF Linked
        <5>2. prev[m] # n /\ prev[m] # before
          BY <4>2, <2>4, <3>2, <3>4
        <5>3. next'[prev[m]] = next[prev[m]] /\ base'[prev[m]] = base[prev[m]]
          BY <5>1, <5>2, <1>2
        <5>. QED
          BY <5>1, <5>3, <2>4, <1>2
      <4>. QED
        BY <4>1, <4>2
    <3>. QED
      BY <2>4, <3>5, <3>6, <1>2 DEF Linked
  <2>. QED
    BY <2>2, <2>3, <2>4
<1>5. CurrentInside'
  <2>. SUFFICES ASSUME NEW p \in Queues
                PROVE  IF current'[p] # NULL THEN base'[current'[p]] = p
                                             ELSE MembersOf(p)' = {}
    BY DEF CurrentInside, is_not_empty
  <2>1. IF current[p] # NULL THEN current[p] \in Nodes /\ base[current[p]] = p
                             ELSE MembersOf(p) = {}
    BY DEF IInv, Types, CurrentInside, is_not_empty
  <2>2. CASE p = q /\ current[q] = n
    BY <2>2, <1>1, <1>2, QueueAssumption DEF IInv, Types
  <2>3. CASE ~(p = q /\ current[q] = n)
    <3>1. current'[p] = current[p]
      BY <2>3 DEF IInv, Types
    <3>2. CASE current[p] # NULL
      <4>1. current[p] # n
        BY <2>1, <2>3, <3>2
      <4>. QED
        BY <2>1, <3>1, <3>2, <4>1, <1>2
    <3>3. CASE current[p] = NULL
      BY <2>1, <3>1, <3>3, RemoveMembers
    <3>. QED
      BY <3>2, <3>3
  <2>. QED
    BY <2>2, <2>3
<1>6. OneRing'
  <2>. SUFFICES ASSUME NEW p \in Queues, is_not_empty(p)', NEW S \in SUBSET Nodes,
                       current'[p] \in S,
                       \A m \in S \cap MembersOf(p)' : next'[m] \in S
                PROVE  MembersOf(p)' \subseteq S
    BY DEF OneRing
  <2>1. CASE p # q
    <3>1. MembersOf(p)' = MembersOf(p) /\ current'[p] = current[p]
      BY <2>1, RemoveMembers DEF IInv, Types
    <3>2. n \notin MembersOf(p) /\ before \notin MembersOf(p)
      BY <2>1, <1>1 DEF MembersOf
    <3>3. \A m \in S \cap MembersOf(p) : next[m] \in S
      BY <3>1, <3>2, <1>2 DEF MembersOf
    <3>. QED
      BY <3>1, <3>3 DEF IInv, OneRing, is_not_empty
  <2>2. CASE p = q
    <3>1. MembersOf(p)' = MembersOf(q) \ {n}
      BY <2>2, RemoveMembers
    <3>2. current[q] # NULL /\ current[q] \in Nodes
      BY QueueAssumption DEF IInv, Types, CurrentInside, is_not_empty, MembersOf
    \* The closed set before the removal: with n if its predecessor is inside
    \* or n is the current node, without it otherwise.
    <3>3. CASE before \in S \/ current[q] = n
      <4>. DEFINE T == S \cup {n}
      <4>1. after \in S
        <5>1. CASE current[q] = n
          BY <5>1, <2>2 DEF IInv, Types
        <5>2. CASE before \in S
          <6>1. before \in S \cap MembersOf(p)'
            BY <5>2, <3>1, <1>1 DEF MembersOf
          <6>2. next'[before] = after
            BY <1>1, <1>2
          <6>. QED
            BY <6>1, <6>2
        <5>. QED
          BY <3>3, <5>1, <5>2
      <4>2. current[q] \in T /\ T \in SUBSET Nodes
        BY <2>2 DEF IInv, Types
      <4>3. \A m \in T \cap MembersOf(q) : next[m] \in T
        BY <3>1, <4>1, <1>1, <1>2 DEF MembersOf
      <4>4. MembersOf(q) \subseteq T
        <5>. HIDE DEF T
        <5>. QED
          BY <3>2, <4>2, <4>3 DEF IInv, OneRing, is_not_empty
      <4>. QED
        BY <3>1, <4>4
    <3>4. CASE before \notin S /\ current[q] # n
      <4>. DEFINE T == S \ {n}
      <4>1. current[q] \in T /\ T \in SUBSET Nodes
        BY <3>4, <2>2 DEF IInv, Types
      <4>2. \A m \in T \cap MembersOf(q) : next[m] \in T
        <5>. SUFFICES ASSUME NEW m \in T \cap MembersOf(q) PROVE next[m] \in T
          OBVIOUS
        <5>1. m # before /\ m # n /\ base[m] = q /\ m \in Nodes
          BY <3>4 DEF MembersOf
        <5>2. next[m] \in S
          BY <5>1, <3>1, <2>2, <1>2
        <5>3. next[m] # n
          BY <5>1, QueueAssumption DEF IInv, Links, Linked, node_is_enqueued
        <5>. QED
          BY <5>2, <5>3
      <4>3. MembersOf(q) \subseteq T
        <5>. HIDE DEF T
        <5>. QED
          BY <3>2, <4>1, <4>2 DEF IInv, OneRing, is_not_empty
      <4>. QED
        BY <3>1, <4>3
    <3>. QED
      BY <3>3, <3>4
  <2>. QED
    BY <2>1, <2>2
<1>. QED
  BY <1>3, <1>4, <1>5, <1>6, RemoveMembers DEF IInv

\* The removal of the last node of a queue.
LEMMA RemoveLastKeeps ==
  ASSUME IInv, NEW q \in Queues, NEW n \in Nodes, base[n] = q, MembersOf(q) = {n},
         prev' = [prev EXCEPT ![n] = NULL],
         next' = [next EXCEPT ![n] = NULL],
         base' = [base EXCEPT ![n] = NULL],
         number_of_nodes' = [number_of_nodes EXCEPT ![q] = @ - 1],
         current' = [current EXCEPT ![q] = NULL]
  PROVE  IInv'
<1>1. Types'
  BY RemoveMembers DEF IInv, Types
<1>2. MembersOf(q)' = {}
  BY RemoveMembers
<1>3. \A m \in Nodes : m # n => /\ next'[m] = next[m]
                                /\ prev'[m] = prev[m]
                                /\ base'[m] = base[m]
                                /\ base[m] # q
  BY DEF IInv, Types, MembersOf
<1>4. Links'
  <2>. SUFFICES ASSUME NEW m \in Nodes
                PROVE  IF base'[m] # NULL THEN Linked(m)' ELSE Detached(m)'
    BY DEF Links, node_is_enqueued
  <2>1. IF base[m] # NULL THEN Linked(m) ELSE Detached(m)
    BY DEF IInv, Links, node_is_enqueued
  <2>2. CASE m = n
    BY <2>2 DEF IInv, Types, Detached
  <2>3. CASE m # n
    BY <2>1, <2>3, <1>3 DEF Linked, Detached
  <2>. QED
    BY <2>2, <2>3
<1>5. \A p \in Queues : p # q => /\ MembersOf(p)' = MembersOf(p)
                                 /\ current'[p] = current[p]
                                 /\ n \notin MembersOf(p)
  BY RemoveMembers DEF IInv, Types
<1>6. CurrentInside'
  <2>. SUFFICES ASSUME NEW p \in Queues
                PROVE  IF current'[p] # NULL THEN base'[current'[p]] = p
                                             ELSE MembersOf(p)' = {}
    BY DEF CurrentInside, is_not_empty
  <2>1. CASE p = q
    BY <2>1, <1>2 DEF IInv, Types
  <2>2. CASE p # q
    BY <2>2, <1>3, <1>5 DEF IInv, Types, CurrentInside, is_not_empty, MembersOf
  <2>. QED
    BY <2>1, <2>2
<1>7. OneRing'
  <2>. SUFFICES ASSUME NEW p \in Queues, is_not_empty(p)', NEW S \in SUBSET Nodes,
                       current'[p] \in S,
                       \A m \in S \cap MembersOf(p)' : next'[m] \in S
                PROVE  MembersOf(p)' \subseteq S
    BY DEF OneRing
  <2>1. CASE p = q
    BY <2>1, <1>2
  <2>2. CASE p # q
    <3>1. \A m \in S \cap MembersOf(p) : next[m] \in S
      BY <2>2, <1>3, <1>5 DEF MembersOf
    <3>. QED
      BY <2>2, <3>1, <1>5 DEF IInv, OneRing, is_not_empty
  <2>. QED
    BY <2>1, <2>2
<1>. QED
  BY <1>1, <1>4, <1>6, <1>7, RemoveMembers DEF IInv

\* ccevents_queue_dequeue: the counter tells which removal it is.
LEMMA DequeueKeeps ==
  ASSUME IInv, NEW q \in Queues, dequeue(q)
  PROVE  IInv'
<1>1. CASE ~is_not_empty(q)
  <2>1. UNCHANGED vars
    BY <1>1 DEF dequeue
  <2>. QED
    BY <2>1 DEF vars, IInv, Types, Links, Linked, Detached, node_is_enqueued,
       CurrentInside, CountExact, OneRing, is_not_empty, MembersOf
<1>2. CASE is_not_empty(q)
  <2>. DEFINE n == current[q]
  <2>1. /\ n \in Nodes /\ base[n] = q
        /\ number_of_nodes[q] \in Nat \ {0}
        /\ number_of_nodes[q] = 1 => MembersOf(q) = {n}
        /\ number_of_nodes[q] # 1 => next[n] # n
    BY <1>2, OnlyNode DEF is_not_empty
  <2>2. /\ base' = [base EXCEPT ![n] = NULL]
        /\ number_of_nodes' = [number_of_nodes EXCEPT ![q] = @ - 1]
    BY <1>2 DEF dequeue
  <2>3. CASE number_of_nodes[q] = 1
    <3>1. /\ prev' = [prev EXCEPT ![n] = NULL]
          /\ next' = [next EXCEPT ![n] = NULL]
          /\ current' = [current EXCEPT ![q] = NULL]
      BY <1>2, <2>3 DEF dequeue
    <3>. QED
      BY <2>1, <2>2, <2>3, <3>1, RemoveLastKeeps
  <2>4. CASE number_of_nodes[q] # 1
    <3>1. /\ prev' = [prev EXCEPT ![next[n]] = prev[n], ![n] = NULL]
          /\ next' = [next EXCEPT ![prev[n]] = next[n], ![n] = NULL]
          /\ current' = [current EXCEPT ![q] = next[n]]
      BY <1>2, <2>1, <2>4 DEF dequeue
    <3>. QED
      BY <2>1, <2>2, <2>4, <3>1, UnlinkKeeps
  <2>. QED
    BY <2>3, <2>4
<1>. QED
  BY <1>1, <1>2

\* ccevents_queue_node_dequeue_itself.  A node that is not the current one has
\* another node as its successor, or it would be out of reach of the current.
LEMMA DequeueItselfKeeps ==
  ASSUME IInv, NEW n \in Nodes, node_dequeue_itself(n)
  PROVE  IInv'
<1>. DEFINE q == base[n]
<1>1. CASE ~node_is_enqueued(n)
  <2>1. UNCHANGED vars
    BY <1>1 DEF node_dequeue_itself
  <2>. QED
    BY <2>1 DEF vars, IInv, Types, Links, Linked, Detached, node_is_enqueued,
       CurrentInside, CountExact, OneRing, is_not_empty, MembersOf
<1>2. CASE node_is_enqueued(n) /\ current[q] = n
  <2>1. q \in Queues /\ dequeue(q)
    BY <1>2 DEF node_dequeue_itself, IInv, Types, node_is_enqueued
  <2>. QED
    BY <2>1, DequeueKeeps
<1>3. CASE node_is_enqueued(n) /\ current[q] # n
  <2>1. q \in Queues /\ extract(n)
    BY <1>3 DEF node_dequeue_itself, IInv, Types, node_is_enqueued
  <2>2. current[q] \in Nodes /\ is_not_empty(q)
    BY <2>1, QueueAssumption DEF IInv, Types, CurrentInside, is_not_empty, MembersOf
  <2>3. next[n] # n
    <3>. SUFFICES ASSUME next[n] = n PROVE FALSE
      OBVIOUS
    <3>. DEFINE S == Nodes \ {n}
    <3>1. \A m \in S \cap MembersOf(q) : next[m] \in S
      <4>. SUFFICES ASSUME NEW m \in S \cap MembersOf(q) PROVE next[m] \in S
        OBVIOUS
      <4>1. m \in Nodes /\ m # n /\ Linked(m) /\ Linked(n)
        BY <1>3, <2>1, QueueAssumption DEF IInv, Links, node_is_enqueued, MembersOf
      <4>. QED
        BY <4>1 DEF Linked
    <3>2. S \in SUBSET Nodes /\ current[q] \in S
      BY <1>3, <2>2
    <3>3. MembersOf(q) \subseteq S
      BY <2>1, <2>2, <3>1, <3>2 DEF IInv, OneRing
    <3>. QED
      BY <3>3 DEF MembersOf
  <2>4. /\ prev' = [prev EXCEPT ![next[n]] = prev[n], ![n] = NULL]
        /\ next' = [next EXCEPT ![prev[n]] = next[n], ![n] = NULL]
        /\ base' = [base EXCEPT ![n] = NULL]
        /\ number_of_nodes' = [number_of_nodes EXCEPT ![q] = @ - 1]
        /\ current' = IF current[q] = n THEN [current EXCEPT ![q] = next[n]] ELSE current
    BY <1>3, <2>1 DEF extract
  <2>. QED
    BY <2>1, <2>3, <2>4, UnlinkKeeps
<1>. QED
  BY <1>1, <1>2, <1>3

(***************************************************************************)
(* The theorems.                                                           *)
(***************************************************************************)

LEMMA StepInvariant == IInv /\ [Next]_vars => IInv'
<1>. SUFFICES ASSUME IInv, [Next]_vars PROVE IInv'
  OBVIOUS
<1>1. ASSUME NEW q \in Queues, advance_current(q) PROVE IInv'
  BY <1>1, AdvanceKeeps
<1>2. ASSUME NEW q \in Queues, dequeue(q) PROVE IInv'
  BY <1>2, DequeueKeeps
<1>3. ASSUME NEW q \in Queues, NEW n \in Nodes, enqueue(q, n) PROVE IInv'
  BY <1>3, EnqueueKeeps
<1>4. ASSUME NEW n \in Nodes, node_dequeue_itself(n) PROVE IInv'
  BY <1>4, DequeueItselfKeeps
<1>5. CASE UNCHANGED vars
  BY <1>5 DEF vars, IInv, Types, Links, Linked, Detached, node_is_enqueued,
     CurrentInside, CountExact, OneRing, is_not_empty, MembersOf
<1>. QED
  BY <1>1, <1>2, <1>3, <1>4, <1>5 DEF Next

\* The five parts of the invariant hold together whatever operations of
\* ccevents-queues.c are called, on any queues and nodes.
THEOREM Invariance == Spec => []IInv
<1>. QED
  BY InitInvariant, StepInvariant, PTL DEF Spec

\* Every pointer and counter of a queue keeps its type, and no counter exceeds
\* the number of nodes there are.
THEOREM TypeCorrect == Spec => []TypeOK
<1>. QED
  BY Invariance, CountersBounded, PTL

\* The neighbour pointers of ccevents-queues.c are inverse to each other within
\* a queue, and a node outside of all queues has none.
THEOREM LinksCorrect == Spec => []Links
<1>1. IInv => Links
  BY DEF IInv
<1>. QED
  BY <1>1, Invariance, PTL

\* A queue is empty for is_not_empty exactly when no node names it as its base.
THEOREM CurrentCorrect == Spec => []CurrentInside
<1>1. IInv => CurrentInside
  BY DEF IInv
<1>. QED
  BY <1>1, Invariance, PTL

\* The counter that dequeue trusts is the number of nodes of the queue.
THEOREM CountCorrect == Spec => []CountExact
<1>1. IInv => CountExact
  BY DEF IInv
<1>. QED
  BY <1>1, Invariance, PTL

\* Following next from the current node meets every node of the queue.
THEOREM RingCorrect == Spec => []OneRing
<1>1. IInv => OneRing
  BY DEF IInv
<1>. QED
  BY <1>1, Invariance, PTL

(***************************************************************************)
(* The pointers implement the sequences of module Ring.                    *)
(*                                                                         *)
(* RingOf walks along next as far as the counter says.  That the walk is   *)
(* the ring, with every member once and the last one linked to the first,  *)
(* is one more invariant: each operation turns the ring into the one that  *)
(* the operation of RingOps returns.                                       *)
(***************************************************************************)

\* ring is what one reads from the current node of q along next.
RingIs(q, ring) ==
  /\ ring \in Seq(Nodes) /\ Len(ring) = number_of_nodes[q]
  /\ \A i, j \in 1..Len(ring) : ring[i] = ring[j] => i = j
  /\ \A i \in 1..Len(ring) : base[ring[i]] = q
  /\ \A n \in MembersOf(q) : \E i \in 1..Len(ring) : ring[i] = n
  /\ Len(ring) > 0 => current[q] = ring[1]
  /\ \A i \in 1..Len(ring) :
       next[ring[i]] = IF i = Len(ring) THEN ring[1] ELSE ring[i + 1]

RingInv == \A q \in Queues : RingIs(q, RingOf(q))

\* Two walks that begin alike and go on alike do not part: induction on the
\* number of steps.
LEMMA WalksAgree ==
  ASSUME NEW n \in Nat, NEW f, NEW g,
         n > 0 => f[1] = g[1],
         \A i \in 1..(n - 1) : f[i] = g[i] => f[i + 1] = g[i + 1]
  PROVE  \A i \in 1..n : f[i] = g[i]
<1>. DEFINE Agree == {i \in 1..n : f[i] = g[i]}
<1>1. CASE n = 0
  BY <1>1
<1>2. CASE n > 0
  <2>1. 1 \in Agree
    BY <1>2
  <2>2. ASSUME NEW i \in Agree, i \in 1..(n - 1) PROVE i + 1 \in Agree
    BY <2>2
  <2>. HIDE DEF Agree
  <2>3. 1..n \subseteq Agree
    BY <2>1, <2>2, SetInduction
  <2>. QED
    BY <2>3 DEF Agree
<1>. QED
  BY <1>1, <1>2

LEMMA RingOfIs ==
  \A q \in Queues : \A ring : RingIs(q, ring) => RingOf(q) = ring
<1>. SUFFICES ASSUME NEW q \in Queues, NEW ring, RingIs(q, ring)
              PROVE  RingOf(q) = ring
  OBVIOUS
<1>. DEFINE Step(f) == [i \in 1..number_of_nodes[q] |->
                          IF i = 1 THEN current[q] ELSE next[f[i - 1]]]
            walk == CHOOSE f : f = Step(f)
<1>1. /\ Len(ring) \in Nat /\ DOMAIN ring = 1..Len(ring)
      /\ number_of_nodes[q] = Len(ring)
  BY DEF RingIs
<1>2. ASSUME NEW i \in 1..Len(ring)
      PROVE  ring[i] = IF i = 1 THEN current[q] ELSE next[ring[i - 1]]
  <2>1. CASE i = 1
    BY <1>1, <2>1 DEF RingIs
  <2>2. CASE i # 1
    <3>1. i - 1 \in 1..Len(ring) /\ i - 1 # Len(ring) /\ (i - 1) + 1 = i
      BY <1>1, <2>2
    <3>. QED
      BY <2>2, <3>1 DEF RingIs
  <2>. QED
    BY <2>1, <2>2
<1>3. ring = Step(ring)
  <2>1. ring = [i \in 1..Len(ring) |-> ring[i]]
    BY DEF RingIs
  <2>. QED
    BY <1>1, <1>2, <2>1
<1>4. walk = Step(walk)
  <2>. HIDE DEF Step
  <2>. QED
    BY <1>3
<1>5. walk = ring
  <2>. HIDE DEF walk
  <2>1. \A i \in 1..Len(ring) :
          walk[i] = IF i = 1 THEN current[q] ELSE next[walk[i - 1]]
    BY <1>1, <1>4
  <2>2. Len(ring) > 0 => walk[1] = ring[1]
    BY <1>1, <1>2, <2>1
  <2>3. ASSUME NEW i \in 1..(Len(ring) - 1), walk[i] = ring[i]
        PROVE  walk[i + 1] = ring[i + 1]
    <3>1. i + 1 \in 1..Len(ring) /\ i + 1 # 1 /\ (i + 1) - 1 = i
      BY <1>1
    <3>. QED
      BY <1>2, <2>1, <2>3, <3>1
  <2>4. \A i \in 1..Len(ring) : walk[i] = ring[i]
    <3>. DEFINE n == Len(ring)
    <3>1. n \in Nat
      BY <1>1
    <3>2. n > 0 => walk[1] = ring[1]
      BY <2>2
    <3>3. \A i \in 1..(n - 1) : walk[i] = ring[i] => walk[i + 1] = ring[i + 1]
      BY <2>3
    <3>. HIDE DEF n
    <3>4. \A i \in 1..n : walk[i] = ring[i]
      BY <3>1, <3>2, <3>3, WalksAgree
    <3>. QED
      BY <3>4 DEF n
  <2>5. walk = [i \in 1..Len(ring) |-> walk[i]]
    BY <1>1, <1>4
  <2>6. ring = [i \in 1..Len(ring) |-> ring[i]]
    BY <1>1, <1>3
  <2>. QED
    BY <2>4, <2>5, <2>6
<1>. QED
  BY <1>5 DEF RingOf

\* Init: all queues are empty.
LEMMA InitRings == Init => \A q \in Queues : RingIs(q, <<>>)
<1>. SUFFICES ASSUME Init, NEW q \in Queues PROVE RingIs(q, <<>>)
  OBVIOUS
<1>1. MembersOf(q) = {} /\ number_of_nodes[q] = 0
  BY QueueAssumption DEF Init, MembersOf
<1>2. <<>> \in Seq(Nodes) /\ Len(<<>>) = 0
  OBVIOUS
<1>. QED
  BY <1>1, <1>2 DEF RingIs

\* The ring holds the members of the queue, each once.
LEMMA RingInside ==
  ASSUME NEW q \in Queues, NEW ring, RingIs(q, ring)
  PROVE  /\ Len(ring) \in Nat /\ number_of_nodes[q] = Len(ring)
         /\ \A i \in 1..Len(ring) : ring[i] \in MembersOf(q) /\ ring[i] \in Nodes
         /\ \A i, j \in 1..Len(ring) : ring[i] = ring[j] => i = j
         /\ \A m \in MembersOf(q) : \E i \in 1..Len(ring) : ring[i] = m
<1>1. ASSUME NEW i \in 1..Len(ring)
      PROVE  ring[i] \in MembersOf(q) /\ ring[i] \in Nodes
  BY DEF RingIs, MembersOf
<1>. QED
  BY <1>1 DEF RingIs

\* An operation on another queue leaves a ring alone, if it keeps the pointers of
\* its members.
LEMMA OtherRing ==
  ASSUME NEW q \in Queues, NEW ring, RingIs(q, ring),
         number_of_nodes'[q] = number_of_nodes[q], current'[q] = current[q],
         MembersOf(q)' = MembersOf(q), \A n \in MembersOf(q) : next'[n] = next[n]
  PROVE  RingIs(q, ring)'
<1>1. /\ ring \in Seq(Nodes) /\ Len(ring) = number_of_nodes[q]
      /\ \A i, j \in 1..Len(ring) : ring[i] = ring[j] => i = j
      /\ \A n \in MembersOf(q) : \E i \in 1..Len(ring) : ring[i] = n
      /\ Len(ring) > 0 => current[q] = ring[1]
  BY DEF RingIs
<1>2. \A i \in 1..Len(ring) : ring[i] \in MembersOf(q)
  BY DEF RingIs, MembersOf
<1>3. \A i \in 1..Len(ring) : base'[ring[i]] = q
  BY <1>2 DEF MembersOf
<1>4. \A i \in 1..Len(ring) :
        next'[ring[i]] = IF i = Len(ring) THEN ring[1] ELSE ring[i + 1]
  BY <1>2 DEF RingIs
<1>. QED
  BY <1>1, <1>3, <1>4 DEF RingIs

LEMMA AdvanceRing ==
  ASSUME IInv, NEW q \in Queues, NEW ring, RingIs(q, ring), advance_current(q)
  PROVE  RingIs(q, Advanced(ring))'
<1>1. CASE ring = <<>>
  <2>1. MembersOf(q) = {}
    BY <1>1 DEF RingIs
  <2>2. ~is_not_empty(q)
    BY <2>1, OnlyNode DEF is_not_empty, MembersOf
  <2>3. UNCHANGED vars /\ Advanced(ring) = ring
    BY <1>1, <2>2 DEF advance_current, vars, Advanced
  <2>. QED
    BY <2>3 DEF vars, RingIs, MembersOf
<1>2. CASE ring # <<>>
  <2>. DEFINE turned == Advanced(ring)
              N == Len(ring)
  <2>1. N \in Nat \ {0} /\ ring \in Seq(Nodes) /\ current[q] = ring[1]
    BY <1>2 DEF RingIs
  <2>2. /\ turned \in Seq(Nodes) /\ Len(turned) = N
        /\ \A i \in 1..N : turned[i] = IF i = N THEN ring[1] ELSE ring[i + 1]
    BY <1>2, <2>1 DEF Advanced
  <2>3. current[q] \in Nodes /\ is_not_empty(q)
    BY <2>1, QueueAssumption DEF is_not_empty
  <2>4. /\ current' = [current EXCEPT ![q] = next[current[q]]]
        /\ UNCHANGED <<base, next, number_of_nodes>>
    BY <2>3 DEF advance_current
  <2>5. /\ MembersOf(q)' = MembersOf(q) /\ number_of_nodes'[q] = N
        /\ current'[q] = next[ring[1]]
    BY <2>1, <2>4 DEF MembersOf, RingIs, IInv, Types
  <2>. HIDE DEF turned, N
  <2>6. /\ \A i, j \in 1..N : ring[i] = ring[j] => i = j
        /\ \A i \in 1..N : base[ring[i]] = q
        /\ \A n \in MembersOf(q) : \E i \in 1..N : ring[i] = n
        /\ \A i \in 1..N : next[ring[i]] = IF i = N THEN ring[1] ELSE ring[i + 1]
    BY DEF RingIs, N
  <2>7. \A i, j \in 1..N : turned[i] = turned[j] => i = j
    BY <2>1, <2>2, <2>6
  <2>8. \A i \in 1..N : base[turned[i]] = q
    BY <2>1, <2>2, <2>6
  <2>9. ASSUME NEW n \in MembersOf(q) PROVE \E i \in 1..N : turned[i] = n
    <3>1. PICK i \in 1..N : ring[i] = n
      BY <2>6
    <3>2. CASE i = 1
      BY <2>1, <2>2, <3>1, <3>2
    <3>3. CASE i # 1
      <4>1. i - 1 \in 1..N /\ i - 1 # N /\ (i - 1) + 1 = i
        BY <2>1, <3>3
      <4>. QED
        BY <2>2, <3>1, <4>1
    <3>. QED
      BY <3>2, <3>3
  <2>10. current'[q] = turned[1]
    BY <2>1, <2>2, <2>5, <2>6
  <2>11. ASSUME NEW i \in 1..N
         PROVE  next[turned[i]] = IF i = N THEN turned[1] ELSE turned[i + 1]
    <3>1. CASE i = N
      BY <2>1, <2>2, <2>6, <3>1
    <3>2. CASE i # N
      <4>1. i + 1 \in 1..N /\ turned[i] = ring[i + 1]
        BY <2>1, <2>2, <3>2
      <4>2. turned[i + 1] = IF i + 1 = N THEN ring[1] ELSE ring[(i + 1) + 1]
        BY <2>2, <4>1
      <4>. QED
        BY <2>6, <3>2, <4>1, <4>2
    <3>. QED
      BY <3>1, <3>2
  <2>. QED
    BY <2>1, <2>2, <2>4, <2>5, <2>7, <2>8, <2>9, <2>10, <2>11 DEF RingIs, turned
<1>. QED
  BY <1>1, <1>2

\* The pointers to predecessors go the same ring backwards.
LEMMA RingBackwards ==
  ASSUME IInv, NEW q \in Queues, NEW ring, RingIs(q, ring)
  PROVE  \A i \in 1..Len(ring) :
           prev[ring[i]] = IF i = 1 THEN ring[Len(ring)] ELSE ring[i - 1]
<1>. DEFINE N == Len(ring)
<1>1. /\ N \in Nat /\ ring \in Seq(Nodes)
      /\ \A i \in 1..N : base[ring[i]] = q
      /\ \A i \in 1..N : next[ring[i]] = IF i = N THEN ring[1] ELSE ring[i + 1]
  BY DEF RingIs
<1>2. ASSUME NEW i \in 1..N PROVE prev[next[ring[i]]] = ring[i]
  <2>1. ring[i] \in Nodes /\ node_is_enqueued(ring[i])
    BY <1>1, QueueAssumption DEF node_is_enqueued
  <2>. QED
    BY <2>1 DEF IInv, Links, Linked
<1>3. ASSUME NEW i \in 1..N
      PROVE  prev[ring[i]] = IF i = 1 THEN ring[N] ELSE ring[i - 1]
  <2>1. CASE i = 1
    <3>1. N \in 1..N
      BY <1>1
    <3>. QED
      BY <1>1, <1>2, <2>1, <3>1
  <2>2. CASE i # 1
    <3>1. i - 1 \in 1..N /\ i - 1 # N /\ (i - 1) + 1 = i
      BY <1>1, <2>2
    <3>. QED
      BY <1>1, <1>2, <2>2, <3>1
  <2>. QED
    BY <2>1, <2>2
<1>. QED
  BY <1>3

\* A queue whose ring is empty has no current node.
LEMMA RingEmpty ==
  ASSUME IInv, NEW q \in Queues, NEW ring, RingIs(q, ring)
  PROVE  /\ is_not_empty(q) <=> ring # <<>>
         /\ ring # <<>> => Len(ring) \in Nat \ {0} /\ current[q] = ring[1] /\ ring[1] \in Nodes
<1>1. CASE ring = <<>>
  <2>1. MembersOf(q) = {}
    BY <1>1 DEF RingIs
  <2>. QED
    BY <1>1, <2>1, OnlyNode DEF is_not_empty, MembersOf
<1>2. CASE ring # <<>>
  <2>1. Len(ring) \in Nat \ {0} /\ current[q] = ring[1] /\ ring[1] \in Nodes
    BY <1>2 DEF RingIs
  <2>. QED
    BY <1>2, <2>1, QueueAssumption DEF is_not_empty
<1>. QED
  BY <1>1, <1>2

LEMMA EnqueueRing ==
  ASSUME IInv, NEW q \in Queues, NEW n \in Nodes, NEW ring, RingIs(q, ring),
         enqueue(q, n)
  PROVE  RingIs(q, Enqueued(ring, n))'
<1>. DEFINE longer == Enqueued(ring, n)
            N == Len(ring)
<1>1. /\ MembersOf(q)' = MembersOf(q) \cup {n} /\ n \notin MembersOf(q)
      /\ number_of_nodes'[q] = N + 1 /\ current'[q] = n
      /\ base' = [base EXCEPT ![n] = q]
  BY EnqueueMembers DEF enqueue, IInv, Types, RingIs
<1>2. /\ N \in Nat /\ longer \in Seq(Nodes) /\ Len(longer) = N + 1 /\ longer[1] = n
      /\ \A i \in 1..N : longer[i + 1] = ring[i]
  BY DEF RingIs, Enqueued
<1>3. /\ \A i \in 1..N : ring[i] \in MembersOf(q) /\ ring[i] # n /\ ring[i] \in Nodes
      /\ \A i, j \in 1..N : ring[i] = ring[j] => i = j
      /\ \A m \in MembersOf(q) : \E i \in 1..N : ring[i] = m
  BY <1>1, RingInside
<1>4. /\ next'[n] = IF N = 0 THEN n ELSE ring[1]
      /\ \A i \in 1..N : next'[ring[i]] = IF i = N THEN n ELSE ring[i + 1]
  <2>1. CASE ring = <<>>
    <3>1. N = 0 /\ next' = [next EXCEPT ![n] = n]
      BY <2>1, RingEmpty DEF enqueue
    <3>. QED
      BY <3>1 DEF IInv, Types
  <2>2. CASE ring # <<>>
    <3>1. /\ N \in Nat \ {0} /\ current[q] = ring[1]
          /\ prev[ring[1]] = ring[N] /\ is_not_empty(q)
      BY <2>2, RingEmpty, RingBackwards
    <3>2. next' = [next EXCEPT ![n] = ring[1], ![ring[N]] = n]
      BY <3>1 DEF enqueue
    <3>3. \A i \in 1..N : next[ring[i]] = IF i = N THEN ring[1] ELSE ring[i + 1]
      BY DEF RingIs
    <3>4. N \in 1..N /\ next \in [Nodes -> Nodes \cup {NULL}]
      BY <3>1 DEF IInv, Types
    <3>5. next'[n] = ring[1]
      BY <1>3, <3>2, <3>4
    <3>6. \A i \in 1..N : next'[ring[i]] = IF i = N THEN n ELSE ring[i + 1]
      BY <1>3, <3>2, <3>3, <3>4
    <3>. QED
      BY <3>1, <3>5, <3>6
  <2>. QED
    BY <2>1, <2>2
<1>. HIDE DEF longer, N
<1>5. \A i \in 1..(N + 1) : i = 1 \/ (i - 1 \in 1..N /\ longer[i] = ring[i - 1])
  <2>. SUFFICES ASSUME NEW i \in 1..(N + 1), i # 1
                PROVE  i - 1 \in 1..N /\ longer[i] = ring[i - 1]
    OBVIOUS
  <2>1. i - 1 \in 1..N /\ (i - 1) + 1 = i
    BY <1>2
  <2>. QED
    BY <1>2, <2>1
<1>6. ASSUME NEW i \in 1..(N + 1), NEW j \in 1..(N + 1), longer[i] = longer[j]
      PROVE  i = j
  <2>1. \A k \in 1..(N + 1) : k # 1 => longer[k] # longer[1]
    BY <1>2, <1>3, <1>5
  <2>2. i # 1 /\ j # 1 => i - 1 = j - 1
    BY <1>3, <1>5, <1>6
  <2>. QED
    BY <1>2, <1>6, <2>1, <2>2
<1>7. ASSUME NEW i \in 1..(N + 1) PROVE base'[longer[i]] = q
  BY <1>1, <1>2, <1>3, <1>5 DEF IInv, Types, MembersOf
<1>8. ASSUME NEW m \in MembersOf(q)' PROVE \E i \in 1..(N + 1) : longer[i] = m
  <2>1. CASE m = n
    BY <1>2, <2>1
  <2>2. CASE m # n
    <3>1. PICK i \in 1..N : ring[i] = m
      BY <1>1, <1>3, <2>2
    <3>. QED
      BY <1>2, <3>1
  <2>. QED
    BY <2>1, <2>2
<1>9. ASSUME NEW i \in 1..(N + 1)
      PROVE  next'[longer[i]] = IF i = N + 1 THEN longer[1] ELSE longer[i + 1]
  <2>1. CASE i = 1
    <3>1. N # 0 => longer[2] = ring[1]
      BY <1>2
    <3>. QED
      BY <1>2, <1>4, <2>1, <3>1
  <2>2. CASE i # 1
    <3>1. i - 1 \in 1..N /\ longer[i] = ring[i - 1]
      BY <1>5, <2>2
    <3>2. i # N + 1 => longer[i + 1] = ring[i] /\ (i - 1) + 1 = i
      BY <1>2, <2>2
    <3>. QED
      BY <1>2, <1>4, <3>1, <3>2
  <2>. QED
    BY <2>1, <2>2
<1>. QED
  BY <1>1, <1>2, <1>6, <1>7, <1>8, <1>9 DEF RingIs, longer

\* Cutting out the node at place k of a ring with other nodes: the ones behind it
\* move up by one.
LEMMA UnlinkRing ==
  ASSUME IInv, NEW q \in Queues, NEW ring, RingIs(q, ring), Len(ring) > 1,
         NEW n \in Nodes, NEW k \in 1..Len(ring), ring[k] = n,
         prev' = [prev EXCEPT ![next[n]] = prev[n], ![n] = NULL],
         next' = [next EXCEPT ![prev[n]] = next[n], ![n] = NULL],
         base' = [base EXCEPT ![n] = NULL],
         number_of_nodes' = [number_of_nodes EXCEPT ![q] = @ - 1],
         current'[q] = IF k = 1 THEN next[n] ELSE current[q],
         NEW rest, rest \in Seq(Nodes), Len(rest) = Len(ring) - 1,
         \A i \in 1..(Len(ring) - 1) :
           IF i < k THEN rest[i] = ring[i] ELSE rest[i] = ring[i + 1]
  PROVE  RingIs(q, rest)'
<1>. DEFINE N == Len(ring)
            before == IF k = 1 THEN N ELSE k - 1
            after == IF k = N THEN 1 ELSE k + 1
            place(i) == IF i < k THEN i ELSE i + 1
<1>1. /\ N \in Nat /\ N > 1 /\ k \in 1..N /\ Len(rest) = N - 1
      /\ number_of_nodes'[q] = N - 1
      /\ \A i \in 1..N : ring[i] \in MembersOf(q) /\ ring[i] \in Nodes
      /\ \A i, j \in 1..N : ring[i] = ring[j] => i = j
      /\ \A m \in MembersOf(q) : \E i \in 1..N : ring[i] = m
  BY RingInside DEF IInv, Types
<1>2. /\ before \in 1..N /\ after \in 1..N /\ before # k /\ after # k
      /\ prev[n] = ring[before] /\ next[n] = ring[after]
  <2>1. prev[n] = ring[before]
    BY <1>1, RingBackwards
  <2>2. next[n] = ring[after]
    BY <1>1 DEF RingIs
  <2>. QED
    BY <1>1, <2>1, <2>2
<1>3. MembersOf(q)' = MembersOf(q) \ {n} /\ base[n] = q
  <2>1. base[n] = q
    BY <1>1 DEF MembersOf
  <2>. QED
    BY <2>1, RemoveMembers
<1>4. \A i \in 1..(N - 1) :
        place(i) \in 1..N /\ place(i) # k /\ rest[i] = ring[place(i)]
  BY <1>1
<1>5. ASSUME NEW i \in 1..N, i # k
      PROVE  \E j \in 1..(N - 1) : place(j) = i
  <2>1. CASE i < k
    BY <1>1, <2>1
  <2>2. CASE i > k
    <3>1. i - 1 \in 1..(N - 1) /\ ~(i - 1 < k) /\ (i - 1) + 1 = i
      BY <1>1, <2>2
    <3>. QED
      BY <3>1
  <2>. QED
    BY <1>1, <1>5, <2>1, <2>2
<1>6. \A i, j \in 1..(N - 1) : place(i) = place(j) => i = j
  BY <1>1
<1>7. ASSUME NEW i \in 1..N, i # k
      PROVE  /\ base'[ring[i]] = q
             /\ next'[ring[i]] = IF i = before THEN ring[after]
                                 ELSE IF i = N THEN ring[1] ELSE ring[i + 1]
  <2>1. next[ring[i]] = IF i = N THEN ring[1] ELSE ring[i + 1]
    BY <1>1 DEF RingIs
  <2>2. ring[i] # n /\ (ring[i] = ring[before] <=> i = before) /\ base[ring[i]] = q
    BY <1>1, <1>2, <1>7 DEF MembersOf
  <2>. QED
    BY <1>1, <1>2, <2>1, <2>2 DEF IInv, Types
<1>. HIDE DEF N, before, after, place
<1>8. \A i, j \in 1..(N - 1) : rest[i] = rest[j] => i = j
  BY <1>1, <1>4, <1>6
<1>9. \A i \in 1..(N - 1) : base'[rest[i]] = q
  BY <1>4, <1>7
<1>10. ASSUME NEW m \in MembersOf(q)' PROVE \E i \in 1..(N - 1) : rest[i] = m
  <2>1. PICK i \in 1..N : ring[i] = m
    BY <1>1, <1>3
  <2>2. i # k
    BY <1>3, <2>1
  <2>. QED
    BY <1>4, <1>5, <2>1, <2>2
<1>11. current'[q] = rest[1] /\ rest[1] = ring[IF k = 1 THEN 2 ELSE 1]
  <2>1. 1 \in 1..(N - 1) /\ 1 < k <=> k # 1
    BY <1>1
  <2>2. rest[1] = ring[IF k = 1 THEN 2 ELSE 1]
    BY <1>1, <1>4, <2>1 DEF place
  <2>3. current[q] = ring[1]
    BY DEF RingIs, N
  <2>4. k = 1 => after = 2
    BY <1>1 DEF after
  <2>. QED
    BY <1>2, <2>2, <2>3, <2>4
<1>12. ASSUME NEW i \in 1..(N - 1)
       PROVE  next'[rest[i]] = IF i = N - 1 THEN rest[1] ELSE rest[i + 1]
  <2>. DEFINE p == place(i)
  <2>1. p \in 1..N /\ p # k /\ rest[i] = ring[p]
    BY <1>4
  <2>2. next'[rest[i]] = ring[IF p = before THEN after
                              ELSE IF p = N THEN 1 ELSE p + 1]
    BY <1>7, <2>1
  <2>3. CASE i = N - 1
    <3>1. (IF p = before THEN after ELSE IF p = N THEN 1 ELSE p + 1)
            = IF k = 1 THEN 2 ELSE 1
      BY <1>1, <2>3 DEF place, before, after
    <3>. QED
      BY <1>11, <2>2, <2>3, <3>1
  <2>4. CASE i # N - 1
    <3>1. i + 1 \in 1..(N - 1)
      BY <1>1, <2>4
    <3>2. (IF p = before THEN after ELSE IF p = N THEN 1 ELSE p + 1) = place(i + 1)
      BY <1>1, <2>4 DEF place, before, after
    <3>. QED
      BY <1>4, <2>2, <2>4, <3>1, <3>2
  <2>. QED
    BY <2>3, <2>4
<1>13. Len(rest) = N - 1 /\ Len(rest) = number_of_nodes'[q] /\ Len(rest) > 0
  BY <1>1
<1>14. \A i \in 1..Len(rest) :
         next'[rest[i]] = IF i = Len(rest) THEN rest[1] ELSE rest[i + 1]
  BY <1>12, <1>13
<1>. QED
  BY <1>8, <1>9, <1>10, <1>11, <1>13, <1>14 DEF RingIs

\* The removal of the last node.
LEMMA RemoveLastRing ==
  ASSUME IInv, NEW q \in Queues, NEW n \in Nodes, MembersOf(q) = {n},
         base' = [base EXCEPT ![n] = NULL],
         number_of_nodes' = [number_of_nodes EXCEPT ![q] = @ - 1],
         number_of_nodes[q] = 1
  PROVE  RingIs(q, <<>>)'
<1>1. base[n] = q
  BY DEF MembersOf
<1>2. MembersOf(q)' = {}
  BY <1>1, RemoveMembers
<1>3. number_of_nodes'[q] = 0
  BY DEF IInv, Types
<1>4. <<>> \in Seq(Nodes) /\ Len(<<>>) = 0
  OBVIOUS
<1>. QED
  BY <1>2, <1>3, <1>4 DEF RingIs

LEMMA DequeueRing ==
  ASSUME IInv, NEW q \in Queues, NEW ring, RingIs(q, ring), dequeue(q)
  PROVE  RingIs(q, Dequeued(ring))'
<1>1. CASE ring = <<>>
  <2>1. UNCHANGED vars /\ Dequeued(ring) = ring
    BY <1>1, RingEmpty DEF dequeue, Dequeued
  <2>. QED
    BY <2>1 DEF vars, RingIs, MembersOf
<1>2. CASE ring # <<>>
  <2>. DEFINE n == ring[1]
  <2>1. /\ is_not_empty(q) /\ current[q] = n /\ n \in Nodes
        /\ Len(ring) \in Nat \ {0} /\ number_of_nodes[q] = Len(ring)
    BY <1>2, RingEmpty, RingInside
  <2>2. /\ base' = [base EXCEPT ![n] = NULL]
        /\ number_of_nodes' = [number_of_nodes EXCEPT ![q] = @ - 1]
    BY <2>1 DEF dequeue
  <2>3. CASE Len(ring) = 1
    <3>1. MembersOf(q) = {n}
      BY <2>1, <2>3, OnlyNode DEF is_not_empty
    <3>2. Dequeued(ring) = <<>>
      <4>1. ring \in Seq(Nodes) /\ Dequeued(ring) = Tail(ring)
        BY <1>2 DEF RingIs, Dequeued
      <4>2. Tail(ring) \in Seq(Nodes) /\ Len(Tail(ring)) = 0
        BY <1>2, <2>3, <4>1
      <4>. QED
        BY <4>1, <4>2
    <3>. QED
      BY <2>1, <2>2, <2>3, <3>1, <3>2, RemoveLastRing
  <2>4. CASE Len(ring) # 1
    <3>1. /\ prev' = [prev EXCEPT ![next[n]] = prev[n], ![n] = NULL]
          /\ next' = [next EXCEPT ![prev[n]] = next[n], ![n] = NULL]
          /\ current' = [current EXCEPT ![q] = next[n]]
      BY <2>1, <2>4 DEF dequeue
    <3>2. current'[q] = next[n]
      BY <3>1 DEF IInv, Types
    <3>. DEFINE rest == Dequeued(ring)
    <3>3. rest \in Seq(Nodes) /\ Len(rest) = Len(ring) - 1
          /\ \A i \in 1..(Len(ring) - 1) : rest[i] = ring[i + 1]
      BY <1>2 DEF Dequeued, RingIs
    <3>4. Len(ring) > 1 /\ 1 \in 1..Len(ring)
      <4>1. \A x \in Nat \ {0} : x # 1 => x > 1 /\ 1 \in 1..x
        OBVIOUS
      <4>. QED
        BY <2>1, <2>4, <4>1
    <3>. HIDE DEF rest
    <3>5. \A i \in 1..(Len(ring) - 1) :
            IF i < 1 THEN rest[i] = ring[i] ELSE rest[i] = ring[i + 1]
      BY <2>1, <3>3
    <3>6. RingIs(q, rest)'
      BY <2>1, <2>2, <3>1, <3>2, <3>3, <3>4, <3>5, UnlinkRing
    <3>. QED
      BY <3>6 DEF rest
  <2>. QED
    BY <2>3, <2>4
<1>. QED
  BY <1>1, <1>2

\* The nodes of a ring, as a set, are the members of the queue.
LEMMA RingMembers ==
  ASSUME NEW q \in Queues, NEW ring, RingIs(q, ring)
  PROVE  Members(ring) = MembersOf(q)
<1>1. DOMAIN ring = 1..Len(ring)
  BY DEF RingIs
<1>. QED
  BY <1>1, RingInside DEF Members

\* WithoutShape for a node of the ring.
LEMMA WithoutPlace ==
  ASSUME NEW ring \in Seq(Nodes), NEW n \in Members(ring)
  PROVE  \E k \in 1..Len(ring) :
           /\ ring[k] = n
           /\ Without(ring, n) \in Seq(Nodes) /\ Len(Without(ring, n)) = Len(ring) - 1
           /\ \A i \in 1..(Len(ring) - 1) :
                IF i < k THEN Without(ring, n)[i] = ring[i]
                         ELSE Without(ring, n)[i] = ring[i + 1]
  BY WithoutShape

\* A node that is not the current one is cut out where it is.
LEMMA ExtractRing ==
  ASSUME IInv, NEW q \in Queues, NEW n \in Nodes, base[n] = q, current[q] # n,
         NEW ring, RingIs(q, ring), extract(n)
  PROVE  RingIs(q, Without(ring, n))'
<1>. DEFINE rest == Without(ring, n)
<1>1. n \in Members(ring)
  BY RingMembers DEF MembersOf
<1>2. PICK k \in 1..Len(ring) :
        /\ ring[k] = n
        /\ rest \in Seq(Nodes) /\ Len(rest) = Len(ring) - 1
        /\ \A i \in 1..(Len(ring) - 1) :
             IF i < k THEN rest[i] = ring[i] ELSE rest[i] = ring[i + 1]
  <2>1. ring \in Seq(Nodes)
    BY DEF RingIs
  <2>. QED
    BY <2>1, <1>1, WithoutPlace
<1>. HIDE DEF rest
<1>3. k # 1 /\ Len(ring) > 1
  <2>1. Len(ring) \in Nat /\ (Len(ring) > 0 => current[q] = ring[1])
    BY DEF RingIs
  <2>. QED
    BY <1>2, <2>1
<1>4. /\ prev' = [prev EXCEPT ![next[n]] = prev[n], ![n] = NULL]
      /\ next' = [next EXCEPT ![prev[n]] = next[n], ![n] = NULL]
      /\ base' = [base EXCEPT ![n] = NULL]
      /\ number_of_nodes' = [number_of_nodes EXCEPT ![q] = @ - 1]
      /\ current'[q] = current[q]
  BY DEF extract
<1>5. RingIs(q, rest)'
  BY <1>2, <1>3, <1>4, UnlinkRing
<1>. QED
  BY <1>5 DEF rest

\* The first node of a ring is where dequeue takes it.
LEMMA WithoutFirst ==
  ASSUME NEW q \in Queues, NEW ring, RingIs(q, ring), ring # <<>>
  PROVE  Without(ring, ring[1]) = Dequeued(ring)
<1>. DEFINE n == ring[1]
            rest == Without(ring, n)
            tail == Dequeued(ring)
<1>1. ring \in Seq(Nodes) /\ Len(ring) \in Nat \ {0} /\ DOMAIN ring = 1..Len(ring)
  BY DEF RingIs
<1>2. n \in Members(ring)
  BY <1>1 DEF Members
<1>3. PICK k \in 1..Len(ring) :
        /\ ring[k] = n
        /\ rest \in Seq(Nodes) /\ Len(rest) = Len(ring) - 1
        /\ \A i \in 1..(Len(ring) - 1) :
             IF i < k THEN rest[i] = ring[i] ELSE rest[i] = ring[i + 1]
  BY <1>1, <1>2, WithoutPlace
<1>4. k = 1
  BY <1>1, <1>3 DEF RingIs
<1>5. tail \in Seq(Nodes) /\ Len(tail) = Len(ring) - 1
      /\ \A i \in 1..(Len(ring) - 1) : tail[i] = ring[i + 1]
  BY <1>1 DEF Dequeued
<1>. HIDE DEF n, rest, tail
<1>6. \A i \in 1..(Len(ring) - 1) : rest[i] = tail[i]
  BY <1>1, <1>3, <1>4, <1>5
<1>7. rest = tail
  BY <1>3, <1>5, <1>6
<1>. QED
  BY <1>7 DEF n, rest, tail

\* The operations on a queue keep the pointers of the nodes of all others: they
\* write to the neighbours of one node, and these are in the same queue.
LEMMA OthersKept ==
  ASSUME IInv, NEW p \in Queues, NEW q \in Queues, p # q,
         \/ advance_current(p) \/ dequeue(p)
         \/ \E n \in Nodes : enqueue(p, n) \/ (base[n] = p /\ extract(n)),
         NEW ring, RingIs(q, ring)
  PROVE  RingIs(q, ring)'
<1>1. ASSUME NEW n \in Nodes, base[n] = p, NEW m \in MembersOf(q)
      PROVE  m # n /\ m # prev[n] /\ m # next[n]
  <2>1. base[prev[n]] = p /\ base[next[n]] = p
    BY <1>1, QueueAssumption DEF IInv, Links, Linked, node_is_enqueued
  <2>. QED
    BY <1>1, <2>1 DEF MembersOf
<1>2. CASE advance_current(p)
  <2>1. UNCHANGED <<base, next, number_of_nodes>> /\ current'[q] = current[q]
    BY <1>2 DEF advance_current, IInv, Types
  <2>2. MembersOf(q)' = MembersOf(q)
    BY <2>1 DEF MembersOf
  <2>. QED
    BY <2>1, <2>2, OtherRing
<1>3. CASE dequeue(p)
  <2>1. CASE ~is_not_empty(p)
    <3>1. UNCHANGED vars
      BY <1>3, <2>1 DEF dequeue
    <3>. QED
      BY <3>1 DEF vars, RingIs, MembersOf
  <2>2. CASE is_not_empty(p)
    <3>. DEFINE n == current[p]
    <3>1. n \in Nodes /\ base[n] = p
      BY <2>2, OnlyNode DEF is_not_empty
    <3>2. /\ base' = [base EXCEPT ![n] = NULL]
          /\ number_of_nodes' = [number_of_nodes EXCEPT ![p] = @ - 1]
          /\ current'[q] = current[q]
          /\ \/ next' = [next EXCEPT ![prev[n]] = next[n], ![n] = NULL]
             \/ next' = [next EXCEPT ![n] = NULL]
      BY <1>3, <2>2 DEF dequeue, IInv, Types
    <3>3. MembersOf(q)' = MembersOf(q) /\ number_of_nodes'[q] = number_of_nodes[q]
      BY <3>1, <3>2, RemoveMembers DEF IInv, Types
    <3>4. \A m \in MembersOf(q) : next'[m] = next[m]
      BY <1>1, <3>1, <3>2 DEF IInv, Types, MembersOf
    <3>. QED
      BY <3>2, <3>3, <3>4, OtherRing
  <2>. QED
    BY <2>1, <2>2
<1>4. ASSUME NEW n \in Nodes, enqueue(p, n) PROVE RingIs(q, ring)'
  <2>1. MembersOf(q)' = MembersOf(q) /\ n \notin MembersOf(q)
    BY <1>4, EnqueueMembers, QueueAssumption DEF enqueue, node_is_enqueued, MembersOf
  <2>2. number_of_nodes'[q] = number_of_nodes[q] /\ current'[q] = current[q]
    BY <1>4 DEF enqueue, IInv, Types
  <2>3. ASSUME NEW m \in MembersOf(q) PROVE next'[m] = next[m]
    <3>1. m \in Nodes /\ m # n
      BY <2>1 DEF MembersOf
    <3>2. CASE is_not_empty(p)
      <4>1. current[p] \in Nodes /\ base[current[p]] = p
        BY <3>2, OnlyNode DEF is_not_empty
      <4>2. m # prev[current[p]]
        BY <1>1, <4>1
      <4>. QED
        BY <1>4, <3>1, <3>2, <4>2 DEF enqueue, IInv, Types
    <3>3. CASE ~is_not_empty(p)
      BY <1>4, <3>1, <3>3 DEF enqueue, IInv, Types
    <3>. QED
      BY <3>2, <3>3
  <2>. QED
    BY <2>1, <2>2, <2>3, OtherRing
<1>5. ASSUME NEW n \in Nodes, base[n] = p, extract(n) PROVE RingIs(q, ring)'
  <2>1. /\ base' = [base EXCEPT ![n] = NULL]
        /\ number_of_nodes' = [number_of_nodes EXCEPT ![p] = @ - 1]
        /\ current' = current
        /\ next' = [next EXCEPT ![prev[n]] = next[n], ![n] = NULL]
    BY <1>5 DEF extract
  <2>2. MembersOf(q)' = MembersOf(q) /\ number_of_nodes'[q] = number_of_nodes[q]
    BY <1>5, <2>1, RemoveMembers DEF IInv, Types
  <2>3. \A m \in MembersOf(q) : next'[m] = next[m]
    BY <1>1, <1>5, <2>1 DEF IInv, Types, MembersOf
  <2>. QED
    BY <2>1, <2>2, <2>3, OtherRing
<1>. QED
  BY <1>2, <1>3, <1>4, <1>5

\* ccevents_queue_node_dequeue_itself, seen by any queue.
LEMMA ItselfRing ==
  ASSUME IInv, NEW n \in Nodes, node_dequeue_itself(n), NEW q \in Queues,
         NEW ring, RingIs(q, ring)
  PROVE  RingIs(q, Without(ring, n))'
<1>. DEFINE p == base[n]
<1>1. n \in Members(ring) <=> p = q
  BY RingMembers DEF MembersOf
<1>2. CASE ~node_is_enqueued(n)
  <2>1. UNCHANGED vars /\ p # q
    BY <1>2, QueueAssumption DEF node_dequeue_itself, node_is_enqueued
  <2>2. Without(ring, n) = ring
    BY <1>1, <2>1 DEF Without
  <2>. QED
    BY <2>1, <2>2 DEF vars, RingIs, MembersOf
<1>3. CASE node_is_enqueued(n) /\ p # q
  <2>1. p \in Queues /\ (dequeue(p) \/ extract(n))
    BY <1>3 DEF node_dequeue_itself, node_is_enqueued, IInv, Types
  <2>2. Without(ring, n) = ring
    BY <1>1, <1>3 DEF Without
  <2>3. RingIs(q, ring)'
    BY <1>3, <2>1, OthersKept
  <2>. QED
    BY <2>2, <2>3
<1>4. CASE node_is_enqueued(n) /\ p = q /\ current[q] = n
  <2>1. dequeue(q)
    BY <1>4 DEF node_dequeue_itself
  <2>2. ring # <<>> /\ ring[1] = n
    <3>1. n # NULL
      BY QueueAssumption
    <3>. QED
      BY <1>4, <3>1, RingEmpty DEF is_not_empty
  <2>3. Without(ring, n) = Dequeued(ring)
    BY <2>2, WithoutFirst
  <2>4. RingIs(q, Dequeued(ring))'
    BY <2>1, DequeueRing
  <2>. QED
    BY <2>3, <2>4
<1>5. CASE node_is_enqueued(n) /\ p = q /\ current[q] # n
  <2>1. extract(n)
    BY <1>5 DEF node_dequeue_itself
  <2>. QED
    BY <1>5, <2>1, ExtractRing
<1>. QED
  BY <1>2, <1>3, <1>4, <1>5

\* The operations of module Ring are those of RingOps.
LEMMA SameOps ==
  /\ \A ring, n : Abstract!Enqueued(ring, n) = Enqueued(ring, n)
  /\ \A ring : Abstract!Dequeued(ring) = Dequeued(ring)
  /\ \A ring : Abstract!Advanced(ring) = Advanced(ring)
  /\ \A ring : Abstract!Members(ring) = Members(ring)
  /\ \A ring, n : Abstract!Without(ring, n) = Without(ring, n)
<1>1. \A ring, n : Abstract!Enqueued(ring, n) = Enqueued(ring, n)
  BY DEF Abstract!Enqueued, Enqueued
<1>2. \A ring : Abstract!Dequeued(ring) = Dequeued(ring)
  BY DEF Abstract!Dequeued, Dequeued
<1>3. \A ring : Abstract!Advanced(ring) = Advanced(ring)
  BY DEF Abstract!Advanced, Advanced
<1>4. \A ring : Abstract!Members(ring) = Members(ring)
  BY DEF Abstract!Members, Members
<1>5. \A ring, n : Abstract!Without(ring, n) = Without(ring, n)
  BY <1>4 DEF Abstract!Without, Without
<1>. QED
  BY <1>1, <1>2, <1>3, <1>4, <1>5

LEMMA RingOfIsNext ==
  (\A q \in Queues : \A ring : RingIs(q, ring) => RingOf(q) = ring)'
<1>. QED
  BY RingOfIs, PTL

\* The walks after a step, if the rings after it are known.
LEMMA WalksNext ==
  ASSUME NEW new, new = [q \in Queues |-> new[q]],
         \A q \in Queues : RingIs(q, new[q])'
  PROVE  RingInv' /\ rings' = new
<1>1. \A q \in Queues : RingOf(q)' = new[q]
  BY RingOfIsNext
<1>2. RingInv'
  BY <1>1 DEF RingInv
<1>3. rings' = new
  BY <1>1 DEF rings
<1>. QED
  BY <1>2, <1>3

LEMMA InitRing == Init => RingInv /\ Abstract!Init
<1>. SUFFICES ASSUME Init PROVE RingInv /\ Abstract!Init
  OBVIOUS
<1>1. \A q \in Queues : RingOf(q) = <<>> /\ RingIs(q, RingOf(q))
  BY InitRings, RingOfIs
<1>. QED
  BY <1>1 DEF RingInv, Abstract!Init, rings

LEMMA StepRing ==
  ASSUME IInv, RingInv, [Next]_vars
  PROVE  RingInv' /\ [Abstract!Next]_rings
<1>1. PICK old : old = rings
  OBVIOUS
<1>2. old = [q \in Queues |-> old[q]] /\ \A q \in Queues : RingIs(q, old[q])
  BY <1>1 DEF rings, RingInv
<1>3. ASSUME NEW p \in Queues, advance_current(p)
      PROVE  RingInv' /\ Abstract!AdvanceCurrent(p)
  <2>. DEFINE new == [old EXCEPT ![p] = Advanced(old[p])]
  <2>1. new = [q \in Queues |-> new[q]]
    BY <1>2
  <2>2. \A q \in Queues : RingIs(q, new[q])'
    <3>. SUFFICES ASSUME NEW q \in Queues PROVE RingIs(q, new[q])'
      OBVIOUS
    <3>1. CASE q = p
      <4>1. RingIs(p, Advanced(old[p]))'
        BY <1>2, <1>3, AdvanceRing
      <4>. QED
        BY <1>2, <3>1, <4>1
    <3>2. CASE q # p
      <4>1. RingIs(q, old[q])'
        BY <1>2, <1>3, <3>2, OthersKept
      <4>. QED
        BY <1>2, <3>2, <4>1
    <3>. QED
      BY <3>1, <3>2
  <2>. HIDE DEF new
  <2>3. RingInv' /\ rings' = new
    BY <2>1, <2>2, WalksNext
  <2>. QED
    BY <1>1, <2>3, SameOps DEF new, Abstract!AdvanceCurrent
<1>4. ASSUME NEW p \in Queues, dequeue(p)
      PROVE  RingInv' /\ Abstract!Dequeue(p)
  <2>. DEFINE new == [old EXCEPT ![p] = Dequeued(old[p])]
  <2>1. new = [q \in Queues |-> new[q]]
    BY <1>2
  <2>2. \A q \in Queues : RingIs(q, new[q])'
    <3>. SUFFICES ASSUME NEW q \in Queues PROVE RingIs(q, new[q])'
      OBVIOUS
    <3>1. CASE q = p
      <4>1. RingIs(p, Dequeued(old[p]))'
        BY <1>2, <1>4, DequeueRing
      <4>. QED
        BY <1>2, <3>1, <4>1
    <3>2. CASE q # p
      <4>1. RingIs(q, old[q])'
        BY <1>2, <1>4, <3>2, OthersKept
      <4>. QED
        BY <1>2, <3>2, <4>1
    <3>. QED
      BY <3>1, <3>2
  <2>. HIDE DEF new
  <2>3. RingInv' /\ rings' = new
    BY <2>1, <2>2, WalksNext
  <2>. QED
    BY <1>1, <2>3, SameOps DEF new, Abstract!Dequeue
<1>5. ASSUME NEW p \in Queues, NEW n \in Nodes, enqueue(p, n)
      PROVE  RingInv' /\ Abstract!Enqueue(p, n)
  <2>. DEFINE new == [old EXCEPT ![p] = Enqueued(old[p], n)]
  <2>1. new = [q \in Queues |-> new[q]]
    BY <1>2
  <2>2. \A q \in Queues : RingIs(q, new[q])'
    <3>. SUFFICES ASSUME NEW q \in Queues PROVE RingIs(q, new[q])'
      OBVIOUS
    <3>1. CASE q = p
      <4>1. RingIs(p, Enqueued(old[p], n))'
        BY <1>2, <1>5, EnqueueRing
      <4>. QED
        BY <1>2, <3>1, <4>1
    <3>2. CASE q # p
      <4>1. RingIs(q, old[q])'
        BY <1>2, <1>5, <3>2, OthersKept
      <4>. QED
        BY <1>2, <3>2, <4>1
    <3>. QED
      BY <3>1, <3>2
  <2>. HIDE DEF new
  <2>3. RingInv' /\ rings' = new
    BY <2>1, <2>2, WalksNext
  <2>4. \A q \in Queues : n \notin Members(old[q])
    BY <1>2, <1>5, RingMembers, QueueAssumption
       DEF enqueue, node_is_enqueued, MembersOf
  <2>. QED
    BY <1>1, <2>3, <2>4, SameOps DEF new, Abstract!Enqueue, Abstract!Free
<1>6. ASSUME NEW n \in Nodes, node_dequeue_itself(n)
      PROVE  RingInv' /\ Abstract!DequeueItself(n)
  <2>. DEFINE new == [q \in Queues |-> Without(old[q], n)]
  <2>1. new = [q \in Queues |-> new[q]]
    OBVIOUS
  <2>2. \A q \in Queues : RingIs(q, new[q])'
    BY <1>2, <1>6, ItselfRing
  <2>. HIDE DEF new
  <2>3. RingInv' /\ rings' = new
    BY <2>1, <2>2, WalksNext
  <2>. QED
    BY <1>1, <2>3, SameOps DEF new, Abstract!DequeueItself
<1>7. CASE UNCHANGED vars
  <2>1. \A q \in Queues : RingIs(q, old[q])'
    BY <1>2, <1>7 DEF vars, RingIs, MembersOf
  <2>. QED
    BY <1>1, <1>2, <2>1, WalksNext
<1>. QED
  BY <1>3, <1>4, <1>5, <1>6, <1>7 DEF Next, Abstract!Next

\* The doubly linked lists of ccevents-queues.c implement the sequences of module
\* Ring: each operation has the effect its callers count on, on its own queue and
\* on no other, however many operations came before.
THEOREM QueueImplementsRing == Spec => ImplementsRing
<1>1. IInv /\ RingInv /\ [Next]_vars => RingInv' /\ [Abstract!Next]_rings
  BY StepRing
<1>. QED
  BY <1>1, InitRing, InitInvariant, StepInvariant, PTL
     DEF Spec, ImplementsRing, Abstract!Spec
=============================================================================
