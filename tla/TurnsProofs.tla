---------------------------- MODULE TurnsProofs ----------------------------
(***************************************************************************)
(* Sources of a group and groups of a loop take turns, for any number of   *)
(* them, any operations of the program and any depth of nested calls.      *)
(***************************************************************************)
EXTENDS Turns, EventLoopProofs

(***************************************************************************)
(* What the operations on queues do to the order of those that stay.       *)
(***************************************************************************)

KeepsOrder(before, after) ==
  /\ IsInjective(after)
  /\ \A x, y \in Members(after) : Ahead(before, x, y) => Ahead(after, x, y)

LEMMA EnqueuedOrder ==
  ASSUME NEW S, NEW ring \in Seq(S), NEW z \in S, IsInjective(ring), z \notin Members(ring)
  PROVE  KeepsOrder(ring, Enqueued(ring, z))
<1>. DEFINE longer == <<z>> \o ring
<1>1. /\ longer \in Seq(S) /\ Len(longer) = Len(ring) + 1 /\ longer[1] = z
      /\ \A i \in 1..Len(ring) : longer[i + 1] = ring[i]
  OBVIOUS
<1>2. Len(ring) \in Nat /\ DOMAIN ring = 1..Len(ring) /\ DOMAIN longer = 1..(Len(ring) + 1)
  BY <1>1
<1>. HIDE DEF longer
<1>3. \A i \in DOMAIN longer : i = 1 \/ (i - 1 \in DOMAIN ring /\ longer[i] = ring[i - 1])
  <2>. SUFFICES ASSUME NEW i \in DOMAIN longer, i # 1
                PROVE  i - 1 \in DOMAIN ring /\ longer[i] = ring[i - 1]
    OBVIOUS
  <2>1. i - 1 \in 1..Len(ring) /\ (i - 1) + 1 = i
    BY <1>2
  <2>. QED
    BY <1>1, <1>2, <2>1
<1>4. IsInjective(longer)
  <2>. SUFFICES ASSUME NEW i \in DOMAIN longer, NEW j \in DOMAIN longer, longer[i] = longer[j]
                PROVE  i = j
    BY DEF IsInjective
  <2>1. i # 1 => longer[i] # z
    BY <1>3 DEF Members
  <2>2. j # 1 => longer[j] # z
    BY <1>3 DEF Members
  <2>3. i # 1 /\ j # 1 => i - 1 = j - 1
    BY <1>3 DEF IsInjective
  <2>. QED
    BY <1>1, <1>2, <2>1, <2>2, <2>3
<1>5. ASSUME NEW x, NEW y, Ahead(ring, x, y)
      PROVE  Ahead(longer, x, y)
  <2>1. PICK i, j \in DOMAIN ring : i < j /\ ring[i] = x /\ ring[j] = y
    BY <1>5 DEF Ahead
  <2>2. /\ i + 1 \in DOMAIN longer /\ j + 1 \in DOMAIN longer /\ i + 1 < j + 1
        /\ longer[i + 1] = x /\ longer[j + 1] = y
    BY <1>1, <1>2, <2>1
  <2>. QED
    BY <2>2 DEF Ahead
<1>. QED
  BY <1>4, <1>5 DEF KeepsOrder, Enqueued, longer

LEMMA DequeuedOrder ==
  ASSUME NEW S, NEW ring \in Seq(S), IsInjective(ring)
  PROVE  KeepsOrder(ring, Dequeued(ring))
<1>1. CASE ring = <<>>
  BY <1>1 DEF Dequeued, KeepsOrder
<1>2. CASE ring # <<>>
  <2>. DEFINE rest == Tail(ring)
  <2>1. /\ Len(ring) \in Nat \ {0} /\ DOMAIN ring = 1..Len(ring)
        /\ DOMAIN rest = 1..(Len(ring) - 1)
        /\ \A i \in 1..(Len(ring) - 1) : rest[i] = ring[i + 1]
    BY <1>2
  <2>. HIDE DEF rest
  <2>2. IsInjective(rest)
    <3>. SUFFICES ASSUME NEW i \in DOMAIN rest, NEW j \in DOMAIN rest, rest[i] = rest[j]
                  PROVE  i = j
      BY DEF IsInjective
    <3>1. i + 1 \in DOMAIN ring /\ j + 1 \in DOMAIN ring /\ ring[i + 1] = ring[j + 1]
      BY <2>1
    <3>2. i + 1 = j + 1
      BY <3>1 DEF IsInjective
    <3>. QED
      BY <2>1, <3>2
  <2>3. ASSUME NEW x \in Members(rest), NEW y, Ahead(ring, x, y)
        PROVE  Ahead(rest, x, y)
    <3>1. PICK i, j \in DOMAIN ring : i < j /\ ring[i] = x /\ ring[j] = y
      BY <2>3 DEF Ahead
    <3>2. PICK k \in DOMAIN rest : rest[k] = x
      BY DEF Members
    <3>3. k + 1 \in DOMAIN ring /\ ring[k + 1] = x
      BY <2>1, <3>2
    <3>4. i = k + 1
      BY <3>1, <3>3 DEF IsInjective
    <3>5. j - 1 \in 1..(Len(ring) - 1) /\ (j - 1) + 1 = j /\ k < j - 1
      BY <2>1, <3>1, <3>4
    <3>6. rest[j - 1] = y /\ j - 1 \in DOMAIN rest
      BY <2>1, <3>1, <3>5
    <3>. QED
      BY <3>2, <3>5, <3>6 DEF Ahead
  <2>. QED
    BY <1>2, <2>2, <2>3 DEF Dequeued, KeepsOrder, rest
<1>. QED
  BY <1>1, <1>2

LEMMA WithoutOrder ==
  ASSUME NEW S, NEW ring \in Seq(S), NEW z, IsInjective(ring)
  PROVE  KeepsOrder(ring, Without(ring, z))
<1>1. CASE z \notin Members(ring)
  BY <1>1 DEF Without, KeepsOrder
<1>2. CASE z \in Members(ring)
  <2>. DEFINE rest == Without(ring, z)
  <2>1. PICK at \in 1..Len(ring) :
          /\ rest \in Seq(S) /\ Len(rest) = Len(ring) - 1
          /\ \A i \in 1..(Len(ring) - 1) :
               IF i < at THEN rest[i] = ring[i] ELSE rest[i] = ring[i + 1]
    BY <1>2, WithoutShape
  <2>. HIDE DEF rest
  <2>2. DOMAIN rest = 1..(Len(ring) - 1) /\ DOMAIN ring = 1..Len(ring) /\ Len(ring) \in Nat
    BY <2>1
  <2>. DEFINE old(i) == IF i < at THEN i ELSE i + 1
  <2>5. \A i \in DOMAIN rest : old(i) \in DOMAIN ring /\ rest[i] = ring[old(i)]
    BY <2>1, <2>2
  <2>6. \A i, j \in DOMAIN rest : (old(i) = old(j) => i = j) /\ (old(i) < old(j) => i < j)
    BY <2>1, <2>2
  <2>. HIDE DEF old
  <2>7. IsInjective(rest)
    BY <2>5, <2>6 DEF IsInjective
  <2>8. ASSUME NEW x \in Members(rest), NEW y \in Members(rest), Ahead(ring, x, y)
        PROVE  Ahead(rest, x, y)
    <3>1. PICK i, j \in DOMAIN ring : i < j /\ ring[i] = x /\ ring[j] = y
      BY <2>8 DEF Ahead
    <3>2. PICK k, m \in DOMAIN rest : rest[k] = x /\ rest[m] = y
      BY DEF Members
    <3>3. old(k) = i /\ old(m) = j
      BY <2>5, <3>1, <3>2 DEF IsInjective
    <3>4. k < m
      BY <2>6, <3>1, <3>3
    <3>. QED
      BY <3>2, <3>4 DEF Ahead
  <2>. QED
    BY <1>2, <2>7, <2>8 DEF KeepsOrder, rest
<1>. QED
  BY <1>1, <1>2

\* The first one goes behind all others, whose order stays.
LEMMA AdvancedOrder ==
  ASSUME NEW S, NEW ring \in Seq(S), IsInjective(ring), ring # <<>>
  PROVE  /\ IsInjective(Advanced(ring))
         /\ \A x, y \in Members(ring) :
              x # Head(ring) /\ (Ahead(ring, x, y) \/ y = Head(ring))
                => Ahead(Advanced(ring), x, y)
<1>. DEFINE turned == Append(Tail(ring), Head(ring))
            n == Len(ring)
<1>1. /\ n \in Nat \ {0} /\ DOMAIN ring = 1..n /\ DOMAIN turned = 1..n
      /\ Head(ring) = ring[1]
      /\ \A i \in 1..n : turned[i] = IF i = n THEN ring[1] ELSE ring[i + 1]
  <2>1. turned \in Seq(S) /\ Len(turned) = Len(ring) /\ Len(ring) \in Nat \ {0}
    OBVIOUS
  <2>2. \A i \in DOMAIN turned :
          IF i = Len(ring) THEN turned[i] = ring[1] ELSE turned[i] = ring[i + 1]
    BY <2>1
  <2>3. DOMAIN turned = 1..Len(ring) /\ DOMAIN ring = 1..Len(ring) /\ Head(ring) = ring[1]
    BY <2>1
  <2>. HIDE DEF turned
  <2>. QED
    BY <2>1, <2>2, <2>3
<1>. HIDE DEF turned, n
<1>. DEFINE old(i) == IF i = n THEN 1 ELSE i + 1
<1>2. \A i \in DOMAIN turned : old(i) \in DOMAIN ring /\ turned[i] = ring[old(i)]
  BY <1>1
<1>3. \A i, j \in DOMAIN turned : old(i) = old(j) => i = j
  BY <1>1
<1>4. IsInjective(turned)
  BY <1>2, <1>3 DEF IsInjective
<1>5. ASSUME NEW x \in Members(ring), NEW y \in Members(ring), x # Head(ring),
             Ahead(ring, x, y) \/ y = Head(ring)
      PROVE  Ahead(turned, x, y)
  <2>1. PICK i \in DOMAIN ring : ring[i] = x
    BY DEF Members
  <2>2. i # 1 /\ i - 1 \in DOMAIN turned /\ turned[i - 1] = x /\ i - 1 < n
    BY <1>1, <1>5, <2>1
  <2>3. CASE y = Head(ring)
    <3>1. n \in DOMAIN turned /\ turned[n] = y
      BY <1>1, <2>3
    <3>. QED
      BY <2>2, <3>1 DEF Ahead
  <2>4. CASE Ahead(ring, x, y)
    <3>1. PICK k, j \in DOMAIN ring : k < j /\ ring[k] = x /\ ring[j] = y
      BY <2>4 DEF Ahead
    <3>2. k = i
      BY <2>1, <3>1 DEF IsInjective
    <3>3. j - 1 \in DOMAIN turned /\ turned[j - 1] = y /\ i - 1 < j - 1
      BY <1>1, <2>2, <3>1, <3>2
    <3>. QED
      BY <2>2, <3>3 DEF Ahead
  <2>. QED
    BY <1>5, <2>3, <2>4
<1>. QED
  BY <1>4, <1>5 DEF Advanced, turned

LEMMA EmptiedOrder == \A ring : KeepsOrder(ring, <<>>)
  BY DEF KeepsOrder, Members, IsInjective

LEMMA SameOrder == \A ring : IsInjective(ring) => KeepsOrder(ring, ring)
  BY DEF KeepsOrder

(***************************************************************************)
(* One step, seen by one queue: either those that stay keep their order    *)
(* and nobody of the queue has a turn, or the current one has its turn.    *)
(***************************************************************************)

\* Queues are without repetition, and a group is in one loop at a time.
RingsOK ==
  /\ \A g \in Groups : IsInjective(sources[g])
  /\ \A l \in Loops : IsInjective(groups[l])
  /\ \A l, m \in Loops : l # m => Members(groups[l]) \cap Members(groups[m]) = {}

LEMMA SourceQueueStep ==
  ASSUME TypeOK, RingsOK, [Next]_vars, NEW g \in Groups
  PROVE  /\ KeepsOrder(sources[g], sources'[g]) \/ (group_turn /\ Self = g)
         /\ \A s \in Members(sources'[g]) : s \in Members(sources[g]) \/ GroupsOf(s) = {}
<1>. DEFINE Kept == /\ KeepsOrder(sources[g], sources'[g])
                    /\ \A s \in Members(sources'[g]) :
                         s \in Members(sources[g]) \/ GroupsOf(s) = {}
<1>t. sources \in [Groups -> Seq(Sources)] /\ IsInjective(sources[g])
  BY DEF TypeOK, RingsOK
<1>u. ASSUME sources'[g] = sources[g]
      PROVE  Kept
  BY <1>u, <1>t, SameOrder
<1>e. ASSUME sources'[g] = <<>>
      PROVE  Kept
  BY <1>e, EmptiedOrder DEF Members
<1>1. ASSUME NEW h \in Groups, NEW s \in Sources, group_enqueue_source(h, s)
      PROVE  Kept
  <2>1. sources' = [sources EXCEPT ![h] = Enqueued(sources[h], s)] /\ GroupsOf(s) = {}
    BY <1>1 DEF group_enqueue_source
  <2>2. s \notin Members(sources[h])
    BY <2>1 DEF GroupsOf
  <2>3. /\ KeepsOrder(sources[h], Enqueued(sources[h], s))
        /\ Members(Enqueued(sources[h], s)) = Members(sources[h]) \cup {s}
    BY <1>t, <2>2, EnqueuedOrder, EnqueuedMembers DEF RingsOK
  <2>4. CASE h = g
    BY <1>t, <2>1, <2>3, <2>4
  <2>5. CASE h # g
    BY <1>t, <1>u, <2>1, <2>5
  <2>. QED
    BY <2>4, <2>5
<1>2. ASSUME NEW h \in Groups, group_dequeue_source(h)
      PROVE  Kept
  <2>1. sources' = [sources EXCEPT ![h] = Dequeued(sources[h])]
    BY <1>2 DEF group_dequeue_source
  <2>2. /\ KeepsOrder(sources[h], Dequeued(sources[h]))
        /\ Members(Dequeued(sources[h])) \subseteq Members(sources[h])
    BY <1>t, DequeuedOrder, DequeuedMembers DEF RingsOK
  <2>3. CASE h = g
    BY <1>t, <2>1, <2>2, <2>3
  <2>4. CASE h # g
    BY <1>t, <1>u, <2>1, <2>4
  <2>. QED
    BY <2>3, <2>4
<1>3. ASSUME NEW s \in Sources, source_dequeue_itself(s)
      PROVE  Kept
  <2>1. sources'[g] = Without(sources[g], s)
    BY <1>3 DEF source_dequeue_itself
  <2>2. /\ KeepsOrder(sources[g], Without(sources[g], s))
        /\ Members(Without(sources[g], s)) \subseteq Members(sources[g])
    BY <1>t, WithoutOrder, WithoutMembers
  <2>. QED
    BY <2>1, <2>2
<1>4. CASE QueueOp
  <2>1. \/ sources'[g] = sources[g]
        \/ \E h \in Groups, s \in Sources : group_enqueue_source(h, s)
        \/ \E h \in Groups : group_dequeue_source(h)
        \/ \E s \in Sources : source_dequeue_itself(s)
    BY <1>4 DEF QueueOp, loop_enqueue_group, loop_dequeue_group, group_dequeue_itself
  <2>. QED
    BY <2>1, <1>u, <1>1, <1>2, <1>3
<1>5. CASE FinalOp
  <2>1. sources'[g] = sources[g] \/ sources'[g] = <<>>
    BY <1>5, <1>t DEF FinalOp, group_final, loop_final, source_init, release, queues
  <2>. QED
    BY <2>1, <1>u, <1>e
<1>6. CASE group_turn
  <2>1. sources' = [sources EXCEPT ![Self] = Advanced(sources[Self])]
    BY <1>6 DEF group_turn, advance_to_next_source
  <2>2. CASE Self = g
    <3>1. Members(sources'[g]) \subseteq Members(sources[g])
      BY <1>t, <2>1, <2>2, AdvancedMembers
    <3>. QED
      BY <1>6, <2>2, <3>1
  <2>3. CASE Self # g
    BY <1>t, <1>u, <2>1, <2>3
  <2>. QED
    BY <2>2, <2>3
<1>7. CASE LibraryStep /\ ~group_turn
  <2>1. UNCHANGED sources
    BY <1>7
    DEF LibraryStep, loop_turn, loop_return, group_return, is_disabled, is_expired, query,
        Goto, queues
  <2>. QED
    BY <2>1, <1>u
<1>8. CASE CallbackEnds \/ SettingOp \/ EnterOp \/ Clock \/ UNCHANGED vars
  <2>1. UNCHANGED sources
    BY <1>8
    DEF CallbackEnds, found_event, found_no_event, handled, raise, unwound, Goto,
        SettingOp, group_post_request_to_leave, loop_post_request_to_leave,
        source_set_servicing, source_set_timeout, EnterOp, loop_enter, group_enter,
        do_one_event, Clock, clock_passes, vars, queues
  <2>. QED
    BY <2>1, <1>u
<1>. QED
  BY <1>4, <1>5, <1>6, <1>7, <1>8 DEF Next, ClientStep

LEMMA GroupQueueStep ==
  ASSUME TypeOK, RingsOK, [Next]_vars, NEW l \in Loops
  PROVE  /\ KeepsOrder(groups[l], groups'[l]) \/ (loop_turn /\ Self = l)
         /\ \A g \in Members(groups'[l]) :
              \/ g \in Members(groups[l])
              \/ LoopsOf(g) = {} /\ \A m \in Loops \ {l} : groups'[m] = groups[m]
<1>. DEFINE Kept == /\ KeepsOrder(groups[l], groups'[l])
                    /\ \A g \in Members(groups'[l]) :
                         \/ g \in Members(groups[l])
                         \/ LoopsOf(g) = {} /\ \A m \in Loops \ {l} : groups'[m] = groups[m]
<1>t. groups \in [Loops -> Seq(Groups)] /\ IsInjective(groups[l])
  BY DEF TypeOK, RingsOK
<1>u. ASSUME groups'[l] = groups[l]
      PROVE  Kept
  BY <1>u, <1>t, SameOrder
<1>1. ASSUME NEW k \in Loops, NEW g \in Groups, loop_enqueue_group(k, g)
      PROVE  Kept
  <2>1. groups' = [groups EXCEPT ![k] = Enqueued(groups[k], g)] /\ LoopsOf(g) = {}
    BY <1>1 DEF loop_enqueue_group
  <2>2. g \notin Members(groups[k])
    BY <2>1 DEF LoopsOf
  <2>3. /\ KeepsOrder(groups[k], Enqueued(groups[k], g))
        /\ Members(Enqueued(groups[k], g)) = Members(groups[k]) \cup {g}
    BY <1>t, <2>2, EnqueuedOrder, EnqueuedMembers DEF RingsOK
  <2>4. CASE k = l
    BY <1>t, <2>1, <2>3, <2>4
  <2>5. CASE k # l
    BY <1>t, <1>u, <2>1, <2>5
  <2>. QED
    BY <2>4, <2>5
<1>2. ASSUME NEW k \in Loops, loop_dequeue_group(k)
      PROVE  Kept
  <2>1. groups' = [groups EXCEPT ![k] = Dequeued(groups[k])]
    BY <1>2 DEF loop_dequeue_group
  <2>2. /\ KeepsOrder(groups[k], Dequeued(groups[k]))
        /\ Members(Dequeued(groups[k])) \subseteq Members(groups[k])
    BY <1>t, DequeuedOrder, DequeuedMembers DEF RingsOK
  <2>3. CASE k = l
    BY <1>t, <2>1, <2>2, <2>3
  <2>4. CASE k # l
    BY <1>t, <1>u, <2>1, <2>4
  <2>. QED
    BY <2>3, <2>4
<1>3. ASSUME NEW g \in Groups, group_dequeue_itself(g)
      PROVE  Kept
  <2>1. groups'[l] = Without(groups[l], g)
    BY <1>3 DEF group_dequeue_itself
  <2>2. /\ KeepsOrder(groups[l], Without(groups[l], g))
        /\ Members(Without(groups[l], g)) \subseteq Members(groups[l])
    BY <1>t, WithoutOrder, WithoutMembers
  <2>. QED
    BY <2>1, <2>2
<1>4. CASE QueueOp
  <2>1. \/ groups'[l] = groups[l]
        \/ \E k \in Loops, g \in Groups : loop_enqueue_group(k, g)
        \/ \E k \in Loops : loop_dequeue_group(k)
        \/ \E g \in Groups : group_dequeue_itself(g)
    BY <1>4 DEF QueueOp, group_enqueue_source, group_dequeue_source, source_dequeue_itself
  <2>. QED
    BY <2>1, <1>u, <1>1, <1>2, <1>3
<1>5. CASE FinalOp
  <2>1. groups'[l] = groups[l] \/ groups'[l] = <<>>
    BY <1>5, <1>t DEF FinalOp, group_final, loop_final, source_init, release, queues
  <2>2. groups'[l] = <<>> => Kept
    BY EmptiedOrder DEF Members
  <2>. QED
    BY <2>1, <2>2, <1>u
<1>6. CASE loop_turn
  <2>1. groups' = [groups EXCEPT ![Self] = Advanced(groups[Self])]
    BY <1>6 DEF loop_turn, advance_to_next_group
  <2>2. CASE Self = l
    <3>1. Members(groups'[l]) \subseteq Members(groups[l])
      BY <1>t, <2>1, <2>2, AdvancedMembers
    <3>. QED
      BY <1>6, <2>2, <3>1
  <2>3. CASE Self # l
    BY <1>t, <1>u, <2>1, <2>3
  <2>. QED
    BY <2>2, <2>3
<1>7. CASE LibraryStep /\ ~loop_turn
  <2>1. UNCHANGED groups
    BY <1>7
    DEF LibraryStep, group_turn, loop_return, group_return, is_disabled, is_expired, query,
        Goto, queues
  <2>. QED
    BY <2>1, <1>u
<1>8. CASE CallbackEnds \/ SettingOp \/ EnterOp \/ Clock \/ UNCHANGED vars
  <2>1. UNCHANGED groups
    BY <1>8
    DEF CallbackEnds, found_event, found_no_event, handled, raise, unwound, Goto,
        SettingOp, group_post_request_to_leave, loop_post_request_to_leave,
        source_set_servicing, source_set_timeout, EnterOp, loop_enter, group_enter,
        do_one_event, Clock, clock_passes, vars, queues
  <2>. QED
    BY <2>1, <1>u
<1>. QED
  BY <1>4, <1>5, <1>6, <1>7, <1>8 DEF Next, ClientStep

\* The order among those that stay, in a queue whose current one goes behind them.
LEMMA SourceTurned ==
  ASSUME TypeOK, RingsOK, group_turn
  PROVE  /\ Self \in Groups
         /\ Head(sources[Self]) \in Members(sources[Self])
         /\ HasTurn(Head(sources[Self]))
         /\ IsInjective(sources'[Self])
         /\ \A x, y \in Members(sources[Self]) :
              x # Head(sources[Self])
                /\ (Ahead(sources[Self], x, y) \/ y = Head(sources[Self]))
                => Ahead(sources'[Self], x, y)
<1>1. stack # <<>> /\ Head(stack) \in Frames /\ Head(stack).proc = "group" /\ stack \in Seq(Frames)
  BY DEF group_turn, Running, TypeOK
<1>2. Self \in Groups
  BY <1>1, FramesShape DEF Self
<1>3. sources[Self] \in Seq(Sources) /\ IsInjective(sources[Self])
  BY <1>2 DEF TypeOK, RingsOK
<1>4. sources[Self] # <<>> /\ sources'[Self] = Advanced(sources[Self])
  BY <1>2 DEF group_turn, advance_to_next_source, TypeOK
<1>5. Head(sources[Self]) \in Members(sources[Self])
  BY <1>3, <1>4 DEF Members
<1>6. HasTurn(Head(sources[Self]))
  <2>. DEFINE inner == SourceFrame(Head(sources[Self]), "entered")
              outer == GroupFrame(Self, Head(stack).attempts + 1)
  <2>1. stack' = <<inner, outer>> \o Tail(stack)
    BY DEF group_turn
  <2>2. inner.proc = "source" /\ inner.obj = Head(sources[Self])
    BY DEF SourceFrame
  <2>. HIDE DEF inner, outer
  <2>3. Len(stack') = Len(stack) + 1 /\ Len(stack) \in Nat /\ Head(stack') = inner
    BY <1>1, <2>1
  <2>. QED
    BY <1>1, <2>2, <2>3 DEF HasTurn, Running
<1>. QED
  BY <1>2, <1>3, <1>4, <1>5, <1>6, AdvancedOrder

LEMMA GroupTurned ==
  ASSUME TypeOK, RingsOK, loop_turn
  PROVE  /\ Self \in Loops
         /\ Head(groups[Self]) \in Members(groups[Self])
         /\ HasTurn(Head(groups[Self]))
         /\ IsInjective(groups'[Self])
         /\ \A x, y \in Members(groups[Self]) :
              x # Head(groups[Self])
                /\ (Ahead(groups[Self], x, y) \/ y = Head(groups[Self]))
                => Ahead(groups'[Self], x, y)
<1>1. stack # <<>> /\ Head(stack) \in Frames /\ Head(stack).proc = "loop" /\ stack \in Seq(Frames)
  BY DEF loop_turn, Running, TypeOK
<1>2. Self \in Loops
  BY <1>1, FramesShape DEF Self
<1>3. groups[Self] \in Seq(Groups) /\ IsInjective(groups[Self])
  BY <1>2 DEF TypeOK, RingsOK
<1>4. groups[Self] # <<>> /\ groups'[Self] = Advanced(groups[Self])
  BY <1>2 DEF loop_turn, advance_to_next_group, TypeOK
<1>5. Head(groups[Self]) \in Members(groups[Self])
  BY <1>3, <1>4 DEF Members
<1>6. HasTurn(Head(groups[Self]))
  <2>. DEFINE inner == GroupFrame(Head(groups[Self]), 0)
  <2>1. stack' = <<inner>> \o stack
    BY DEF loop_turn, Push
  <2>2. inner.proc = "group" /\ inner.obj = Head(groups[Self])
    BY DEF GroupFrame
  <2>. HIDE DEF inner
  <2>3. Len(stack') = Len(stack) + 1 /\ Len(stack) \in Nat /\ Head(stack') = inner
    BY <1>1, <2>1
  <2>. QED
    BY <1>1, <2>2, <2>3 DEF HasTurn, Running
<1>. QED
  BY <1>2, <1>3, <1>4, <1>5, <1>6, AdvancedOrder

\* Only the two while loops give turns: a nested call of the program is none.
LEMMA WhoHasTurn ==
  ASSUME TypeOK, [Next]_vars, NEW x, HasTurn(x)
  PROVE  \/ group_turn /\ x = Head(sources[Self])
         \/ loop_turn /\ x = Head(groups[Self])
<1>1. /\ stack # <<>> /\ Head(stack) \in Frames /\ stack \in Seq(Frames)
      /\ Head(stack).proc \in {"group", "loop"} /\ Len(stack') > Len(stack)
      /\ Head(stack').obj = x
  BY DEF HasTurn, Running, TypeOK
<1>2. ~ClientRuns
  BY <1>1, FramesShape DEF ClientRuns
<1>3. ~UNCHANGED stack
  BY <1>1
<1>4. ~CallbackEnds
  BY <1>1 DEF CallbackEnds, found_event, found_no_event, handled, raise, unwound, At, Running
<1>5. ~Pop
  BY <1>1 DEF Pop
<1>6. ~(is_disabled \/ is_expired \/ query \/ loop_return \/ group_return)
  BY <1>1, <1>5 DEF is_disabled, is_expired, query, At, Running, loop_return, group_return
<1>7. ASSUME group_turn PROVE x = Head(sources[Self])
  <2>. DEFINE inner == SourceFrame(Head(sources[Self]), "entered")
              outer == GroupFrame(Self, Head(stack).attempts + 1)
  <2>1. stack' = <<inner, outer>> \o Tail(stack)
    BY <1>7 DEF group_turn
  <2>2. inner.obj = Head(sources[Self])
    BY DEF SourceFrame
  <2>. HIDE DEF inner, outer
  <2>3. Head(stack') = inner
    BY <1>1, <2>1
  <2>. QED
    BY <1>1, <2>2, <2>3
<1>8. ASSUME loop_turn PROVE x = Head(groups[Self])
  <2>. DEFINE inner == GroupFrame(Head(groups[Self]), 0)
  <2>1. stack' = <<inner>> \o stack
    BY <1>8 DEF loop_turn, Push
  <2>2. inner.obj = Head(groups[Self])
    BY DEF GroupFrame
  <2>. HIDE DEF inner
  <2>3. Head(stack') = inner
    BY <1>1, <2>1
  <2>. QED
    BY <1>1, <2>2, <2>3
<1>. QED
  BY <1>2, <1>3, <1>4, <1>6, <1>7, <1>8
  DEF Next, LibraryStep, ClientStep, Clock, clock_passes, source_set_timeout, vars

LEMMA RingsKept ==
  ASSUME TypeOK, RingsOK, [Next]_vars
  PROVE  RingsOK'
<1>1. ASSUME NEW g \in Groups PROVE IsInjective(sources'[g])
  BY SourceQueueStep, SourceTurned DEF KeepsOrder
<1>2. ASSUME NEW l \in Loops PROVE IsInjective(groups'[l])
  BY GroupQueueStep, GroupTurned DEF KeepsOrder
<1>3. ASSUME NEW l \in Loops, NEW m \in Loops, l # m, NEW g,
             g \in Members(groups'[l]), g \in Members(groups'[m])
      PROVE  FALSE
  <2>1. \/ g \in Members(groups[l])
        \/ LoopsOf(g) = {} /\ groups'[m] = groups[m]
    BY <1>3, GroupQueueStep
  <2>2. \/ g \in Members(groups[m])
        \/ LoopsOf(g) = {} /\ groups'[l] = groups[l]
    BY <1>3, GroupQueueStep
  <2>3. g \in Members(groups[l]) /\ g \in Members(groups[m])
    BY <1>3, <2>1, <2>2 DEF LoopsOf
  <2>. QED
    BY <1>3, <2>3 DEF RingsOK
<1>. QED
  BY <1>1, <1>2, <1>3 DEF RingsOK

(***************************************************************************)
(* Round robin.                                                            *)
(***************************************************************************)

TurnsInv == RingsOK /\ SourcesTakeTurns /\ GroupsTakeTurns

LEMMA TurnsEstablished == TurnsInit => TurnsInv
<1>. SUFFICES ASSUME TurnsInit PROVE TurnsInv
  OBVIOUS
<1>1. RingsOK
  BY TurnsAssumption DEF TurnsInit, Init, RingsOK
<1>2. ASSUME NEW x \in Items PROVE overtaken[x] = {}
  BY DEF TurnsInit
<1>3. \A g \in Groups : Members(sources[g]) \subseteq Items
  BY EventLoopAssumption DEF TurnsInit, Init, Members, Items
<1>4. \A l \in Loops : Members(groups[l]) \subseteq Items
  BY EventLoopAssumption DEF TurnsInit, Init, Members, Items
<1>. QED
  BY <1>1, <1>2, <1>3, <1>4 DEF TurnsInv, SourcesTakeTurns, GroupsTakeTurns

\* The members of queues are what they should be.
LEMMA MembersTypes ==
  ASSUME TypeOK
  PROVE  /\ \A g \in Groups : Members(sources[g]) \subseteq Sources
         /\ \A l \in Loops : Members(groups[l]) \subseteq Groups
  BY DEF TypeOK, Members

LEMMA SourceTurnsKept ==
  ASSUME TypeOK, TypeOK', QueuesOK, TurnsInv, TurnsNext
  PROVE  SourcesTakeTurns'
<1>. USE DEF TurnsInv
<1>n. [Next]_vars
  BY DEF TurnsNext
<1>. SUFFICES ASSUME NEW g \in Groups, NEW x \in Members(sources'[g]),
                     NEW y \in Members(sources'[g]), y \in overtaken'[x]
              PROVE  Ahead(sources'[g], x, y)
  BY DEF SourcesTakeTurns
<1>1. x \in Sources /\ y \in Sources /\ x \in Items /\ x \notin Groups /\ y \notin Groups
  <2>1. Members(sources'[g]) \subseteq Sources
    BY DEF TypeOK, Members
  <2>. QED
    BY <2>1, TurnsAssumption DEF Items
<1>2. /\ ~HasTurn(x) /\ Together(x, y)
      /\ y \in overtaken[x] \/ HasTurn(y)
  BY <1>1 DEF TurnsNext
<1>3. PICK h \in Groups : x \in Members(sources[h]) /\ y \in Members(sources[h])
  BY <1>1, <1>2, MembersTypes DEF Together
<1>4. x \in Members(sources[g]) /\ y \in Members(sources[g])
  <2>1. GroupsOf(x) # {} /\ GroupsOf(y) # {}
    BY <1>3 DEF GroupsOf
  <2>. QED
    BY <2>1, <1>n, SourceQueueStep
<1>5. y \in overtaken[x] => Ahead(sources[g], x, y)
  BY <1>4 DEF SourcesTakeTurns
<1>6. HasTurn(y) => group_turn /\ y = Head(sources[g]) /\ Self = g
  <2>1. ASSUME HasTurn(y), loop_turn, y = Head(groups[Self])
        PROVE  FALSE
    BY <2>1, <1>1, GroupTurned, MembersTypes
  <2>2. ASSUME group_turn, y = Head(sources[Self])
        PROVE  Self = g
    BY <2>2, <1>4, SourceTurned DEF QueuesOK
  <2>. QED
    BY <1>n, <2>1, <2>2, WhoHasTurn
<1>7. CASE group_turn /\ Self = g
  <2>1. x # Head(sources[g])
    BY <1>2, <1>7, SourceTurned
  <2>. QED
    BY <1>2, <1>4, <1>5, <1>6, <1>7, <2>1, SourceTurned
<1>8. CASE ~(group_turn /\ Self = g)
  <2>1. KeepsOrder(sources[g], sources'[g])
    BY <1>n, <1>8, SourceQueueStep
  <2>. QED
    BY <1>2, <1>5, <1>6, <1>8, <2>1 DEF KeepsOrder
<1>. QED
  BY <1>7, <1>8

LEMMA GroupTurnsKept ==
  ASSUME TypeOK, TypeOK', TurnsInv, TurnsNext
  PROVE  GroupsTakeTurns'
<1>. USE DEF TurnsInv
<1>n. [Next]_vars
  BY DEF TurnsNext
<1>. SUFFICES ASSUME NEW l \in Loops, NEW x \in Members(groups'[l]),
                     NEW y \in Members(groups'[l]), y \in overtaken'[x]
              PROVE  Ahead(groups'[l], x, y)
  BY DEF GroupsTakeTurns
<1>1. x \in Groups /\ y \in Groups /\ x \in Items /\ x \notin Sources /\ y \notin Sources
  <2>1. Members(groups'[l]) \subseteq Groups
    BY DEF TypeOK, Members
  <2>. QED
    BY <2>1, TurnsAssumption DEF Items
<1>2. /\ ~HasTurn(x) /\ Together(x, y)
      /\ y \in overtaken[x] \/ HasTurn(y)
  BY <1>1 DEF TurnsNext
<1>3. PICK k \in Loops : x \in Members(groups[k]) /\ y \in Members(groups[k])
  BY <1>1, <1>2, MembersTypes DEF Together
<1>4. x \in Members(groups[l]) /\ y \in Members(groups[l])
  <2>1. LoopsOf(x) # {} /\ LoopsOf(y) # {}
    BY <1>3 DEF LoopsOf
  <2>. QED
    BY <2>1, <1>n, GroupQueueStep
<1>5. y \in overtaken[x] => Ahead(groups[l], x, y)
  BY <1>4 DEF GroupsTakeTurns
<1>6. HasTurn(y) => loop_turn /\ y = Head(groups[l]) /\ Self = l
  <2>1. ASSUME HasTurn(y), group_turn, y = Head(sources[Self])
        PROVE  FALSE
    BY <2>1, <1>1, SourceTurned, MembersTypes
  <2>2. ASSUME loop_turn, y = Head(groups[Self])
        PROVE  Self = l
    BY <2>2, <1>4, GroupTurned DEF RingsOK
  <2>. QED
    BY <1>n, <2>1, <2>2, WhoHasTurn
<1>7. CASE loop_turn /\ Self = l
  <2>1. x # Head(groups[l])
    BY <1>2, <1>7, GroupTurned
  <2>. QED
    BY <1>2, <1>4, <1>5, <1>6, <1>7, <2>1, GroupTurned
<1>8. CASE ~(loop_turn /\ Self = l)
  <2>1. KeepsOrder(groups[l], groups'[l])
    BY <1>n, <1>8, GroupQueueStep
  <2>. QED
    BY <1>2, <1>5, <1>6, <1>8, <2>1 DEF KeepsOrder
<1>. QED
  BY <1>7, <1>8

LEMMA TurnsInvariance == TurnsSpec => [](IInv /\ TurnsInv)
<1>1. TurnsInit => IInv /\ TurnsInv
  BY InitEstablishes, TurnsEstablished DEF TurnsInit
<1>2. IInv /\ TurnsInv /\ [TurnsNext]_<<vars, overtaken>> => (IInv /\ TurnsInv)'
  <2>. SUFFICES ASSUME IInv, TurnsInv, [TurnsNext]_<<vars, overtaken>>
                PROVE  IInv' /\ TurnsInv'
    OBVIOUS
  <2>1. [Next]_vars
    BY DEF TurnsNext
  <2>2. IInv' /\ TypeOK /\ TypeOK' /\ QueuesOK
    BY <2>1, StepKeeps DEF IInv
  <2>3. RingsOK'
    BY <2>1, <2>2, RingsKept DEF TurnsInv
  <2>4. CASE TurnsNext
    BY <2>2, <2>3, <2>4, SourceTurnsKept, GroupTurnsKept DEF TurnsInv
  <2>5. CASE UNCHANGED <<vars, overtaken>>
    BY <2>2, <2>3, <2>5 DEF TurnsInv, SourcesTakeTurns, GroupsTakeTurns, vars, queues
  <2>. QED
    BY <2>4, <2>5
<1>. QED
  BY <1>1, <1>2, PTL DEF TurnsSpec

\* Round robin among the sources of a group (groups.c:113-122), for any number
\* of them and whatever the callbacks dequeue, enqueue or enter.
THEOREM SourcesTurnsCorrect == TurnsSpec => []SourcesTakeTurns
<1>1. TurnsInv => SourcesTakeTurns
  BY DEF TurnsInv
<1>. QED
  BY <1>1, TurnsInvariance, PTL

\* Round robin among the groups of a loop (loops.c:83-91).
THEOREM GroupsTurnsCorrect == TurnsSpec => []GroupsTakeTurns
<1>1. TurnsInv => GroupsTakeTurns
  BY DEF TurnsInv
<1>. QED
  BY <1>1, TurnsInvariance, PTL
=============================================================================
