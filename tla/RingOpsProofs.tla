--------------------------- MODULE RingOpsProofs ---------------------------
(***************************************************************************)
(* Facts about sequences and numbers that the proofs about queues, loops   *)
(* and the demo share: what the operations of module RingOps return, and   *)
(* induction for a set of numbers.                                         *)
(***************************************************************************)
EXTENDS RingOps, FiniteSetTheorems, TLAPS

(***************************************************************************)
(* Induction.  The numbers with some property are a set, so the principle  *)
(* is needed for sets only.                                                *)
(***************************************************************************)

\* A set of numbers that is not empty has a smallest one: the intervals that
\* end at its numbers are finite sets, and one of them is in all others.
LEMMA SmallestIn ==
  ASSUME NEW T \in SUBSET Nat, T # {}
  PROVE  \E m \in T : \A k \in T : m <= k
<1>. DEFINE UpTo(k) == {i \in Nat : i <= k}
            Family == {UpTo(k) : k \in T}
<1>1. \A k \in Nat : IsFiniteSet(UpTo(k))
  <2>. SUFFICES ASSUME NEW k \in Nat PROVE IsFiniteSet(UpTo(k))
    OBVIOUS
  <2>1. UpTo(k) = 0..k
    OBVIOUS
  <2>2. IsFiniteSet(0..k)
    BY FS_Interval
  <2>. QED
    BY <2>1, <2>2
<1>2. Family \subseteq FiniteSubsetsOf(Nat) /\ Family # {}
  BY <1>1 DEF FiniteSubsetsOf
<1>. HIDE DEF Family
<1>3. PICK X \in Family : \A Y \in Family : <<Y, X>> \notin StrictSubsetOrdering(Nat)
  BY <1>2, FS_StrictSubsetOrderingWellFounded, WFMin
<1>4. PICK m \in T : X = UpTo(m)
  BY DEF Family
<1>5. ASSUME NEW k \in T, k < m PROVE FALSE
  <2>1. UpTo(k) \subseteq UpTo(m) /\ UpTo(k) # UpTo(m)
    BY <1>5
  <2>2. UpTo(k) \in Family /\ UpTo(k) \in SUBSET Nat /\ UpTo(m) \in SUBSET Nat
    BY DEF Family
  <2>. QED
    BY <1>3, <1>4, <2>1, <2>2 DEF StrictSubsetOrdering
<1>. QED
  BY <1>5

\* A set that holds 1 and with every number the next one holds all up to n.
LEMMA SetInduction ==
  ASSUME NEW n \in Nat, NEW T, 1 \in T, \A i \in T : i \in 1..(n - 1) => i + 1 \in T
  PROVE  1..n \subseteq T
<1>. DEFINE Missing == (1..n) \ T
<1>. SUFFICES ASSUME Missing # {} PROVE FALSE
  OBVIOUS
<1>1. Missing \in SUBSET Nat
  OBVIOUS
<1>. HIDE DEF Missing
<1>2. PICK m \in Missing : \A k \in Missing : m <= k
  BY <1>1, SmallestIn
<1>. USE DEF Missing
<1>3. m \in 1..n /\ m \notin T /\ m # 1
  BY <1>2
<1>4. m - 1 \in 1..(n - 1) /\ (m - 1) + 1 = m
  BY <1>3
<1>5. m - 1 \in T
  BY <1>2, <1>4
<1>. QED
  BY <1>3, <1>4, <1>5

(***************************************************************************)
(* The operations on sequences: what they return and whom they hold.       *)
(***************************************************************************)

LEMMA EnqueuedMembers ==
  ASSUME NEW S, NEW ring \in Seq(S), NEW x \in S
  PROVE  /\ Enqueued(ring, x) \in Seq(S)
         /\ Members(Enqueued(ring, x)) = Members(ring) \cup {x}
<1>. DEFINE longer == <<x>> \o ring
<1>1. longer \in Seq(S) /\ Len(longer) = Len(ring) + 1
  OBVIOUS
<1>2. longer[1] = x /\ \A i \in 1..Len(ring) : longer[i + 1] = ring[i]
  OBVIOUS
<1>3. \A i \in DOMAIN longer : i = 1 \/ (i - 1 \in DOMAIN ring /\ longer[i] = ring[i - 1])
  BY <1>1, <1>2
<1>4. \A i \in DOMAIN ring : i + 1 \in DOMAIN longer /\ longer[i + 1] = ring[i]
  BY <1>1, <1>2
<1>5. 1 \in DOMAIN longer
  BY <1>1
<1>. HIDE DEF longer
<1>6. Members(longer) = Members(ring) \cup {x}
  BY <1>2, <1>3, <1>4, <1>5 DEF Members
<1>. QED
  BY <1>1, <1>6 DEF Enqueued, longer

LEMMA DequeuedMembers ==
  ASSUME NEW S, NEW ring \in Seq(S)
  PROVE  /\ Dequeued(ring) \in Seq(S)
         /\ Members(Dequeued(ring)) \subseteq Members(ring)
<1>1. CASE ring = <<>>
  BY <1>1 DEF Dequeued, Members
<1>2. CASE ring # <<>>
  <2>1. Tail(ring) \in Seq(S) /\ \A i \in DOMAIN Tail(ring) :
          i + 1 \in DOMAIN ring /\ Tail(ring)[i] = ring[i + 1]
    BY <1>2
  <2>. QED
    BY <1>2, <2>1 DEF Dequeued, Members
<1>. QED
  BY <1>1, <1>2

LEMMA AdvancedMembers ==
  ASSUME NEW S, NEW ring \in Seq(S)
  PROVE  /\ Advanced(ring) \in Seq(S)
         /\ Members(Advanced(ring)) \subseteq Members(ring)
<1>1. CASE ring = <<>>
  BY <1>1 DEF Advanced, Members
<1>2. CASE ring # <<>>
  <2>. DEFINE turned == Append(Tail(ring), Head(ring))
  <2>1. turned \in Seq(S) /\ Len(turned) = Len(ring) /\ Len(ring) \in Nat \ {0}
    BY <1>2
  <2>2. \A i \in DOMAIN turned :
          IF i = Len(ring) THEN turned[i] = ring[1]
                           ELSE i + 1 \in DOMAIN ring /\ turned[i] = ring[i + 1]
    BY <1>2, <2>1
  <2>3. 1 \in DOMAIN ring
    BY <2>1
  <2>. HIDE DEF turned
  <2>4. Members(turned) \subseteq Members(ring)
    BY <2>2, <2>3 DEF Members
  <2>. QED
    BY <1>2, <2>1, <2>4 DEF Advanced, turned
<1>. QED
  BY <1>1, <1>2

\* The node that leaves was at the place "at".
LEMMA WithoutShape ==
  ASSUME NEW S, NEW ring \in Seq(S), NEW x
  PROVE  x \in Members(ring) =>
           \E k \in 1..Len(ring) :
             /\ ring[k] = x
             /\ Without(ring, x) \in Seq(S) /\ Len(Without(ring, x)) = Len(ring) - 1
             /\ \A i \in 1..(Len(ring) - 1) :
                  IF i < k THEN Without(ring, x)[i] = ring[i]
                           ELSE Without(ring, x)[i] = ring[i + 1]
<1>1. CASE x \in Members(ring)
  <2>. DEFINE at == CHOOSE i \in DOMAIN ring : ring[i] = x
              front == SubSeq(ring, 1, at - 1)
              rear == SubSeq(ring, at + 1, Len(ring))
  <2>1. at \in 1..Len(ring) /\ ring[at] = x
    BY <1>1 DEF Members
  <2>. HIDE DEF at
  <2>2. front \in Seq(S) /\ Len(front) = at - 1
        /\ \A i \in 1..(at - 1) : front[i] = ring[i]
    BY <2>1
  <2>3. rear \in Seq(S) /\ Len(rear) = Len(ring) - at
        /\ \A i \in 1..(Len(ring) - at) : rear[i] = ring[at + i]
    BY <2>1
  <2>. DEFINE rest == Without(ring, x)
  <2>4. rest = front \o rear
    BY <1>1 DEF Without, front, rear, at
  <2>. HIDE DEF front, rear, rest
  <2>5. rest \in Seq(S) /\ Len(rest) = Len(ring) - 1
    BY <2>1, <2>2, <2>3, <2>4
  <2>6. \A i \in 1..(Len(ring) - 1) :
          IF i < at THEN rest[i] = ring[i] ELSE rest[i] = ring[i + 1]
    BY <2>1, <2>2, <2>3, <2>4
  <2>7. \E k \in 1..Len(ring) :
          /\ ring[k] = x
          /\ rest \in Seq(S) /\ Len(rest) = Len(ring) - 1
          /\ \A i \in 1..(Len(ring) - 1) :
               IF i < k THEN rest[i] = ring[i] ELSE rest[i] = ring[i + 1]
    BY <2>1, <2>5, <2>6, Zenon
  <2>. QED
    BY <2>7 DEF rest
<1>. QED
  BY <1>1

LEMMA WithoutMembers ==
  ASSUME NEW S, NEW ring \in Seq(S), NEW x
  PROVE  /\ Without(ring, x) \in Seq(S)
         /\ Members(Without(ring, x)) \subseteq Members(ring)
<1>1. CASE x \notin Members(ring)
  BY <1>1 DEF Without
<1>2. CASE x \in Members(ring)
  <2>. DEFINE rest == Without(ring, x)
  <2>1. PICK at \in 1..Len(ring) :
          /\ rest \in Seq(S) /\ Len(rest) = Len(ring) - 1
          /\ \A i \in 1..(Len(ring) - 1) :
               IF i < at THEN rest[i] = ring[i] ELSE rest[i] = ring[i + 1]
    BY <1>2, WithoutShape
  <2>. HIDE DEF rest
  <2>2. ASSUME NEW i \in DOMAIN rest
        PROVE  \E j \in DOMAIN ring : rest[i] = ring[j]
    <3>1. i \in 1..(Len(ring) - 1)
      BY <2>1
    <3>2. i \in DOMAIN ring /\ i + 1 \in DOMAIN ring
      BY <3>1
    <3>. QED
      BY <2>1, <3>1, <3>2
  <2>3. Members(rest) \subseteq Members(ring)
    BY <2>2 DEF Members
  <2>. QED
    BY <2>1, <2>3 DEF rest
<1>. QED
  BY <1>1, <1>2
=============================================================================
