------------------------------- MODULE Counting -------------------------------
(***************************************************************************)
(* Lemmas on the size of sets to which steps add or take away an element,  *)
(* which the proofs about threads and permits share.                       *)
(***************************************************************************)
EXTENDS Naturals, FiniteSets, FiniteSetTheorems, TLAPS

\* The part of a finite set with some property can be counted ...
LEMMA CountOf ==
  ASSUME NEW S, IsFiniteSet(S), NEW T \in SUBSET S
  PROVE  IsFiniteSet(T) /\ Cardinality(T) \in Nat /\ Cardinality(T) <= Cardinality(S)
  BY FS_Subset, FS_CardinalityType

\* ... an element that comes to have it adds one ...
LEMMA CountUp ==
  ASSUME NEW S, IsFiniteSet(S), NEW T \in SUBSET S, NEW U, NEW x, x \notin T, U = T \cup {x}
  PROVE  Cardinality(U) = Cardinality(T) + 1
  BY CountOf, FS_AddElement

\* ... and one that loses it takes one away.
LEMMA CountDown ==
  ASSUME NEW S, IsFiniteSet(S), NEW T \in SUBSET S, NEW U, NEW x \in T, U = T \ {x}
  PROVE  Cardinality(U) = Cardinality(T) - 1
  BY CountOf, FS_RemoveElement

\* Permits are conserved when one element takes a free one or gives it back.
LEMMA PermitsKept ==
  ASSUME NEW S, IsFiniteSet(S), NEW T \in SUBSET S, NEW U, NEW x,
         NEW free \in Nat, NEW total \in Nat, NEW free2, free + Cardinality(T) = total,
         \/ free2 = free /\ U = T
         \/ free2 = free - 1 /\ x \notin T /\ U = T \cup {x}
         \/ free2 = free + 1 /\ x \in T /\ U = T \ {x}
  PROVE  free2 + Cardinality(U) = total
<1>1. Cardinality(T) \in Nat
  BY CountOf
<1>2. CASE free2 = free /\ U = T
  BY <1>2
<1>3. CASE free2 = free - 1 /\ x \notin T /\ U = T \cup {x}
  <2>1. Cardinality(U) = Cardinality(T) + 1
    BY <1>3, CountUp
  <2>2. QED
    BY <1>1, <1>3, <2>1
<1>4. CASE free2 = free + 1 /\ x \in T /\ U = T \ {x}
  <2>1. Cardinality(U) = Cardinality(T) - 1
    BY <1>4, CountDown
  <2>2. QED
    BY <1>1, <1>4, <2>1
<1>5. QED
  BY <1>2, <1>3, <1>4

=============================================================================
