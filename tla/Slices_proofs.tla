----------------------------- MODULE Slices_proofs ----------------------------
(***************************************************************************)
(* What the pages that send a list in slices rest on: the slices of a list *)
(* have the size of a batch, the last one excepted.                        *)
(***************************************************************************)
EXTENDS Slices, FiniteSetTheorems, TLAPS

\* The size of an interval.
LEMMA IntervalSize ==
    ASSUME NEW lo \in Nat, NEW n \in Nat
    PROVE  IsFiniteSet(lo..(lo + n - 1)) /\ Cardinality(lo..(lo + n - 1)) = n
<1>1. lo \in Int /\ lo + n - 1 \in Int
  OBVIOUS
<1>2. /\ IsFiniteSet(lo..(lo + n - 1))
      /\ Cardinality(lo..(lo + n - 1)) = IF lo > lo + n - 1 THEN 0 ELSE (lo + n - 1) - lo + 1
  BY <1>1, FS_Interval
<1> QED BY <1>2

\* Ranks grow with the elements, and are the numbers below the length of the list.
LEMMA Ranks ==
    ASSUME NEW S \in SUBSET Nat, IsFiniteSet(S)
    PROVE  /\ Cardinality(S) \in Nat
           /\ \A x \in S : Rank(x, S) \in 0..(Cardinality(S) - 1)
           /\ \A x, y \in S : x < y => Rank(x, S) < Rank(y, S)
           /\ \A r \in 0..(Cardinality(S) - 1) : \E x \in S : Rank(x, S) = r
<1> DEFINE n == Cardinality(S)
           Before(x) == {y \in S : y < x}
<1>0. n \in Nat
  BY FS_CardinalityType
<1>1. \A x \in S : IsFiniteSet(Before(x)) /\ Cardinality(Before(x)) \in Nat /\ Rank(x, S) = Cardinality(Before(x))
  BY FS_Subset, FS_CardinalityType DEF Rank
<1>2. ASSUME NEW x \in S PROVE Rank(x, S) \in 0..(n - 1)
  <2>1. Before(x) \in SUBSET (S \ {x})
    OBVIOUS
  <2>2. IsFiniteSet(S \ {x}) /\ Cardinality(S \ {x}) = n - 1
    BY FS_RemoveElement
  <2>3. Cardinality(Before(x)) <= Cardinality(S \ {x})
    BY <2>1, <2>2, FS_Subset
  <2> QED BY <1>0, <1>1, <2>2, <2>3
<1>3. ASSUME NEW x \in S, NEW y \in S, x < y PROVE Rank(x, S) < Rank(y, S)
  <2>0. \A z \in S : z < x => z < y
    BY <1>3
  <2>1. Before(x) \cup {x} \in SUBSET Before(y)
    BY <1>3, <2>0
  <2>2. x \notin Before(x)
    OBVIOUS
  <2>3. Cardinality(Before(x) \cup {x}) = Cardinality(Before(x)) + 1
    BY <1>1, <2>2, FS_AddElement
  <2>4. Cardinality(Before(x) \cup {x}) <= Cardinality(Before(y))
    BY <1>1, <2>1, FS_Subset
  <2> QED BY <1>1, <2>3, <2>4
<1>4. \A r \in 0..(n - 1) : \E x \in S : Rank(x, S) = r
  <2> DEFINE f == [x \in S |-> Rank(x, S)]
  <2>1. f \in Injection(S, 0..(n - 1))
    BY <1>2, <1>3 DEF Injection, IsInjective
  <2>2. IsFiniteSet(0..(n - 1)) /\ Cardinality(0..(n - 1)) = n
    BY <1>0, IntervalSize
  <2>3. f \in Surjection(S, 0..(n - 1))
    BY <2>1, <2>2, FS_Injection
  <2> QED BY <2>3 DEF Surjection
<1> QED BY <1>0, <1>2, <1>3, <1>4

\* Elements that join the list only move the others back.
LEMMA RanksGrow ==
    ASSUME NEW S \in SUBSET Nat, NEW T \in SUBSET Nat, IsFiniteSet(T), S \subseteq T, NEW x \in S
    PROVE  Rank(x, S) \in Nat /\ Rank(x, T) \in Nat /\ Rank(x, S) <= Rank(x, T)
<1>1. {y \in S : y < x} \in SUBSET {y \in T : y < x} /\ {y \in T : y < x} \in SUBSET T
  OBVIOUS
<1>2. IsFiniteSet({y \in T : y < x})
  BY <1>1, FS_Subset
<1>3. IsFiniteSet({y \in S : y < x}) /\ Cardinality({y \in S : y < x}) <= Cardinality({y \in T : y < x})
  BY <1>1, <1>2, FS_Subset
<1> QED BY <1>2, <1>3, FS_CardinalityType DEF Rank

\* A list is cut into slices that are not empty and not too long.
LEMMA SliceSizes ==
    ASSUME NEW S \in SUBSET Nat, IsFiniteSet(S), NEW size \in Nat \ {0}
    PROVE  /\ Slices(S, size) \in Seq(SUBSET S)
           /\ \A n \in DOMAIN Slices(S, size) : Cardinality(Slices(S, size)[n]) \in 1..size
<1> DEFINE len == Cardinality(S)
           count == (len + size - 1) \div size
<1>0. len \in Nat
  BY FS_CardinalityType
<1>1. count \in Nat /\ \A n \in 1..count : (n - 1) * size < len
  <2>1. len + size - 1 \in Nat
    BY <1>0
  <2>2. count \in Nat /\ count * size <= len + size - 1
    BY <2>1
  <2>3. ASSUME NEW n \in 1..count PROVE (n - 1) * size < len
    <3>1. n * size <= count * size
      BY <2>2
    <3>2. (n - 1) * size = n * size - size /\ n * size \in Nat /\ count * size \in Nat
      BY <2>2
    <3> QED BY <1>0, <2>2, <3>1, <3>2
  <2> QED BY <2>2, <2>3
<1>2. ASSUME NEW n \in 1..count PROVE Cardinality(Slice(S, n, size)) \in 1..size
  <2> DEFINE lo == (n - 1) * size
             part == Slice(S, n, size)
  <2>1. lo \in Nat /\ n * size = lo + size /\ lo < len
    BY <1>1
  <2> HIDE DEF lo
  <2>2. part = {x \in S : lo <= Rank(x, S) /\ Rank(x, S) < lo + size}
    BY <2>1 DEF Slice, lo
  <2> HIDE DEF part
  <2>3. part \in SUBSET S /\ IsFiniteSet(part)
    BY <2>2, FS_Subset
  <2>4. Cardinality(part) <= size
    <3> DEFINE f == [x \in part |-> Rank(x, S)]
    <3>0. /\ \A x \in S : Rank(x, S) \in Nat
          /\ \A x, y \in S : Rank(x, S) = Rank(y, S) => x = y
      BY Ranks
    <3>1. f \in Injection(part, lo..(lo + size - 1))
      <4>1. \A x \in part : Rank(x, S) \in lo..(lo + size - 1)
        BY <2>1, <2>2, <3>0
      <4>2. \A x, y \in part : Rank(x, S) = Rank(y, S) => x = y
        BY <2>3, <3>0
      <4> QED BY <4>1, <4>2 DEF Injection, IsInjective
    <3>2. IsFiniteSet(lo..(lo + size - 1)) /\ Cardinality(lo..(lo + size - 1)) = size
      BY <2>1, IntervalSize
    <3> QED BY <3>1, <3>2, FS_Injection
  <2>5. part # {}
    <3>1. lo \in 0..(len - 1)
      BY <1>0, <2>1
    <3>2. PICK x \in S : Rank(x, S) = lo
      BY <3>1, Ranks
    <3> QED BY <2>1, <2>2, <3>2
  <2>6. Cardinality(part) \in Nat /\ Cardinality(part) # 0
    BY <2>3, <2>5, FS_CardinalityType, FS_EmptySet
  <2> QED BY <2>4, <2>6 DEF part
<1>3. \A n \in 1..count : Slice(S, n, size) \in SUBSET S
  BY DEF Slice
<1>4. Slices(S, size) = [n \in 1..count |-> Slice(S, n, size)]
  BY DEF Slices
<1> HIDE DEF count
<1> QED BY <1>1, <1>2, <1>3, <1>4

=============================================================================
