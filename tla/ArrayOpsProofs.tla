--------------------------- MODULE ArrayOpsProofs ---------------------------
(***************************************************************************)
(* What the array helpers return, for arrays of any size.                  *)
(***************************************************************************)
EXTENDS RadixSort, FiniteSetTheorems, WellFoundedInduction, TLAPS

IntArray(n) == [Indices(n) -> Int]

(***************************************************************************)
(* The rank of a value in an array: a natural number that does not shrink  *)
(* when the value grows.                                                   *)
(***************************************************************************)
LEMMA BelowMonotone ==
  ASSUME NEW n \in Nat, NEW a \in IntArray(n),
         NEW v \in Int, NEW w \in Int, v <= w
  PROVE  /\ Below(a, v) \in Nat
         /\ Below(a, v) <= Below(a, w)
<1> DEFINE Smaller(u) == {i \in DOMAIN a : a[i] < u}
<1>1. DOMAIN a = 0 .. (n - 1)
  BY DEF IntArray, Indices
<1>2. IsFiniteSet(DOMAIN a)
  BY <1>1, FS_Interval
<1>3. ASSUME NEW u \in Int
      PROVE  IsFiniteSet(Smaller(u)) /\ Cardinality(Smaller(u)) \in Nat
  <2>1. Smaller(u) \in SUBSET DOMAIN a
    OBVIOUS
  <2>2. IsFiniteSet(Smaller(u))
    BY <2>1, <1>2, FS_Subset
  <2> QED
    BY <2>2, FS_CardinalityType
<1>4. Smaller(v) \in SUBSET Smaller(w)
  BY DEF IntArray
<1>5. Cardinality(Smaller(v)) <= Cardinality(Smaller(w))
  BY <1>3, <1>4, FS_Subset
<1> QED
  BY <1>3, <1>5 DEF Below

(***************************************************************************)
(* An array whose value at each index is a value of a, with as many        *)
(* smaller values in a as an ascending order asks for, is what radix_sort  *)
(* leaves behind.                                                          *)
(***************************************************************************)
LEMMA RadixSortResult ==
  ASSUME NEW n \in Nat, NEW a \in IntArray(n), NEW b \in IntArray(n),
         \A i \in Indices(n) :
           /\ \E j \in Indices(n) : a[j] = b[i]
           /\ Below(a, b[i]) <= i
           /\ i < Below(a, b[i] + 1)
  PROVE  radix_sort(a) = b
<1> DEFINE Fits(i, v) == Below(a, v) <= i /\ i < Below(a, v + 1)
           Values == {a[j] : j \in DOMAIN a}
           Sorted(i) == CHOOSE v \in Values : Fits(i, v)
<1>1. DOMAIN a = Indices(n) /\ DOMAIN b = Indices(n) /\ Indices(n) \subseteq Int
  BY DEF IntArray, Indices
<1>2. Values \subseteq Int
  BY DEF IntArray
<1>3. ASSUME NEW i \in Indices(n)
      PROVE  Sorted(i) = b[i]
  <2>1. b[i] \in Values /\ Fits(i, b[i])
    BY <1>1, <1>3
  <2>2. Sorted(i) \in Values /\ Fits(i, Sorted(i))
    <3> HIDE DEF Values, Fits
    <3> QED
      BY <2>1
  <2>3. ASSUME NEW v \in Values, NEW w \in Values, v < w, Fits(i, v), Fits(i, w)
        PROVE  FALSE
    <3>1. v \in Int /\ w \in Int /\ v + 1 \in Int /\ w + 1 \in Int /\ v + 1 <= w
      BY <1>2, <2>3
    <3>2. Below(a, v + 1) \in Nat /\ Below(a, w) \in Nat
          /\ Below(a, v + 1) <= Below(a, w)
      BY <3>1, BelowMonotone
    <3>3. i < Below(a, v + 1) /\ Below(a, w) <= i /\ i \in Int
      BY <2>3, <1>1
    <3> QED
      BY <3>2, <3>3
  <2> HIDE DEF Fits
  <2> QED
    <3>1. Sorted(i) \in Int /\ b[i] \in Int
      BY <1>2, <2>1, <2>2
    <3> HIDE DEF Sorted, Values
    <3> QED
      BY <2>1, <2>2, <2>3, <3>1
<1>4. radix_sort(a) = [i \in Indices(n) |-> Sorted(i)]
  BY <1>1 DEF radix_sort
<1> HIDE DEF Sorted
<1>5. [i \in Indices(n) |-> Sorted(i)] = [i \in Indices(n) |-> b[i]]
  BY <1>3
<1> QED
  BY <1>1, <1>4, <1>5 DEF IntArray

(***************************************************************************)
(* An array with k leading zeros comes out of move_array shifted by k.     *)
(***************************************************************************)
LEMMA MoveArrayResult ==
  ASSUME NEW n \in Nat, NEW k \in 0 .. n, NEW a \in IntArray(n),
         \A i \in 0 .. (k - 1) : a[i] = 0,
         k < n => a[k] # 0
  PROVE  move_array(a) =
           [i \in Indices(n) |-> IF i + k < n THEN a[i + k] ELSE 0]
<1>1. DOMAIN a = 0 .. (n - 1)
  BY DEF IntArray, Indices
<1>2. {i \in DOMAIN a : \A j \in 0 .. i : a[j] = 0} = 0 .. (k - 1)
  <2>1. ASSUME NEW i \in 0 .. (n - 1), \A j \in 0 .. i : a[j] = 0
        PROVE  i \in 0 .. (k - 1)
    BY <2>1
  <2>2. ASSUME NEW i \in 0 .. (k - 1)
        PROVE  i \in 0 .. (n - 1) /\ \A j \in 0 .. i : a[j] = 0
    BY <2>2
  <2> QED
    BY <1>1, <2>1, <2>2
<1>3. Cardinality(0 .. (k - 1)) = k
  BY FS_Interval
<1>4. LeadingZeros(a) = k
  BY <1>2, <1>3 DEF LeadingZeros
<1>5. \A i \in Indices(n) : i + k \in 0 .. (n - 1) <=> i + k < n
  BY DEF Indices
<1> QED
  BY <1>1, <1>4, <1>5 DEF move_array, Indices

-----------------------------------------------------------------------------
(***************************************************************************)
(* What sorting and shifting keep, for any array of natural numbers up to  *)
(* some bound.                                                             *)
(***************************************************************************)
NatArray(n, bound) == [Indices(n) -> 0 .. bound]

NonZero(a) == {a[i] : i \in DOMAIN a} \ {0}

\* No value but 0 is in two slots.
Distinct(a) == \A i, j \in DOMAIN a : i # j /\ a[i] = a[j] => a[i] = 0

\* Ascending, the zeros at the end.
Ascending(a) == \A i, j \in DOMAIN a : i < j /\ a[j] # 0 => a[i] \in 1 .. (a[j] - 1)

LEMMA LeastNatural ==
  ASSUME NEW T, T \subseteq Nat, T # {}
  PROVE  \E x \in T : \A y \in T : x <= y
<1>1. PICK x \in T : \A y \in T : ~ (<<y, x>> \in OpToRel(<, Nat))
  BY NatLessThanWellFounded, WFMin
<1>2. ASSUME NEW y \in T
      PROVE  x <= y
  <2>1. <<y, x>> \in Nat \X Nat /\ x \in Nat /\ y \in Nat
    OBVIOUS
  <2>2. ~ (y < x)
    BY <1>1, <2>1 DEF OpToRel
  <2> QED
    BY <2>1, <2>2
<1> QED
  BY <1>2

\* The rank grows at the values of the array, and by one where a value is in
\* one slot only.
LEMMA BelowGrows ==
  ASSUME NEW n \in Nat, NEW a \in IntArray(n), NEW v \in Int
  PROVE  /\ Below(a, v) < Below(a, v + 1) <=> \E j \in Indices(n) : a[j] = v
         /\ (\A i, j \in Indices(n) : a[i] = v /\ a[j] = v => i = j)
              => Below(a, v + 1) <= Below(a, v) + 1
<1> DEFINE Smaller(u) == {i \in DOMAIN a : a[i] < u}
<1>1. DOMAIN a = Indices(n) /\ DOMAIN a = 0 .. (n - 1) /\ \A i \in DOMAIN a : a[i] \in Int
  BY DEF IntArray, Indices
<1>2. IsFiniteSet(DOMAIN a)
  BY <1>1, FS_Interval
<1>3. ASSUME NEW u \in Int
      PROVE  IsFiniteSet(Smaller(u)) /\ Cardinality(Smaller(u)) \in Nat
  <2>1. Smaller(u) \in SUBSET DOMAIN a
    OBVIOUS
  <2> QED
    BY <2>1, <1>2, FS_Subset, FS_CardinalityType
<1>4. v + 1 \in Int /\ Smaller(v) \in SUBSET Smaller(v + 1)
  BY <1>1
<1>5. /\ Cardinality(Smaller(v)) <= Cardinality(Smaller(v + 1))
      /\ Cardinality(Smaller(v + 1)) = Cardinality(Smaller(v)) => Smaller(v + 1) = Smaller(v)
  BY <1>3, <1>4, FS_Subset
<1>6. Smaller(v + 1) = Smaller(v) <=> ~ \E j \in Indices(n) : a[j] = v
  BY <1>1
<1>7. ASSUME \A i, j \in Indices(n) : a[i] = v /\ a[j] = v => i = j
      PROVE  Cardinality(Smaller(v + 1)) <= Cardinality(Smaller(v)) + 1
  <2>1. CASE \E j \in Indices(n) : a[j] = v
    <3>1. PICK j \in Indices(n) : a[j] = v
      BY <2>1
    <3>2. Smaller(v + 1) = Smaller(v) \cup {j}
      <4>1. \A i \in DOMAIN a : a[i] < v + 1 <=> a[i] < v \/ a[i] = v
        BY <1>1
      <4>2. \A i \in DOMAIN a : a[i] = v <=> i = j
        BY <1>1, <1>7, <3>1
      <4>3. j \in DOMAIN a
        BY <1>1, <3>1
      <4>4. \A i : i \in Smaller(v + 1) <=> i \in Smaller(v) \/ i = j
        BY <4>1, <4>2, <4>3, Zenon
      <4> HIDE DEF Smaller
      <4> QED
        BY <4>4
    <3> HIDE DEF Smaller
    <3>3. IsFiniteSet(Smaller(v)) /\ Cardinality(Smaller(v)) \in Nat
      BY <1>3
    <3>4. Cardinality(Smaller(v) \cup {j}) =
            IF j \in Smaller(v) THEN Cardinality(Smaller(v)) ELSE Cardinality(Smaller(v)) + 1
      BY <3>3, FS_AddElement
    <3>5. Cardinality(Smaller(v + 1)) = Cardinality(Smaller(v) \cup {j})
      BY <3>2, Zenon
    <3> QED
      BY <3>3, <3>4, <3>5
  <2>2. CASE ~ \E j \in Indices(n) : a[j] = v
    <3>1. Smaller(v + 1) = Smaller(v) /\ Cardinality(Smaller(v)) \in Nat
      BY <1>3, <1>6, <2>2
    <3> QED
      BY <3>1
  <2> QED
    BY <2>1, <2>2
<1>8. Cardinality(Smaller(v)) \in Nat /\ Cardinality(Smaller(v + 1)) \in Nat
  BY <1>3, <1>4
<1> HIDE DEF Smaller
<1>9. Cardinality(Smaller(v)) < Cardinality(Smaller(v + 1)) <=> Smaller(v + 1) # Smaller(v)
  BY <1>5, <1>8
<1> QED
  BY <1>6, <1>7, <1>9 DEF Below, Smaller

\* No value is below 0, and all are below the bound.
LEMMA BelowEnds ==
  ASSUME NEW n \in Nat, NEW bound \in Nat, NEW a \in NatArray(n, bound)
  PROVE  Below(a, 0) = 0 /\ Below(a, bound + 1) = n
<1>1. {i \in DOMAIN a : a[i] < 0} = {} /\ {i \in DOMAIN a : a[i] < bound + 1} = 0 .. (n - 1)
  BY DEF NatArray, Indices
<1>2. Cardinality(0 .. (n - 1)) = n
  BY FS_Interval
<1> QED
  BY <1>1, <1>2, FS_EmptySet DEF Below

\* For every index there is one value with the rank the sorted array asks for.
LEMMA RankHasValue ==
  ASSUME NEW n \in Nat, NEW bound \in Nat, NEW a \in NatArray(n, bound),
         NEW i \in Indices(n)
  PROVE  \E j \in Indices(n) : Below(a, a[j]) <= i /\ i < Below(a, a[j] + 1)
<1> DEFINE Beyond == {t \in Nat : i < Below(a, t)}
<1>1. a \in IntArray(n) /\ i \in Nat /\ i < n /\ bound + 1 \in Nat
  BY DEF NatArray, IntArray, Indices
<1>2. bound + 1 \in Beyond
  BY <1>1, BelowEnds
<1>3. PICK t \in Beyond : \A u \in Beyond : t <= u
  <2>1. Beyond # {} /\ Beyond \subseteq Nat
    BY <1>2
  <2> HIDE DEF Beyond
  <2> QED
    BY <2>1, LeastNatural
<1>4. t \in Nat /\ i < Below(a, t)
  OBVIOUS
<1>5. t # 0
  BY <1>1, <1>4, BelowEnds
<1>6. t - 1 \in Nat /\ (t - 1) + 1 = t
  BY <1>4, <1>5
<1>7. Below(a, t - 1) \in Nat /\ Below(a, t) \in Nat
  BY <1>1, <1>4, <1>6, BelowMonotone
<1>8. Below(a, t - 1) <= i
  <2>1. t - 1 \notin Beyond
    BY <1>3, <1>6
  <2> QED
    BY <1>1, <1>6, <1>7, <2>1
<1>9. PICK j \in Indices(n) : a[j] = t - 1
  <2>1. Below(a, t - 1) < Below(a, (t - 1) + 1)
    BY <1>1, <1>4, <1>6, <1>7, <1>8
  <2>2. t - 1 \in Int
    BY <1>6
  <2> QED
    BY <1>1, <2>1, <2>2, BelowGrows
<1> QED
  BY <1>4, <1>6, <1>8, <1>9

(***************************************************************************)
(* radix_sort leaves the values of the array, all of them, in ascending    *)
(* order, and in one slot each if they were.                               *)
(***************************************************************************)
THEOREM RadixSortSorts ==
  ASSUME NEW n \in Nat, NEW bound \in Nat, NEW a \in NatArray(n, bound)
  PROVE  /\ radix_sort(a) \in NatArray(n, bound)
         /\ \A i \in Indices(n) : \E j \in Indices(n) : radix_sort(a)[i] = a[j]
         /\ \A j \in Indices(n) : \E i \in Indices(n) : radix_sort(a)[i] = a[j]
         /\ \A i, j \in Indices(n) : i < j => radix_sort(a)[i] <= radix_sort(a)[j]
         /\ Distinct(a) => Distinct(radix_sort(a))
<1> DEFINE Fits(i, v) == Below(a, v) <= i /\ i < Below(a, v + 1)
           Values == {a[j] : j \in DOMAIN a}
           r == radix_sort(a)
<1>1. /\ a \in IntArray(n) /\ DOMAIN a = Indices(n) /\ Indices(n) \subseteq Nat
      /\ \A j \in Indices(n) : a[j] \in 0 .. bound
      /\ \A i \in Indices(n) : i < n
  BY DEF NatArray, IntArray, Indices
<1>2. Values \subseteq 0 .. bound
  BY <1>1
<1>3. ASSUME NEW i \in Indices(n)
      PROVE  r[i] \in Values /\ Fits(i, r[i])
  <2>1. r[i] = CHOOSE v \in Values : Fits(i, v)
    BY <1>1, <1>3 DEF radix_sort
  <2>2. \E v \in Values : Fits(i, v)
    BY <1>1, <1>3, RankHasValue
  <2> HIDE DEF Values, Fits, r
  <2> QED
    BY <2>1, <2>2
<1>4. r \in NatArray(n, bound) /\ DOMAIN r = Indices(n)
  <2>1. r = [i \in Indices(n) |-> r[i]]
    BY <1>1 DEF radix_sort
  <2> HIDE DEF r, Values
  <2> QED
    BY <1>2, <1>3, <2>1 DEF NatArray
<1> HIDE DEF r
<1>5. \A i \in Indices(n) : \E j \in Indices(n) : r[i] = a[j]
  BY <1>1, <1>3
\* One index has one value that fits, and the smaller value fits a smaller one.
<1>6. ASSUME NEW i \in Indices(n), NEW j \in Indices(n), NEW v \in Nat, NEW w \in Nat,
             Fits(i, v), Fits(j, w), i <= j
      PROVE  v <= w
  <2> SUFFICES ASSUME w < v
               PROVE  FALSE
    OBVIOUS
  <2>1. w + 1 \in Nat /\ w + 1 <= v
    OBVIOUS
  <2>2. /\ Below(a, w + 1) \in Nat /\ Below(a, v) \in Nat
        /\ Below(a, w + 1) <= Below(a, v)
    BY <1>1, <2>1, BelowMonotone
  <2> QED
    BY <1>1, <1>6, <2>2
<1>7. \A i, j \in Indices(n) : i < j => r[i] <= r[j]
  <2> SUFFICES ASSUME NEW i \in Indices(n), NEW j \in Indices(n), i < j
               PROVE  r[i] <= r[j]
    OBVIOUS
  <2>1. i <= j /\ r[i] \in Nat /\ r[j] \in Nat
    BY <1>1, <1>4 DEF NatArray
  <2> QED
    BY <1>3, <1>6, <2>1
<1>8. ASSUME NEW j \in Indices(n)
      PROVE  \E i \in Indices(n) : r[i] = a[j]
  <2> DEFINE i == Below(a, a[j])
  <2>1. a[j] \in Nat /\ a[j] \in Int /\ a[j] + 1 \in Int /\ a[j] <= bound
    BY <1>1
  <2>2. i \in Nat /\ Below(a, a[j] + 1) \in Nat /\ i < Below(a, a[j] + 1)
    BY <1>1, <2>1, BelowMonotone, BelowGrows
  <2>3. Below(a, a[j] + 1) <= n
    <3>1. bound + 1 \in Int /\ a[j] + 1 <= bound + 1
      BY <2>1
    <3> QED
      BY <1>1, <2>1, <3>1, BelowMonotone, BelowEnds
  <2>4. i \in Indices(n) /\ Fits(i, a[j])
    BY <2>2, <2>3 DEF Indices
  <2>5. r[i] \in Nat /\ Fits(i, r[i])
    BY <1>2, <1>3, <2>4
  <2>6. i <= i
    BY <2>2
  <2> HIDE DEF i, Fits
  <2>7. r[i] <= a[j] /\ a[j] <= r[i]
    BY <1>6, <2>1, <2>4, <2>5, <2>6
  <2>8. r[i] = a[j]
    BY <2>1, <2>5, <2>7
  <2> QED
    BY <2>4, <2>8
<1>9. ASSUME Distinct(a)
      PROVE  Distinct(r)
  <2> SUFFICES ASSUME NEW i \in Indices(n), NEW j \in Indices(n),
                      i < j, r[i] = r[j], r[i] # 0
               PROVE  FALSE
    BY <1>1, <1>4 DEF Distinct
  <2>1. r[i] \in Int /\ r[i] + 1 \in Int /\ Fits(i, r[i]) /\ Fits(j, r[i])
    BY <1>2, <1>3
  <2>2. \A x, y \in Indices(n) : a[x] = r[i] /\ a[y] = r[i] => x = y
    BY <1>1, <1>9 DEF Distinct
  <2>3. Below(a, r[i] + 1) <= Below(a, r[i]) + 1
    BY <1>1, <2>1, <2>2, BelowGrows
  <2>4. Below(a, r[i]) \in Nat /\ Below(a, r[i] + 1) \in Nat
    BY <1>1, <2>1, BelowMonotone
  <2> QED
    BY <1>1, <2>1, <2>3, <2>4
<1> QED
  BY <1>4, <1>5, <1>7, <1>8, <1>9 DEF r

(***************************************************************************)
(* move_array shifts over all the leading zeros, and loses nothing else.   *)
(***************************************************************************)
LEMMA MoveArrayShifts ==
  ASSUME NEW n \in Nat, NEW a \in IntArray(n)
  PROVE  \E k \in 0 .. n :
           /\ \A i \in 0 .. (k - 1) : a[i] = 0
           /\ k < n => a[k] # 0
           /\ move_array(a) = [i \in Indices(n) |-> IF i + k < n THEN a[i + k] ELSE 0]
<1> DEFINE Stops == {k \in Nat : k = n \/ (k < n /\ a[k] # 0)}
<1>1. PICK k \in Stops : \A j \in Stops : k <= j
  <2>1. n \in Stops /\ Stops \subseteq Nat
    OBVIOUS
  <2> HIDE DEF Stops
  <2> QED
    BY <2>1, LeastNatural
<1>2. k \in 0 .. n /\ (k < n => a[k] # 0)
  OBVIOUS
<1>3. \A i \in 0 .. (k - 1) : a[i] = 0
  BY <1>1, <1>2
<1> HIDE DEF Stops
<1> QED
  BY <1>2, <1>3, MoveArrayResult

LEMMA MoveArrayKeeps ==
  ASSUME NEW n \in Nat, NEW bound \in Nat, NEW a \in NatArray(n, bound)
  PROVE  /\ move_array(a) \in NatArray(n, bound)
         /\ NonZero(move_array(a)) = NonZero(a)
         /\ Distinct(a) => Distinct(move_array(a))
<1>1. a \in IntArray(n) /\ DOMAIN a = Indices(n) /\ Indices(n) = 0 .. (n - 1)
  BY DEF NatArray, IntArray, Indices
<1>2. PICK k \in 0 .. n :
         /\ \A i \in 0 .. (k - 1) : a[i] = 0
         /\ k < n => a[k] # 0
         /\ move_array(a) = [i \in Indices(n) |-> IF i + k < n THEN a[i + k] ELSE 0]
  BY <1>1, MoveArrayShifts
<1> DEFINE t == move_array(a)
<1>3. /\ DOMAIN t = 0 .. (n - 1)
      /\ \A i \in 0 .. (n - 1) : t[i] = IF i + k < n THEN a[i + k] ELSE 0
  BY <1>1, <1>2
<1>4. t \in NatArray(n, bound)
  BY <1>1, <1>2 DEF NatArray
<1> HIDE DEF t
<1>5. NonZero(t) \subseteq NonZero(a)
  BY <1>1, <1>3 DEF NonZero
<1>6. NonZero(a) \subseteq NonZero(t)
  <2> SUFFICES ASSUME NEW j \in 0 .. (n - 1), a[j] # 0
               PROVE  \E i \in 0 .. (n - 1) : t[i] = a[j]
    BY <1>1, <1>3 DEF NonZero
  <2>1. j - k \in 0 .. (n - 1) /\ (j - k) + k = j
    BY <1>2
  <2> QED
    BY <1>3, <2>1
<1>7. ASSUME Distinct(a)
      PROVE  Distinct(t)
  BY <1>1, <1>3, <1>7 DEF Distinct
<1> QED
  BY <1>4, <1>5, <1>6, <1>7 DEF t

(***************************************************************************)
(* An array that ascends after its first c slots, which hold zeros, comes  *)
(* out of move_array ascending from the first slot on.                     *)
(***************************************************************************)
LEMMA MoveArrayAscends ==
  ASSUME NEW n \in Nat, NEW bound \in Nat, NEW a \in NatArray(n, bound),
         NEW c \in 0 .. n, \A i \in 0 .. (c - 1) : a[i] = 0,
         \A i, j \in c .. (n - 1) : i < j /\ a[i] # 0 /\ a[j] # 0 => a[i] < a[j],
         \A i, j \in c .. (n - 1) : i < j /\ a[j] # 0 /\ a[i] = 0 =>
           \A x \in 0 .. i : a[x] = 0
  PROVE  Ascending(move_array(a))
<1>1. a \in IntArray(n) /\ DOMAIN a = Indices(n) /\ Indices(n) = 0 .. (n - 1)
      /\ \A i \in 0 .. (n - 1) : a[i] \in Nat
  BY DEF NatArray, IntArray, Indices
<1>2. PICK k \in 0 .. n :
         /\ \A i \in 0 .. (k - 1) : a[i] = 0
         /\ k < n => a[k] # 0
         /\ move_array(a) = [i \in Indices(n) |-> IF i + k < n THEN a[i + k] ELSE 0]
  BY <1>1, MoveArrayShifts
<1> SUFFICES ASSUME NEW i \in 0 .. (n - 1), NEW j \in 0 .. (n - 1),
                    i < j, move_array(a)[j] # 0
             PROVE  move_array(a)[i] \in 1 .. (move_array(a)[j] - 1)
  BY <1>1, <1>2 DEF Ascending
<1>3. /\ j + k < n /\ i + k < n /\ i + k < j + k /\ k < n
      /\ move_array(a)[i] = a[i + k] /\ move_array(a)[j] = a[j + k]
  BY <1>1, <1>2
<1>4. c <= k
  BY <1>2, <1>3
<1>5. i + k \in c .. (n - 1) /\ j + k \in c .. (n - 1) /\ k \in 0 .. (i + k)
  BY <1>3, <1>4
<1>6. a[i + k] # 0
  BY <1>2, <1>3, <1>5
<1>7. a[i + k] < a[j + k] /\ a[i + k] \in Nat /\ a[j + k] \in Nat
  BY <1>1, <1>3, <1>5, <1>6
<1> QED
  BY <1>3, <1>6, <1>7

(***************************************************************************)
(* Sorting and shifting together, as the allocator does them, give the     *)
(* same values in ascending order.                                         *)
(***************************************************************************)
LEMMA TidyResult ==
  ASSUME NEW n \in Nat, NEW bound \in Nat, NEW a \in NatArray(n, bound), Distinct(a)
  PROVE  /\ move_array(radix_sort(a)) \in NatArray(n, bound)
         /\ NonZero(move_array(radix_sort(a))) = NonZero(a)
         /\ Distinct(move_array(radix_sort(a)))
         /\ Ascending(move_array(radix_sort(a)))
<1> DEFINE r == radix_sort(a)
<1>1. /\ r \in NatArray(n, bound) /\ Distinct(r)
      /\ \A i \in Indices(n) : \E j \in Indices(n) : r[i] = a[j]
      /\ \A j \in Indices(n) : \E i \in Indices(n) : r[i] = a[j]
      /\ \A i, j \in Indices(n) : i < j => r[i] <= r[j]
  BY RadixSortSorts
<1> HIDE DEF r
<1>2. /\ DOMAIN a = Indices(n) /\ DOMAIN r = Indices(n) /\ Indices(n) = 0 .. (n - 1)
      /\ \A i \in Indices(n) : r[i] \in Nat
  BY <1>1 DEF NatArray, Indices
<1>3. NonZero(r) = NonZero(a)
  BY <1>1, <1>2 DEF NonZero
<1>4. Ascending(move_array(r))
  <2>1. ASSUME NEW i \in Indices(n), NEW j \in Indices(n), i < j, r[i] # 0
        PROVE  r[i] < r[j]
    <3>1. r[i] <= r[j] /\ r[i] # r[j] /\ r[i] \in Int /\ r[j] \in Int
      BY <1>1, <1>2, <2>1 DEF Distinct
    <3> QED
      BY <3>1
  <2>2. ASSUME NEW i \in Indices(n), NEW x \in 0 .. i, r[i] = 0
        PROVE  r[x] = 0
    <3>1. x \in Indices(n) /\ (x = i \/ x < i)
      BY <1>2
    <3>2. x < i => r[x] <= r[i]
      BY <1>1, <3>1
    <3>3. r[x] \in Nat
      BY <1>2, <3>1
    <3> QED
      BY <2>2, <3>1, <3>2, <3>3
  <2>3. 0 \in 0 .. n /\ \A i \in 0 .. (0 - 1) : r[i] = 0
    OBVIOUS
  <2>4. /\ \A i, j \in 0 .. (n - 1) : i < j /\ r[i] # 0 /\ r[j] # 0 => r[i] < r[j]
        /\ \A i, j \in 0 .. (n - 1) : i < j /\ r[j] # 0 /\ r[i] = 0 =>
             \A x \in 0 .. i : r[x] = 0
    BY <1>2, <2>1, <2>2
  <2> QED
    BY <1>1, <2>3, <2>4, MoveArrayAscends
<1> QED
  BY <1>1, <1>3, <1>4, MoveArrayKeeps DEF r

-----------------------------------------------------------------------------
(***************************************************************************)
(* Where things stand in an ascending array, and how many there are.       *)
(***************************************************************************)
\* Before a value there are only smaller ones, so it is at least that far up.
LEMMA AscendingFrom ==
  ASSUME NEW n \in Nat, NEW bound \in Nat, NEW f \in NatArray(n, bound), Ascending(f),
         NEW i \in Indices(n), f[i] # 0
  PROVE  f[0] # 0 /\ f[0] + i <= f[i]
<1>1. DOMAIN f = 0 .. (n - 1) /\ \A x \in 0 .. (n - 1) : f[x] \in Nat
  BY DEF NatArray, Indices
<1>2. i \in 0 .. (n - 1) /\ 0 \in 0 .. (n - 1)
  BY DEF Indices
<1>3. f[0] # 0
  BY <1>1, <1>2 DEF Ascending
<1> DEFINE Bad == {x \in 0 .. (n - 1) : f[x] # 0 /\ f[x] < f[0] + x}
<1>4. ASSUME Bad # {}
      PROVE  FALSE
  <2>1. Bad \subseteq Nat
    OBVIOUS
  <2>2. PICK x \in Bad : \A y \in Bad : x <= y
    <3> HIDE DEF Bad
    <3> QED
      BY <1>4, <2>1, LeastNatural
  <2>3. x \in 0 .. (n - 1) /\ f[x] # 0 /\ f[x] < f[0] + x /\ x # 0
    BY <1>1, <2>2
  <2>4. x - 1 \in 0 .. (n - 1) /\ x - 1 < x /\ x - 1 \notin Bad
    BY <2>1, <2>2, <2>3
  <2>5. f[x - 1] \in 1 .. (f[x] - 1)
    BY <1>1, <2>3, <2>4 DEF Ascending
  <2>6. f[0] + (x - 1) <= f[x - 1]
    BY <1>1, <2>4, <2>5
  <2> QED
    BY <1>1, <2>3, <2>5, <2>6
<1>5. f[0] \in Nat /\ f[i] \in Nat /\ i \notin Bad
  BY <1>1, <1>2, <1>4
<1> QED
  BY <1>2, <1>3, <1>5

\* A run of consecutive values from the first on stands side by side.
LEMMA AscendingRun ==
  ASSUME NEW n \in Nat, NEW bound \in Nat, NEW f \in NatArray(n, bound), Ascending(f),
         NEW num \in 1 .. n, f[0] # 0,
         \A i \in 0 .. (num - 1) : f[0] + i \in NonZero(f)
  PROVE  \A i \in 0 .. (num - 1) : f[i] = f[0] + i
<1>1. /\ DOMAIN f = 0 .. (n - 1) /\ \A x \in 0 .. (n - 1) : f[x] \in Nat
      /\ \A i \in 0 .. (num - 1) : i \in 0 .. (n - 1)
      /\ 0 \in 0 .. (n - 1)
  BY DEF NatArray, Indices
<1> DEFINE Bad == {i \in 0 .. (num - 1) : f[i] # f[0] + i}
<1> SUFFICES ASSUME Bad # {}
             PROVE  FALSE
  OBVIOUS
<1>2. PICK i \in Bad : \A y \in Bad : i <= y
  <2>1. Bad \subseteq Nat
    OBVIOUS
  <2> HIDE DEF Bad
  <2> QED
    BY <2>1, LeastNatural
<1>3. i \in 0 .. (num - 1) /\ i \in 0 .. (n - 1) /\ f[i] # f[0] + i
  BY <1>1, <1>2
<1>4. PICK j \in 0 .. (n - 1) : f[j] = f[0] + i /\ f[j] # 0
  BY <1>1, <1>3 DEF NonZero
<1>5. CASE j < i
  <2>1. j \in 0 .. (num - 1) /\ j \notin Bad
    BY <1>2, <1>3, <1>5
  <2> QED
    BY <1>1, <1>3, <1>4, <1>5, <2>1
<1>6. CASE i < j
  <2>1. f[i] # 0 /\ f[i] < f[j]
    <3>1. i \in DOMAIN f /\ j \in DOMAIN f
      BY <1>1, <1>3
    <3>2. f[i] \in 1 .. (f[j] - 1)
      BY <1>4, <1>6, <3>1 DEF Ascending
    <3>3. f[j] \in Nat
      BY <1>1, <1>4
    <3> QED
      BY <3>2, <3>3
  <2>2. f[0] + i <= f[i]
    BY <1>3, <2>1, AscendingFrom DEF Indices
  <2> QED
    BY <1>1, <1>3, <1>4, <2>1, <2>2
<1> QED
  BY <1>3, <1>4, <1>5, <1>6

\* The values in the first k slots, and their number.
LEMMA FirstValues ==
  ASSUME NEW n \in Nat, NEW bound \in Nat, NEW f \in NatArray(n, bound), NEW k \in 0 .. n
  PROVE  /\ IsFiniteSet({f[x] : x \in 0 .. (k - 1)})
         /\ Cardinality({f[x] : x \in 0 .. (k - 1)}) \in 0 .. k
         /\ (Distinct(f) /\ \A x \in 0 .. (k - 1) : f[x] # 0)
              => Cardinality({f[x] : x \in 0 .. (k - 1)}) = k
<1> DEFINE S == 0 .. (k - 1)
           T == {f[x] : x \in S}
           g == [x \in S |-> f[x]]
<1>1. IsFiniteSet(S) /\ Cardinality(S) = k
  BY FS_Interval
<1>2. g \in Surjection(S, T)
  BY DEF Surjection
<1>3. ASSUME Distinct(f), \A x \in S : f[x] # 0
      PROVE  g \in Injection(S, T)
  <2>1. DOMAIN f = 0 .. (n - 1) /\ S \subseteq DOMAIN f
    BY DEF NatArray, Indices
  <2>2. g \in [S -> T] /\ \A x, y \in S : g[x] = g[y] => x = y
    BY <1>3, <2>1 DEF Distinct
  <2> QED
    BY <2>2 DEF Injection, IsInjective
<1>4. /\ IsFiniteSet(T) /\ Cardinality(T) <= Cardinality(S)
      /\ g \in Injection(S, T) => Cardinality(T) = Cardinality(S)
  <2> HIDE DEF S, T, g
  <2> QED
    BY <1>1, <1>2, FS_Surjection
<1>5. Cardinality(T) \in Nat
  BY <1>4, FS_CardinalityType
<1> HIDE DEF g
<1> QED
  BY <1>1, <1>3, <1>4, <1>5

\* Two arrays that share the values 1 .. n between them: when the one has num
\* values in front, the other has room for num at the end.
LEMMA RoomAtEnd ==
  ASSUME NEW n \in Nat, NEW f \in NatArray(n, n), NEW g \in NatArray(n, n),
         Distinct(f), Distinct(g), NonZero(f) \cap NonZero(g) = {}, Ascending(g),
         NEW num \in 0 .. n, \A x \in 0 .. (num - 1) : f[x] # 0,
         NEW j \in Indices(n), n - num <= j
  PROVE  g[j] = 0
<1> SUFFICES ASSUME g[j] # 0
             PROVE  FALSE
  OBVIOUS
<1>1. /\ DOMAIN f = 0 .. (n - 1) /\ DOMAIN g = 0 .. (n - 1) /\ j \in 0 .. (n - 1)
      /\ \A x \in 0 .. (n - 1) : f[x] \in 0 .. n /\ g[x] \in 0 .. n
  BY DEF NatArray, Indices
<1> DEFINE A == {f[x] : x \in 0 .. (num - 1)}
           B == {g[x] : x \in 0 .. ((j + 1) - 1)}
<1>2. ASSUME NEW x \in 0 .. ((j + 1) - 1)
      PROVE  x \in DOMAIN g /\ g[x] # 0
  <2>1. x \in DOMAIN g /\ j \in DOMAIN g /\ (x = j \/ x < j)
    BY <1>1
  <2>2. x < j => g[x] \in 1 .. (g[j] - 1)
    BY <2>1 DEF Ascending
  <2> QED
    BY <2>1, <2>2
<1>3. A \subseteq NonZero(f) /\ B \subseteq NonZero(g)
  <2>1. \A x \in 0 .. (num - 1) : x \in DOMAIN f /\ f[x] # 0
    BY <1>1
  <2> QED
    BY <1>2, <2>1, Zenon DEF NonZero
<1>4. A \subseteq 1 .. n /\ B \subseteq 1 .. n
  BY <1>1, <1>2
<1>5. Cardinality(A) = num
  BY FirstValues
<1>6. Cardinality(B) = j + 1
  <2>1. j + 1 \in 0 .. n
    BY <1>1
  <2> QED
    BY <1>2, <2>1, FirstValues
<1>7. IsFiniteSet(1 .. n) /\ Cardinality(1 .. n) = n
  BY FS_Interval
<1>8. Cardinality(A) + Cardinality(B) > Cardinality(1 .. n)
  BY <1>1, <1>5, <1>6, <1>7
<1> HIDE DEF A, B
<1> QED
  BY <1>3, <1>4, <1>7, <1>8, FS_MajoritiesIntersect

\* An empty slot of an ascending array: all the values are before it.
LEMMA ValuesBefore ==
  ASSUME NEW n \in Nat, NEW bound \in Nat, NEW f \in NatArray(n, bound), Ascending(f),
         NEW i \in Indices(n), f[i] = 0
  PROVE  Cardinality(NonZero(f)) \in 0 .. i
<1>1. DOMAIN f = 0 .. (n - 1) /\ \A x \in 0 .. (n - 1) : f[x] \in Nat
  BY DEF NatArray, Indices
<1>2. i \in 0 .. (n - 1) /\ i \in 0 .. n
  BY DEF Indices
<1> DEFINE T == {f[x] : x \in 0 .. (i - 1)}
<1>3. NonZero(f) \subseteq T
  <2> SUFFICES ASSUME NEW x \in 0 .. (n - 1), f[x] # 0
               PROVE  x \in 0 .. (i - 1)
    BY <1>1 DEF NonZero
  <2>1. i < x => f[i] \in 1 .. (f[x] - 1)
    BY <1>1, <1>2 DEF Ascending
  <2> QED
    BY <1>1, <1>2, <2>1
<1>4. IsFiniteSet(T) /\ Cardinality(T) \in 0 .. i
  BY <1>2, FirstValues
<1> HIDE DEF T
<1>5. /\ IsFiniteSet(NonZero(f)) /\ Cardinality(NonZero(f)) <= Cardinality(T)
      /\ Cardinality(NonZero(f)) \in Nat
  BY <1>3, <1>4, FS_Subset, FS_CardinalityType
<1> QED
  BY <1>2, <1>4, <1>5

\* binarySearch finds the first slot with the value.
LEMMA BinarySearchFinds ==
  ASSUME NEW n \in Nat, NEW a, DOMAIN a = Indices(n), NEW x, binarySearch(a, x) # -1
  PROVE  /\ binarySearch(a, x) \in Indices(n)
         /\ a[binarySearch(a, x)] = x
         /\ \A j \in 0 .. (binarySearch(a, x) - 1) : a[j] # x
<1> DEFINE At == {i \in DOMAIN a : a[i] = x}
<1>1. At # {} /\ At \subseteq Nat
  BY DEF binarySearch, Indices
<1>2. PICK i \in At : \A j \in At : i <= j
  <2> HIDE DEF At
  <2> QED
    BY <1>1, LeastNatural
<1>3. i \in DOMAIN a /\ a[i] = x /\ \A j \in 0 .. (i - 1) : a[j] # x
  BY <1>2 DEF Indices
<1> QED
  BY <1>3, Zenon DEF binarySearch
-----------------------------------------------------------------------------
(***************************************************************************)
(* The digit passes.  A pass puts the values in the order of a digit, and  *)
(* those with the same digit in the order they had.                        *)
(***************************************************************************)
Precedes(a, d, j, i) ==
  \/ Digit(a[j], d) < Digit(a[i], d)
  \/ Digit(a[j], d) = Digit(a[i], d) /\ j < i

\* The indices whose values come to the slot of index i or before it.
UpTo(a, d, i) == {j \in DOMAIN a : j = i \/ Precedes(a, d, j, i)}

\* In the order of their remainders by m: the digits that m cuts off do not count.
SortedBy(a, m) == \A k, l \in DOMAIN a : k < l => a[k] % m <= a[l] % m

\* Each value as often as in a.
Rearranged(b, a) == \A v \in Int : Below(b, v) = Below(a, v)

Million == 1000000

LEMMA DigitFacts ==
  ASSUME NEW n \in Nat, NEW bound \in Nat, NEW a \in NatArray(n, bound),
         NEW d \in Nat \ {0}
  PROVE  /\ DOMAIN a = 0 .. (n - 1) /\ Indices(n) = 0 .. (n - 1)
         /\ \A i \in 0 .. (n - 1) : a[i] \in 0 .. bound /\ Digit(a[i], d) \in Int
<1>1. /\ DOMAIN a = 0 .. (n - 1) /\ Indices(n) = 0 .. (n - 1)
      /\ \A i \in 0 .. (n - 1) : a[i] \in 0 .. bound
  BY DEF NatArray, Indices
<1>2. \A v \in Int : Digit(v, d) \in Int
  <2>1. \A v \in Int : v \div d \in Int
    OBVIOUS
  <2>2. \A v \in Int : v % 10 \in Int
    OBVIOUS
  <2> QED
    BY <2>1, <2>2 DEF Digit
<1>3. \A i \in 0 .. (n - 1) : a[i] \in Int
  BY <1>1
<1> QED
  BY <1>1, <1>2, <1>3

\* The buckets, filled downwards, count the indices that come first.
LEMMA SlotCounts ==
  ASSUME NEW n \in Nat, NEW bound \in Nat, NEW a \in NatArray(n, bound),
         NEW d \in Nat \ {0}, NEW i \in 0 .. (n - 1)
  PROVE  /\ IsFiniteSet(UpTo(a, d, i)) /\ Cardinality(UpTo(a, d, i)) \in 1 .. n
         /\ Slot(a, d, i) = Cardinality(UpTo(a, d, i)) - 1
<1>1. /\ DOMAIN a = 0 .. (n - 1)
      /\ \A j \in 0 .. (n - 1) : Digit(a[j], d) \in Int
  BY DigitFacts
<1> DEFINE All == {j \in DOMAIN a : Digit(a[j], d) <= Digit(a[i], d)}
           Later == {j \in DOMAIN a : /\ j > i
                                      /\ Digit(a[j], d) = Digit(a[i], d)}
           L == UpTo(a, d, i)
<1>2. IsFiniteSet(0 .. (n - 1)) /\ Cardinality(0 .. (n - 1)) = n
  BY FS_Interval
<1>3. L \subseteq 0 .. (n - 1) /\ Later \subseteq 0 .. (n - 1) /\ i \in L
  BY <1>1 DEF UpTo
<1>4. All = L \cup Later /\ L \cap Later = {}
  BY <1>1 DEF UpTo, Precedes
<1>5. Slot(a, d, i) = Cardinality(All) - 1 - Cardinality(Later)
  BY DEF Slot, Bucket
<1> HIDE DEF All, Later, L
<1>6. /\ IsFiniteSet(L) /\ Cardinality(L) <= n
      /\ IsFiniteSet(Later)
  BY <1>2, <1>3, FS_Subset
<1>7. Cardinality(L) \in Nat /\ Cardinality(Later) \in Nat
  BY <1>6, FS_CardinalityType
<1>8. Cardinality(L) # 0
  BY <1>3, <1>6, FS_EmptySet
<1>9. Cardinality(All) = Cardinality(L) + Cardinality(Later)
  <2>1. Cardinality(L \cap Later) = 0
    BY <1>4, FS_EmptySet
  <2>2. Cardinality(L \cup Later) = Cardinality(L) + Cardinality(Later) - Cardinality(L \cap Later)
    BY <1>6, FS_Union
  <2> QED
    BY <1>4, <1>7, <2>1, <2>2
<1>10. /\ Cardinality(L) \in 1 .. n
       /\ Slot(a, d, i) = Cardinality(L) - 1
  BY <1>5, <1>6, <1>7, <1>8, <1>9
<1> QED
  BY <1>6, <1>10 DEF L

LEMMA SlotOrder ==
  ASSUME NEW n \in Nat, NEW bound \in Nat, NEW a \in NatArray(n, bound),
         NEW d \in Nat \ {0}, NEW i \in 0 .. (n - 1), NEW j \in 0 .. (n - 1)
  PROVE  /\ Slot(a, d, i) \in 0 .. (n - 1)
         /\ Precedes(a, d, i, j) => Slot(a, d, i) < Slot(a, d, j)
         /\ Precedes(a, d, i, j) \/ Precedes(a, d, j, i) \/ i = j
<1>1. /\ DOMAIN a = 0 .. (n - 1)
      /\ \A x \in 0 .. (n - 1) : Digit(a[x], d) \in Int
  BY DigitFacts
<1>2. /\ IsFiniteSet(UpTo(a, d, j)) /\ Cardinality(UpTo(a, d, j)) \in 1 .. n
      /\ Cardinality(UpTo(a, d, i)) \in 1 .. n
      /\ Slot(a, d, i) = Cardinality(UpTo(a, d, i)) - 1
      /\ Slot(a, d, j) = Cardinality(UpTo(a, d, j)) - 1
  BY SlotCounts
<1>3. ASSUME Precedes(a, d, i, j)
      PROVE  Cardinality(UpTo(a, d, i)) < Cardinality(UpTo(a, d, j))
  <2>1. /\ UpTo(a, d, i) \in SUBSET UpTo(a, d, j)
        /\ j \in UpTo(a, d, j) /\ j \notin UpTo(a, d, i)
    BY <1>1, <1>3 DEF UpTo, Precedes
  <2>2. UpTo(a, d, i) # UpTo(a, d, j)
    BY <2>1
  <2>3. /\ Cardinality(UpTo(a, d, i)) <= Cardinality(UpTo(a, d, j))
        /\ Cardinality(UpTo(a, d, i)) # Cardinality(UpTo(a, d, j))
    BY <1>2, <2>1, <2>2, FS_Subset
  <2> QED
    BY <1>2, <2>3
<1>4. Precedes(a, d, i, j) \/ Precedes(a, d, j, i) \/ i = j
  BY <1>1 DEF Precedes
<1>5. Slot(a, d, i) \in 0 .. (n - 1)
  BY <1>2
<1> QED
  BY <1>2, <1>3, <1>4, <1>5

\* Every slot is filled, and with one value.
LEMMA SlotsFilled ==
  ASSUME NEW n \in Nat, NEW bound \in Nat, NEW a \in NatArray(n, bound),
         NEW d \in Nat \ {0}
  PROVE  \E p \in Bijection(0 .. (n - 1), 0 .. (n - 1)) :
           \A k \in 0 .. (n - 1) : Slot(a, d, p[k]) = k /\ semiSorted(a, d)[k] = a[p[k]]
<1> DEFINE N == 0 .. (n - 1)
           f == [i \in N |-> Slot(a, d, i)]
           p == [k \in N |-> CHOOSE i \in N : Slot(a, d, i) = k]
<1>1. DOMAIN a = N
  BY DigitFacts
<1>2. IsFiniteSet(N)
  BY FS_Interval
<1>3. \A i, j \in N : Slot(a, d, i) \in N /\ (Slot(a, d, i) = Slot(a, d, j) => i = j)
  <2> SUFFICES ASSUME NEW i \in N, NEW j \in N
               PROVE  Slot(a, d, i) \in N /\ (Slot(a, d, i) = Slot(a, d, j) => i = j)
    OBVIOUS
  <2>1. /\ Slot(a, d, i) \in N /\ Slot(a, d, j) \in N
        /\ Precedes(a, d, i, j) => Slot(a, d, i) < Slot(a, d, j)
        /\ Precedes(a, d, j, i) => Slot(a, d, j) < Slot(a, d, i)
        /\ Precedes(a, d, i, j) \/ Precedes(a, d, j, i) \/ i = j
    BY SlotOrder
  <2> QED
    BY <2>1
<1>4. f \in Injection(N, N)
  <2> HIDE DEF N
  <2>1. f \in [N -> N] /\ \A i, j \in N : f[i] = f[j] => i = j
    BY <1>3
  <2> QED
    BY <2>1 DEF Injection, IsInjective
<1>5. f \in Surjection(N, N)
  <2> HIDE DEF N, f
  <2> QED
    BY <1>2, <1>4, FS_Injection
<1>6. \A k \in N : \E i \in N : Slot(a, d, i) = k
  <2> HIDE DEF N
  <2> QED
    BY <1>5 DEF Surjection
<1>7. \A k \in N : p[k] \in N /\ Slot(a, d, p[k]) = k
  <2> HIDE DEF N
  <2> QED
    BY <1>6
<1>8. p \in Bijection(N, N)
  <2> HIDE DEF N
  <2>1. p \in [N -> N]
    BY <1>7
  <2> HIDE DEF p
  <2>2. \A k, l \in N : p[k] = p[l] => k = l
    BY <1>7
  <2>3. \A i \in N : \E k \in N : p[k] = i
    BY <1>3, <1>7
  <2> QED
    BY <2>1, <2>2, <2>3 DEF Bijection, Injection, IsInjective, Surjection
<1>9. \A k \in N : semiSorted(a, d)[k] = a[p[k]]
  <2> HIDE DEF N
  <2> QED
    BY <1>1 DEF semiSorted
<1> HIDE DEF p
<1> QED
  BY <1>7, <1>8, <1>9

\* A rearrangement by a one-to-one map keeps the ranks.
LEMMA RanksKept ==
  ASSUME NEW n \in Nat, NEW bound \in Nat, NEW a \in NatArray(n, bound),
         NEW b, DOMAIN b = 0 .. (n - 1),
         NEW p \in Bijection(0 .. (n - 1), 0 .. (n - 1)),
         \A k \in 0 .. (n - 1) : b[k] = a[p[k]]
  PROVE  Rearranged(b, a)
<1> DEFINE N == 0 .. (n - 1)
<1>1. DOMAIN a = N
  BY DEF NatArray, Indices
<1> SUFFICES ASSUME NEW v \in Int
             PROVE  Below(b, v) = Below(a, v)
  BY DEF Rearranged
<1> DEFINE B == {k \in N : b[k] < v}
           A == {i \in N : a[i] < v}
           f == [k \in B |-> p[k]]
<1>2. IsFiniteSet(N)
  BY FS_Interval
<1>3. /\ p \in [N -> N] /\ \A k, l \in N : p[k] = p[l] => k = l
      /\ \A i \in N : \E k \in N : p[k] = i
  <2>1. p \in Bijection(N, N)
    OBVIOUS
  <2> HIDE DEF N
  <2> QED
    BY <2>1 DEF Bijection, Injection, IsInjective, Surjection
<1> HIDE DEF N
<1>4. IsFiniteSet(B)
  BY <1>2, FS_Subset
<1>5. f \in [B -> A]
  BY <1>3 DEF N
<1>6. \A k, l \in B : f[k] = f[l] => k = l
  BY <1>3
<1>7. \A i \in A : \E k \in B : f[k] = i
  BY <1>3 DEF N
<1> HIDE DEF A, B, f
<1>8. f \in Bijection(B, A)
  BY <1>5, <1>6, <1>7 DEF Bijection, Injection, IsInjective, Surjection
<1>9. Cardinality(A) = Cardinality(B)
  BY <1>4, <1>8, FS_Bijection DEF ExistsBijection
<1> QED
  BY <1>1, <1>9 DEF Below, A, B, N
\* What is left when a number is divided by ten times d: its digit at d, and
\* what is left when it is divided by d.
LEMMA DigitAndRest ==
  ASSUME NEW d \in Nat \ {0}, NEW v \in Nat
  PROVE  /\ v % (10 * d) = d * Digit(v, d) + (v % d)
         /\ v % d \in 0 .. (d - 1)
         /\ Digit(v, d) \in 0 .. 9
<1> DEFINE q == v \div d
           r == v % d
           t == q \div 10
           u == q % 10
<1>1. q \in Nat /\ r \in 0 .. (d - 1) /\ v = d * q + r
  OBVIOUS
<1> HIDE DEF q, r
<1>2. t \in Nat /\ u \in 0 .. 9 /\ q = 10 * t + u
  BY <1>1
<1> HIDE DEF t, u
<1>3. d * u \in Nat /\ d * u + r < 10 * d
  <2> DEFINE z == 9 - u
  <2>1. z \in Nat /\ u = 9 - z
    BY <1>2
  <2> HIDE DEF z
  <2>2. d * u = 9 * d - d * z /\ d * z \in Nat
    BY <2>1
  <2>3. d * u \in Nat
    BY <1>2
  <2> QED
    BY <1>1, <2>2, <2>3
<1>4. v = (10 * d) * t + (d * u + r)
  BY <1>1, <1>2
<1> DEFINE e == 10 * d
           w == d * u + r
<1>5. e \in Nat /\ e > 0 /\ w \in Nat /\ w < e /\ v = e * t + w
  BY <1>1, <1>3, <1>4
<1> HIDE DEF e, w
<1>6. v % e = w
  BY <1>2, <1>5
<1> QED
  BY <1>1, <1>2, <1>6 DEF Digit, e, w, q, r, u

\* Such remainders are ordered by the digit, then by the rest.
LEMMA DigitThenRest ==
  ASSUME NEW d \in Nat \ {0}, NEW v \in Nat, NEW w \in Nat,
         \/ Digit(v, d) < Digit(w, d)
         \/ Digit(v, d) = Digit(w, d) /\ v % d <= w % d
  PROVE  v % (10 * d) <= w % (10 * d)
<1> DEFINE x == Digit(v, d)
           y == Digit(w, d)
<1>1. /\ v % (10 * d) = d * x + (v % d) /\ w % (10 * d) = d * y + (w % d)
      /\ v % d \in 0 .. (d - 1) /\ w % d \in 0 .. (d - 1)
      /\ x \in 0 .. 9 /\ y \in 0 .. 9
  BY DigitAndRest
<1>2. x < y \/ (x = y /\ v % d <= w % d)
  OBVIOUS
<1> HIDE DEF x, y
<1>3. d * x \in Nat /\ d * y \in Nat
  BY <1>1
<1>4. CASE x < y
  <2> DEFINE z == y - x - 1
  <2>1. z \in Nat /\ y = x + 1 + z
    BY <1>1, <1>4
  <2> HIDE DEF z
  <2>2. d * y = d * x + d + d * z /\ d * z \in Nat
    BY <1>1, <2>1
  <2> QED
    BY <1>1, <1>3, <2>2
<1>5. CASE x = y /\ v % d <= w % d
  BY <1>1, <1>3, <1>5
<1> QED
  BY <1>2, <1>4, <1>5

\* One turn of the loop: the values in the order of one digit more.
LEMMA TurnSorts ==
  ASSUME NEW n \in Nat, NEW bound \in Nat, NEW a \in NatArray(n, bound),
         NEW d \in Nat \ {0}, SortedBy(a, d),
         NEW largest \in Int, \A i \in 0 .. (n - 1) : a[i] <= largest
  PROVE  /\ Turn(a, largest, d) \in NatArray(n, bound)
         /\ Rearranged(Turn(a, largest, d), a)
         /\ SortedBy(Turn(a, largest, d), 10 * d)
         /\ \A i \in 0 .. (n - 1) : Turn(a, largest, d)[i] <= largest
<1>1. /\ DOMAIN a = 0 .. (n - 1) /\ Indices(n) = 0 .. (n - 1)
      /\ \A i \in 0 .. (n - 1) : a[i] \in 0 .. bound
      /\ \A i \in 0 .. (n - 1) : Digit(a[i], d) \in Int
  BY DigitFacts
<1>2. CASE largest \div d > 0
  <2> DEFINE b == semiSorted(a, d)
  <2>1. Turn(a, largest, d) = b
    BY <1>2 DEF Turn
  <2>2. PICK p \in Bijection(0 .. (n - 1), 0 .. (n - 1)) :
           \A k \in 0 .. (n - 1) : Slot(a, d, p[k]) = k /\ b[k] = a[p[k]]
    BY SlotsFilled
  <2>3. \A k \in 0 .. (n - 1) : p[k] \in 0 .. (n - 1)
    BY DEF Bijection, Injection
  <2>4. DOMAIN b = 0 .. (n - 1) /\ b = [k \in DOMAIN b |-> b[k]]
    BY <1>1 DEF semiSorted
  <2> HIDE DEF b
  <2>5. \A k \in 0 .. (n - 1) : b[k] \in 0 .. bound /\ b[k] <= largest
    BY <1>1, <2>2, <2>3
  <2>6. b \in NatArray(n, bound)
    BY <1>1, <2>4, <2>5 DEF NatArray
  <2>7. Rearranged(b, a)
    BY <2>2, <2>4, RanksKept
  <2>8. ASSUME NEW k \in 0 .. (n - 1), NEW l \in 0 .. (n - 1), k < l
        PROVE  b[k] % (10 * d) <= b[l] % (10 * d)
    <3>1. /\ p[k] \in 0 .. (n - 1) /\ p[l] \in 0 .. (n - 1)
          /\ Slot(a, d, p[k]) = k /\ Slot(a, d, p[l]) = l
          /\ b[k] = a[p[k]] /\ b[l] = a[p[l]]
          /\ a[p[k]] \in Nat /\ a[p[l]] \in Nat
      BY <1>1, <2>2, <2>3
    <3>2. /\ Precedes(a, d, p[l], p[k]) => Slot(a, d, p[l]) < Slot(a, d, p[k])
          /\ Precedes(a, d, p[l], p[k]) \/ Precedes(a, d, p[k], p[l]) \/ p[l] = p[k]
      BY <3>1, SlotOrder
    <3>3. Precedes(a, d, p[k], p[l])
      BY <2>8, <3>1, <3>2
    <3>4. \/ Digit(a[p[k]], d) < Digit(a[p[l]], d)
          \/ Digit(a[p[k]], d) = Digit(a[p[l]], d) /\ a[p[k]] % d <= a[p[l]] % d
      BY <1>1, <3>1, <3>3 DEF Precedes, SortedBy
    <3> QED
      BY <3>1, <3>4, DigitThenRest
  <2> QED
    BY <2>1, <2>4, <2>5, <2>6, <2>7, <2>8 DEF SortedBy
<1>3. CASE ~ (largest \div d > 0)
  <2>1. Turn(a, largest, d) = a
    BY <1>3 DEF Turn
  <2>2. largest < d
    <3> SUFFICES ASSUME largest \in Nat
                 PROVE  largest < d
      OBVIOUS
    <3> DEFINE q == largest \div d
    <3>1. q \in Nat /\ largest % d \in 0 .. (d - 1) /\ largest = d * q + (largest % d)
      OBVIOUS
    <3>2. q = 0
      BY <1>3, <3>1
    <3> HIDE DEF q
    <3> QED
      BY <3>1, <3>2
  <2>3. ASSUME NEW i \in 0 .. (n - 1)
        PROVE  a[i] % (10 * d) = a[i] /\ a[i] % d = a[i]
    <3>1. a[i] \in Nat /\ a[i] < d /\ a[i] < 10 * d
      BY <1>1, <2>2
    <3> QED
      BY <3>1
  <2>4. SortedBy(a, 10 * d)
    BY <1>1, <2>3 DEF SortedBy
  <2> QED
    BY <2>1, <2>4 DEF Rearranged
<1> QED
  BY <1>2, <1>3

LEMMA LargestNum ==
  ASSUME NEW n \in Nat, NEW bound \in Nat, NEW a \in NatArray(n, bound)
  PROVE  /\ findLargestNum(a) \in Int
         /\ \A i \in 0 .. (n - 1) : a[i] <= findLargestNum(a)
<1> DEFINE V == {-1} \cup {a[i] : i \in DOMAIN a}
           T == {bound - v : v \in V}
           Largest(u) == u >= -1 /\ \A i \in DOMAIN a : a[i] <= u
<1>1. DOMAIN a = 0 .. (n - 1) /\ \A i \in 0 .. (n - 1) : a[i] \in 0 .. bound
  BY DEF NatArray, Indices
<1>2. V \subseteq Int /\ \A v \in V : v >= -1 /\ v <= bound
  BY <1>1
<1>3. PICK x \in T : \A y \in T : x <= y
  <2>1. T \subseteq Nat /\ T # {}
    BY <1>2
  <2> HIDE DEF T
  <2> QED
    BY <2>1, LeastNatural
<1>4. PICK v \in V : x = bound - v
  OBVIOUS
<1>5. Largest(v)
  <2>1. ASSUME NEW i \in DOMAIN a
        PROVE  a[i] <= v
    <3>1. a[i] \in V /\ bound - a[i] \in T /\ a[i] \in Int /\ v \in Int
      BY <1>1, <1>2
    <3>2. x <= bound - a[i]
      BY <1>3, <3>1
    <3> QED
      BY <1>4, <3>1, <3>2
  <2> QED
    BY <1>2, <2>1
<1>6. findLargestNum(a) \in V /\ Largest(findLargestNum(a))
  BY <1>5 DEF findLargestNum
<1> QED
  BY <1>1, <1>2, <1>6

(***************************************************************************)
(* The loop of radix_sort on the digits, with its counting buckets, gives  *)
(* the sorted array, for every array of numbers of at most six digits.     *)
(***************************************************************************)
THEOREM DigitPassesSort ==
  ASSUME NEW n \in Nat, NEW bound \in Nat, bound < Million, NEW a \in NatArray(n, bound)
  PROVE  radix_sort_passes(a) = radix_sort(a)
<1> DEFINE L == findLargestNum(a)
           Good(b, m) == /\ b \in NatArray(n, bound) /\ Rearranged(b, a) /\ SortedBy(b, m)
                         /\ \A i \in 0 .. (n - 1) : b[i] <= L
           b1 == Turn(a, L, 1)
           b2 == Turn(b1, L, 10)
           b3 == Turn(b2, L, 100)
           b4 == Turn(b3, L, 1000)
           b5 == Turn(b4, L, 10000)
           b6 == Turn(b5, L, 100000)
<1>1. radix_sort_passes(a) = b6
  BY DEF radix_sort_passes
<1>2. L \in Int /\ \A i \in 0 .. (n - 1) : a[i] <= L
  BY LargestNum
<1>3. Good(a, 1)
  <2>1. DOMAIN a = 0 .. (n - 1) /\ \A i \in 0 .. (n - 1) : a[i] % 1 = 0
    BY DEF NatArray, Indices
  <2> QED
    BY <1>2, <2>1 DEF Rearranged, SortedBy
<1> HIDE DEF L
<1>4. ASSUME NEW b, NEW d \in Nat \ {0}, Good(b, d)
      PROVE  Good(Turn(b, L, d), 10 * d)
  BY <1>2, <1>4, TurnSorts DEF Rearranged
<1> HIDE DEF Good
<1>5. Good(b6, Million)
  <2>1. Good(b1, 10)
    BY <1>3, <1>4
  <2>2. Good(b2, 100)
    BY <1>4, <2>1, SMT
  <2>3. Good(b3, 1000)
    BY <1>4, <2>2, SMT
  <2>4. Good(b4, 10000)
    BY <1>4, <2>3, SMT
  <2>5. Good(b5, 100000)
    BY <1>4, <2>4, SMT
  <2>6. 10 * 100000 = Million
    BY SMT DEF Million
  <2> QED
    BY <1>4, <2>5, <2>6, SMT
<1> HIDE DEF b6
<1>6. b6 \in NatArray(n, bound) /\ Rearranged(b6, a) /\ SortedBy(b6, Million)
  BY <1>5 DEF Good
<1>7. /\ DOMAIN b6 = 0 .. (n - 1) /\ Indices(n) = 0 .. (n - 1)
      /\ \A i \in 0 .. (n - 1) : b6[i] \in 0 .. bound
      /\ a \in IntArray(n) /\ b6 \in IntArray(n)
  BY <1>6 DEF NatArray, IntArray, Indices
<1>8. \A k, l \in 0 .. (n - 1) : k < l => b6[k] <= b6[l]
  <2>1. \A i \in 0 .. (n - 1) : b6[i] \in Int /\ 0 <= b6[i] /\ b6[i] < Million
    BY <1>7, SMT DEF Million
  <2>2. \A v \in Int : 0 <= v /\ v < Million => v % Million = v
    BY SMT DEF Million
  <2>3. \A i \in 0 .. (n - 1) : b6[i] % Million = b6[i]
    BY <2>1, <2>2
  <2> QED
    BY <1>6, <1>7, <2>3 DEF SortedBy
<1>9. ASSUME NEW i \in 0 .. (n - 1)
      PROVE  /\ \E j \in Indices(n) : a[j] = b6[i]
             /\ Below(a, b6[i]) <= i
             /\ i < Below(a, b6[i] + 1)
  <2> DEFINE v == b6[i]
             Low == {j \in DOMAIN b6 : b6[j] < v}
             Upto == {j \in DOMAIN b6 : b6[j] < v + 1}
  <2>1. v \in Int /\ v + 1 \in Int
    BY <1>7
  <2>2. Below(a, v) = Cardinality(Low) /\ Below(a, v + 1) = Cardinality(Upto)
    BY <1>6, <2>1 DEF Rearranged, Below
  <2>3. Low \in SUBSET (0 .. (i - 1)) /\ (0 .. i) \in SUBSET Upto /\ Upto \in SUBSET (0 .. (n - 1))
    BY <1>7, <1>8
  <2> HIDE DEF Low, Upto, v
  <2>4. /\ IsFiniteSet(0 .. (i - 1)) /\ Cardinality(0 .. (i - 1)) = i
        /\ Cardinality(0 .. i) = i + 1 /\ IsFiniteSet(0 .. (n - 1))
    BY FS_Interval
  <2>5. Cardinality(Low) <= i
    BY <2>3, <2>4, FS_Subset
  <2>6. IsFiniteSet(Upto) /\ i + 1 <= Cardinality(Upto)
    BY <2>3, <2>4, FS_Subset
  <2>7. IsFiniteSet(Low) /\ Cardinality(Low) \in Nat /\ Cardinality(Upto) \in Nat
    BY <2>3, <2>4, <2>6, FS_Subset, FS_CardinalityType
  <2>8. Below(a, v) < Below(a, v + 1)
    BY <2>2, <2>5, <2>6, <2>7
  <2>9. \E j \in Indices(n) : a[j] = v
    BY <1>7, <2>1, <2>8, BelowGrows
  <2> QED
    BY <2>2, <2>5, <2>6, <2>7, <2>9 DEF v
<1> QED
  BY <1>1, <1>7, <1>9, RadixSortResult
=============================================================================
