--------------------------- MODULE ShmPoolProofs ---------------------------
(***************************************************************************)
(* What the allocator does for a client with one area at a time, whatever  *)
(* the number of blocks and the size of the area.                          *)
(***************************************************************************)
EXTENDS ShmPool, ArrayOpsProofs

LEMMA MembersIsBuffers ==
  members = Buffers /\ members \in Nat \ {0}
BY BuffersAssumption DEF members

(***************************************************************************)
(* The first allocation returns block 1 and takes the blocks after it.     *)
(***************************************************************************)
THEOREM AllocFromFresh ==
  ASSUME NEW num \in 1 .. members
  PROVE  /\ CanAlloc(free_pool_init, num)
         /\ AllocRoot(free_pool_init, num) = 1
         /\ shm_alloc(free_pool_init, num) = OneArea(num)
<1> DEFINE m == members
           Taken == [i \in Indices(m) |->
                       IF i < num THEN 0 ELSE free_pool_init.free[i]]
           Filled == [j \in Indices(m) |->
                        IF m - 1 - j < num THEN free_pool_init.free[m - 1 - j]
                                           ELSE free_pool_init.busy[j]]
           Ordered == [i \in Indices(m) |->
                         IF i < m - num THEN 0 ELSE i - (m - num) + 1]
<1>1. m \in Nat \ {0} /\ num \in Nat /\ 1 <= num /\ num <= m
  BY MembersIsBuffers
<1>2. \A i \in Indices(m) : free_pool_init.free[i] = i + 1 /\ free_pool_init.busy[i] = 0
  BY DEF free_pool_init
<1>3. CanAlloc(free_pool_init, num) /\ AllocRoot(free_pool_init, num) = 1
  BY <1>1, <1>2 DEF CanAlloc, AllocRoot, Indices
<1>4. move_array(Taken) = OneArea(num).free
  <2>1. Taken = [i \in Indices(m) |-> IF i < num THEN 0 ELSE i + 1]
    BY <1>2
  <2>2. Taken \in IntArray(m)
    BY <2>1, <1>1 DEF IntArray, Indices
  <2>3. \A i \in 0 .. (num - 1) : Taken[i] = 0
    BY <2>1, <1>1 DEF Indices
  <2>4. num < m => Taken[num] # 0
    BY <2>1, <1>1 DEF Indices
  <2>5. move_array(Taken) =
          [i \in Indices(m) |-> IF i + num < m THEN Taken[i + num] ELSE 0]
    <3> HIDE DEF Taken
    <3>1. num \in 0 .. m
      BY <1>1
    <3> QED
      BY <1>1, <2>2, <2>3, <2>4, <3>1, MoveArrayResult
  <2>6. \A i \in Indices(m) : i + num < m => Taken[i + num] = i + num + 1
    BY <2>1, <1>1 DEF Indices
  <2> HIDE DEF Taken
  <2> QED
    BY <2>5, <2>6 DEF OneArea
<1>5. radix_sort(Filled) = Ordered
  <2>1. Filled = [j \in Indices(m) |-> IF m - 1 - j < num THEN m - j ELSE 0]
    BY <1>1, <1>2 DEF Indices
  <2>2. Filled \in IntArray(m) /\ Ordered \in IntArray(m)
    BY <2>1, <1>1 DEF IntArray, Indices
  <2> HIDE DEF Filled
  <2>3. ASSUME NEW v \in 1 .. (num + 1)
        PROVE  Below(Filled, v) = (m - num) + (v - 1)
    <3> DEFINE Low == 0 .. (m - num - 1)
               High == (m - v + 1) .. (m - 1)
    <3>1. {i \in DOMAIN Filled : Filled[i] < v} = Low \cup High
      BY <2>1, <1>1 DEF Indices
    <3>2. IsFiniteSet(Low) /\ IsFiniteSet(High)
      BY <1>1, FS_Interval
    <3>3. Cardinality(Low) = m - num /\ Cardinality(High) = v - 1
      <4>1. Cardinality(Low) = m - num
        BY <1>1, FS_Interval
      <4>2. m - v + 1 \in Int /\ m - 1 \in Int
        BY <1>1
      <4>3. Cardinality(High) = IF m - v + 1 > m - 1 THEN 0 ELSE (m - 1) - (m - v + 1) + 1
        BY <4>2, FS_Interval
      <4> QED
        BY <4>1, <4>3, <1>1
    <3>4. Low \cap High = {}
      BY <1>1
    <3>5. Cardinality(Low \cup High) = Cardinality(Low) + Cardinality(High)
      <4> HIDE DEF Low, High
      <4>1. Cardinality(Low \cap High) = 0
        BY <3>4, FS_EmptySet
      <4>2. Cardinality(Low \cup High) =
              Cardinality(Low) + Cardinality(High) - Cardinality(Low \cap High)
        BY <3>2, FS_Union
      <4> QED
        BY <4>1, <4>2, <3>2, FS_CardinalityType
    <3> HIDE DEF Low, High
    <3> QED
      BY <3>1, <3>3, <3>5 DEF Below
  <2>4. Below(Filled, 0) = 0
    <3>1. {i \in DOMAIN Filled : Filled[i] < 0} = {}
      BY <2>1, <1>1 DEF Indices
    <3> QED
      BY <3>1, FS_EmptySet DEF Below
  <2>5. ASSUME NEW i \in Indices(m)
        PROVE  /\ \E j \in Indices(m) : Filled[j] = Ordered[i]
               /\ Below(Filled, Ordered[i]) <= i
               /\ i < Below(Filled, Ordered[i] + 1)
    <3>1. CASE i < m - num
      <4>1. Ordered[i] = 0 /\ i \in 0 .. (m - 1)
        BY <3>1 DEF Indices
      <4>2. Filled[0] = 0 /\ 0 \in Indices(m)
        BY <2>1, <1>1, <3>1, <4>1 DEF Indices
      <4>3. Below(Filled, 1) = m - num
        BY <2>3, <1>1
      <4> HIDE DEF Ordered
      <4> QED
        BY <4>1, <4>2, <4>3, <2>4, <3>1, <1>1
    <3>2. CASE i >= m - num
      <4>1. Ordered[i] = i - (m - num) + 1 /\ i \in 0 .. (m - 1)
        BY <3>2, <1>1 DEF Indices
      <4>2. Ordered[i] \in 1 .. num
        BY <4>1, <3>2, <1>1
      <4>3. m - Ordered[i] \in Indices(m) /\ Filled[m - Ordered[i]] = Ordered[i]
        BY <2>1, <4>2, <1>1 DEF Indices
      <4>4. /\ Below(Filled, Ordered[i]) = i
            /\ Below(Filled, Ordered[i] + 1) = i + 1
        BY <2>3, <4>1, <4>2, <1>1
      <4> HIDE DEF Ordered
      <4>5. \E j \in Indices(m) : Filled[j] = Ordered[i]
        BY <4>3
      <4>6. Below(Filled, Ordered[i]) <= i /\ i < Below(Filled, Ordered[i] + 1)
        BY <4>1, <4>4
      <4> QED
        BY <4>5, <4>6
    <3> QED
      BY <3>1, <3>2, <1>1 DEF Indices
  <2> HIDE DEF Ordered
  <2> QED
    BY <2>2, <2>5, <1>1, RadixSortResult
<1>6. move_array(Ordered) = OneArea(num).busy
  <2>1. Ordered \in IntArray(m) /\ m - num \in 0 .. m
    BY <1>1 DEF IntArray, Indices
  <2>2. \A i \in 0 .. (m - num - 1) : Ordered[i] = 0
    BY <1>1 DEF Indices
  <2>3. m - num < m => Ordered[m - num] # 0
    BY <1>1 DEF Indices
  <2>4. move_array(Ordered) = [i \in Indices(m) |->
          IF i + (m - num) < m THEN Ordered[i + (m - num)] ELSE 0]
    <3> HIDE DEF Ordered
    <3> QED
      BY <1>1, <2>1, <2>2, <2>3, MoveArrayResult
  <2>5. \A i \in Indices(m) : /\ i + (m - num) < m <=> i < num
                              /\ i < num => Ordered[i + (m - num)] = i + 1
    BY <1>1 DEF Indices
  <2> HIDE DEF Ordered
  <2> QED
    BY <2>4, <2>5 DEF OneArea
<1> HIDE DEF Taken, Filled, Ordered
<1>7. shm_alloc(free_pool_init, num) =
        [free |-> move_array(Taken), busy |-> move_array(radix_sort(Filled))]
  BY <1>3 DEF shm_alloc, BusyFilled, Taken, Filled
<1> QED
  BY <1>3, <1>4, <1>5, <1>6, <1>7 DEF OneArea

(***************************************************************************)
(* Freeing that area finds its first block and restores the fresh pool.    *)
(***************************************************************************)
THEOREM DeallocRestores ==
  ASSUME NEW num \in 1 .. members
  PROVE  /\ binarySearch(OneArea(num).busy, 1) = 0
         /\ shm_dealloc(OneArea(num), num, 1) = free_pool_init
<1> DEFINE m == members
           p == OneArea(num)
           Given == [j \in Indices(m) |->
                       IF m - 1 - j \in FreedSlots(p, num, 1)
                       THEN p.busy[m - 1 - j] ELSE p.free[j]]
           Left == [i \in Indices(m) |->
                      IF i \in FreedSlots(p, num, 1) THEN 0 ELSE p.busy[i]]
           All == [i \in Indices(m) |-> i + 1]
           Zero == [i \in Indices(m) |-> 0]
<1>1. m \in Nat \ {0} /\ num \in Nat /\ 1 <= num /\ num <= m
  BY MembersIsBuffers
<1>2. /\ \A i \in Indices(m) : p.free[i] = IF i + num < m THEN i + num + 1 ELSE 0
      /\ \A i \in Indices(m) : p.busy[i] = IF i < num THEN i + 1 ELSE 0
      /\ DOMAIN p.busy = Indices(m)
  BY DEF OneArea
<1> HIDE DEF p
<1>3. binarySearch(p.busy, 1) = 0
  <2>1. \A i \in DOMAIN p.busy : p.busy[i] = 1 <=> i = 0
    BY <1>1, <1>2 DEF Indices
  <2>2. 0 \in DOMAIN p.busy /\ p.busy[0] = 1
    BY <1>1, <1>2 DEF Indices
  <2>3. \A j \in 0 .. (0 - 1) : p.busy[j] # 1
    OBVIOUS
  <2> QED
    BY <2>1, <2>2, <2>3 DEF binarySearch
<1>4. FreedSlots(p, num, 1) = 0 .. (num - 1)
  BY <1>3 DEF FreedSlots
<1>5. Given = [j \in Indices(m) |-> IF j >= m - num THEN m - j ELSE j + num + 1]
  BY <1>1, <1>2, <1>4 DEF Indices
<1>6. Left = Zero
  BY <1>1, <1>2, <1>4 DEF Indices
<1>7. radix_sort(Given) = All
  <2>1. Given \in IntArray(m) /\ All \in IntArray(m)
    BY <1>1, <1>5 DEF IntArray, Indices
  <2> HIDE DEF Given
  <2>2. ASSUME NEW v \in 1 .. (m + 1)
        PROVE  Below(Given, v) = v - 1
    <3> DEFINE At == {i \in DOMAIN Given : Given[i] < v}
               f == [u \in 1 .. (v - 1) |-> IF u <= num THEN m - u ELSE u - num - 1]
    <3>1. \A u \in 1 .. (v - 1) : f[u] \in At /\ Given[f[u]] = u
      BY <1>1, <1>5 DEF Indices
    <3>2. \A i \in At : Given[i] \in 1 .. (v - 1) /\ f[Given[i]] = i
      BY <1>1, <1>5 DEF Indices
    <3> HIDE DEF At, f
    <3>3. f \in Bijection(1 .. (v - 1), At)
      <4>1. f \in [1 .. (v - 1) -> At]
        BY <3>1 DEF f
      <4>2. f \in Injection(1 .. (v - 1), At)
        BY <3>1, <4>1 DEF Injection, IsInjective
      <4>3. f \in Surjection(1 .. (v - 1), At)
        BY <3>2, <4>1 DEF Surjection
      <4> QED
        BY <4>2, <4>3 DEF Bijection
    <3>4. ExistsBijection(1 .. (v - 1), At)
      BY <3>3 DEF ExistsBijection
    <3>5. IsFiniteSet(1 .. (v - 1)) /\ Cardinality(1 .. (v - 1)) = v - 1
      BY FS_Interval
    <3>6. Cardinality(At) = v - 1
      BY <3>4, <3>5, FS_Bijection
    <3> QED
      BY <3>6 DEF Below, At
  <2>3. ASSUME NEW i \in Indices(m)
        PROVE  /\ \E j \in Indices(m) : Given[j] = All[i]
               /\ Below(Given, All[i]) <= i
               /\ i < Below(Given, All[i] + 1)
    <3>1. All[i] = i + 1 /\ i \in 0 .. (m - 1)
      BY DEF Indices
    <3>2. \E j \in Indices(m) : Given[j] = i + 1
      <4> DEFINE j == IF i + 1 <= num THEN m - (i + 1) ELSE i - num
      <4>1. j \in Indices(m) /\ Given[j] = i + 1
        BY <1>1, <1>5, <3>1 DEF Indices
      <4> QED
        BY <4>1
    <3>3. Below(Given, i + 1) = i /\ Below(Given, i + 2) = i + 1
      BY <2>2, <3>1, <1>1
    <3> QED
      BY <3>1, <3>2, <3>3
  <2> HIDE DEF All
  <2> QED
    BY <2>1, <2>3, <1>1, RadixSortResult
<1>8. move_array(All) = All
  <2>1. All \in IntArray(m) /\ 0 \in 0 .. m /\ All[0] # 0
    BY <1>1 DEF IntArray, Indices
  <2>2. move_array(All) =
          [i \in Indices(m) |-> IF i + 0 < m THEN All[i + 0] ELSE 0]
    <3>1. \A i \in 0 .. (0 - 1) : All[i] = 0
      OBVIOUS
    <3> HIDE DEF All
    <3> QED
      BY <1>1, <2>1, <3>1, MoveArrayResult
  <2> QED
    BY <2>2, <1>1 DEF Indices
<1>9. move_array(Zero) = Zero
  <2>1. Zero \in IntArray(m) /\ m \in 0 .. m /\ \A i \in 0 .. (m - 1) : Zero[i] = 0
    BY <1>1 DEF IntArray, Indices
  <2>2. move_array(Zero) =
          [i \in Indices(m) |-> IF i + m < m THEN Zero[i + m] ELSE 0]
    <3> HIDE DEF Zero
    <3> QED
      BY <1>1, <2>1, MoveArrayResult
  <2> QED
    BY <2>2, <1>1 DEF Indices
<1> HIDE DEF Given, Left, All, Zero
<1>10. shm_dealloc(p, num, 1) =
         [free |-> move_array(radix_sort(Given)), busy |-> move_array(Left)]
  BY DEF shm_dealloc, FreeFilled, Given, Left
<1>11. free_pool_init = [free |-> All, busy |-> Zero]
  BY DEF free_pool_init, All, Zero
<1>12. shm_dealloc(p, num, 1) = free_pool_init
  BY <1>6, <1>7, <1>8, <1>9, <1>10, <1>11
<1> QED
  BY <1>3, <1>12 DEF p
=============================================================================
