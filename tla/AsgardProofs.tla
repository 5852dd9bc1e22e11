---------------------------- MODULE AsgardProofs ----------------------------
(***************************************************************************)
(* What the allocator does for a client with any number of areas, for      *)
(* every number of blocks and every size of the areas.                     *)
(***************************************************************************)
EXTENDS Asgard, ShmPoolProofs, SequenceTheorems

USE DEF NULL

\* No block is in two slots of the two pools, and the free one ascends.
WellKept(p) ==
  /\ Distinct(p.free)
  /\ Distinct(p.busy)
  /\ NonZero(p.free) \cap NonZero(p.busy) = {}
  /\ Ascending(p.free)

\* An area begins where one of its size would, were the segment cut into areas
\* of that size.
Aligned(a) == \E u \in Nat : a.root = u * a.num + 1

\* What the client with areas of one size has, as long as it frees the lowest.
OrderlyInv ==
  orderly =>
    /\ \A j, k \in DOMAIN held : held[j].num = held[k].num
    /\ \A k \in DOMAIN held : Aligned(held[k])
    /\ \A j, k \in DOMAIN held : j # k => Span(held[j]) \cap Span(held[k]) = {}
    /\ NonZero(pool.busy) = HeldBlocks
    /\ NonZero(pool.free) = Blocks \ HeldBlocks
    /\ Ascending(pool.busy)

AInv ==
  /\ TypeOK
  /\ WellKept(pool)
  /\ OrderlyInv
-----------------------------------------------------------------------------
LEMMA PoolArrays ==
  ASSUME NEW p \in Pools
  PROVE  /\ members \in Nat \ {0}
         /\ Indices(members) = 0 .. (members - 1)
         /\ p.free \in NatArray(members, members)
         /\ p.busy \in NatArray(members, members)
         /\ DOMAIN p.free = 0 .. (members - 1)
         /\ DOMAIN p.busy = 0 .. (members - 1)
         /\ \A i \in 0 .. (members - 1) : p.free[i] \in 0 .. members /\ p.busy[i] \in 0 .. members
BY MembersIsBuffers DEF Pools, PoolArray, NatArray, Indices

(***************************************************************************)
(* What shm_alloc and shm_dealloc have in common: the blocks in the slots  *)
(* S of one pool are written to the end of the other, over what is there,  *)
(* and their slots get zeros.                                              *)
(***************************************************************************)
ValuesAt(f, S) == {f[i] : i \in S}
Cleared(f, S) == [i \in DOMAIN f |-> IF i \in S THEN 0 ELSE f[i]]
Filled(n, f, S, g) ==
  [j \in Indices(n) |-> IF n - 1 - j \in S THEN f[n - 1 - j] ELSE g[j]]

LEMMA MovedBlocks ==
  ASSUME NEW n \in Nat, NEW f \in NatArray(n, n), NEW g \in NatArray(n, n),
         Distinct(f), Distinct(g), NonZero(f) \cap NonZero(g) = {},
         NEW S, S \subseteq Indices(n)
  PROVE  /\ Cleared(f, S) \in NatArray(n, n) /\ Distinct(Cleared(f, S))
         /\ Filled(n, f, S, g) \in NatArray(n, n) /\ Distinct(Filled(n, f, S, g))
         /\ NonZero(Cleared(f, S)) = NonZero(f) \ ValuesAt(f, S)
         /\ NonZero(Filled(n, f, S, g)) \subseteq NonZero(g) \cup ValuesAt(f, S)
         /\ NonZero(Cleared(f, S)) \cap NonZero(Filled(n, f, S, g)) = {}
<1> DEFINE C == Cleared(f, S)
           F == Filled(n, f, S, g)
<1>1. /\ Indices(n) = 0 .. (n - 1) /\ DOMAIN f = 0 .. (n - 1) /\ DOMAIN g = 0 .. (n - 1)
      /\ \A i \in 0 .. (n - 1) : f[i] \in 0 .. n /\ g[i] \in 0 .. n
      /\ S \subseteq 0 .. (n - 1)
  BY DEF NatArray, Indices
<1>2. /\ C \in NatArray(n, n) /\ DOMAIN C = 0 .. (n - 1)
      /\ \A i \in 0 .. (n - 1) : C[i] = IF i \in S THEN 0 ELSE f[i]
  BY <1>1 DEF NatArray, Cleared
<1>3. /\ F \in NatArray(n, n) /\ DOMAIN F = 0 .. (n - 1)
      /\ \A j \in 0 .. (n - 1) : F[j] = IF n - 1 - j \in S THEN f[n - 1 - j] ELSE g[j]
  BY <1>1 DEF NatArray, Filled
<1>4. /\ \A i, j \in 0 .. (n - 1) : i # j /\ f[i] = f[j] => f[i] = 0
      /\ \A i, j \in 0 .. (n - 1) : i # j /\ g[i] = g[j] => g[i] = 0
      /\ \A i, j \in 0 .. (n - 1) : f[i] = g[j] => f[i] = 0
  <2>1. \A i, j \in 0 .. (n - 1) : f[i] = g[j] => f[i] = 0
    BY <1>1 DEF NonZero
  <2> QED
    BY <1>1, <2>1 DEF Distinct
<1> HIDE DEF C, F
<1>5. Distinct(C)
  BY <1>2, <1>4 DEF Distinct
<1>6. Distinct(F)
  <2> SUFFICES ASSUME NEW i \in 0 .. (n - 1), NEW j \in 0 .. (n - 1), i # j, F[i] = F[j]
               PROVE  F[i] = 0
    BY <1>3 DEF Distinct
  <2>1. n - 1 - i \in 0 .. (n - 1) /\ n - 1 - j \in 0 .. (n - 1) /\ n - 1 - i # n - 1 - j
    OBVIOUS
  <2>2. CASE n - 1 - i \in S /\ n - 1 - j \in S
    BY <1>3, <1>4, <2>1, <2>2
  <2>3. CASE n - 1 - i \in S /\ n - 1 - j \notin S
    BY <1>3, <1>4, <2>1, <2>3
  <2>4. CASE n - 1 - i \notin S /\ n - 1 - j \in S
    BY <1>3, <1>4, <2>1, <2>4
  <2>5. CASE n - 1 - i \notin S /\ n - 1 - j \notin S
    BY <1>3, <1>4, <2>5
  <2> QED
    BY <2>2, <2>3, <2>4, <2>5
<1>7. NonZero(C) = NonZero(f) \ ValuesAt(f, S)
  <2>1. \A v : v \in NonZero(C) <=> \E i \in 0 .. (n - 1) : i \notin S /\ v = f[i] /\ v # 0
    <3>1. \A v : v \in NonZero(C) <=> \E i \in 0 .. (n - 1) : v = C[i] /\ v # 0
      BY <1>2 DEF NonZero
    <3>2. \A i \in 0 .. (n - 1) : \A v : v = C[i] /\ v # 0 <=> i \notin S /\ v = f[i] /\ v # 0
      BY <1>2
    <3> QED
      BY <3>1, <3>2, Zenon
  <2>2. \A v : v \in NonZero(f) <=> \E i \in 0 .. (n - 1) : v = f[i] /\ v # 0
    BY <1>1 DEF NonZero
  <2>3. /\ \A i \in 0 .. (n - 1), j \in S : f[i] = f[j] /\ f[i] # 0 => i = j
        /\ \A v : v \in ValuesAt(f, S) <=> \E i \in S : v = f[i]
    BY <1>1, <1>4 DEF ValuesAt
  <2>4. \A v : v \in NonZero(C) <=> v \in NonZero(f) /\ v \notin ValuesAt(f, S)
    BY <1>1, <2>1, <2>2, <2>3
  <2> QED
    BY <2>4
<1>8. NonZero(F) \subseteq NonZero(g) \cup ValuesAt(f, S)
  <2> SUFFICES ASSUME NEW j \in 0 .. (n - 1), F[j] # 0
               PROVE  \/ \E i \in 0 .. (n - 1) : g[i] = F[j]
                      \/ \E i \in S : f[i] = F[j]
    BY <1>1, <1>3 DEF NonZero, ValuesAt
  <2> QED
    BY <1>3
<1>9. NonZero(C) \cap NonZero(F) = {}
  BY <1>7, <1>8
<1> QED
  BY <1>2, <1>3, <1>5, <1>6, <1>7, <1>8, <1>9 DEF C, F

\* From the front of an ascending pool the blocks go to the end of another that
\* ascends: nothing is lost there, and what stays keeps ascending.
LEMMA MovedInOrder ==
  ASSUME NEW n \in Nat, NEW f \in NatArray(n, n), NEW g \in NatArray(n, n),
         Distinct(f), Distinct(g), NonZero(f) \cap NonZero(g) = {},
         NEW num \in 0 .. n, NEW S, S = 0 .. (num - 1), \A x \in S : f[x] # 0
  PROVE  /\ Ascending(f) => Ascending(move_array(Cleared(f, S)))
         /\ Ascending(g) => NonZero(Filled(n, f, S, g)) = NonZero(g) \cup ValuesAt(f, S)
<1> DEFINE C == Cleared(f, S)
           F == Filled(n, f, S, g)
<1>1. /\ Indices(n) = 0 .. (n - 1) /\ DOMAIN f = 0 .. (n - 1) /\ DOMAIN g = 0 .. (n - 1)
      /\ \A i \in 0 .. (n - 1) : f[i] \in 0 .. n /\ g[i] \in 0 .. n
      /\ S \subseteq 0 .. (n - 1)
  BY DEF NatArray, Indices
<1>2. /\ C \in NatArray(n, n)
      /\ \A i \in 0 .. (n - 1) : C[i] = IF i \in S THEN 0 ELSE f[i]
  BY <1>1 DEF NatArray, Cleared
<1>3. /\ DOMAIN F = 0 .. (n - 1)
      /\ \A j \in 0 .. (n - 1) : F[j] = IF n - 1 - j \in S THEN f[n - 1 - j] ELSE g[j]
  BY <1>1 DEF Filled
<1>4. NonZero(F) \subseteq NonZero(g) \cup ValuesAt(f, S)
  BY <1>1, MovedBlocks
<1> HIDE DEF C, F
<1>5. ASSUME Ascending(f)
      PROVE  Ascending(move_array(C))
  <2>1. \A i \in 0 .. (num - 1) : C[i] = 0
    BY <1>1, <1>2
  <2>2. ASSUME NEW i \in num .. (n - 1)
        PROVE  i \in 0 .. (n - 1) /\ C[i] = f[i] /\ f[i] \in Nat
    <3>1. i \in 0 .. (n - 1) /\ i \notin S
      OBVIOUS
    <3> QED
      BY <1>1, <1>2, <3>1
  <2>3. \A i, j \in 0 .. (n - 1) : i < j /\ f[j] # 0 => f[i] \in 1 .. (f[j] - 1)
    BY <1>1, <1>5 DEF Ascending
  <2>4. /\ \A i, j \in num .. (n - 1) : i < j /\ C[i] # 0 /\ C[j] # 0 => C[i] < C[j]
        /\ \A i, j \in num .. (n - 1) : i < j /\ C[j] # 0 /\ C[i] = 0 =>
             \A x \in 0 .. i : C[x] = 0
    BY <2>2, <2>3
  <2> QED
    BY <1>2, <2>1, <2>4, MoveArrayAscends
<1>6. ASSUME Ascending(g)
      PROVE  NonZero(g) \cup ValuesAt(f, S) \subseteq NonZero(F)
  <2>1. ASSUME NEW i \in S
        PROVE  f[i] \in NonZero(F)
    <3>1. n - 1 - i \in 0 .. (n - 1) /\ n - 1 - (n - 1 - i) = i
      BY <1>1
    <3>2. F[n - 1 - i] = f[i] /\ f[i] # 0
      BY <1>3, <3>1
    <3> QED
      BY <1>3, <3>1, <3>2 DEF NonZero
  <2>2. ASSUME NEW j \in 0 .. (n - 1), g[j] # 0
        PROVE  g[j] \in NonZero(F)
    <3>1. ~ (n - num <= j)
      <4>1. j \in Indices(n) /\ \A x \in 0 .. (num - 1) : f[x] # 0
        BY <1>1
      <4> QED
        BY <1>6, <2>2, <4>1, RoomAtEnd
    <3>2. n - 1 - j \notin S
      BY <3>1
    <3> QED
      BY <1>3, <2>2, <3>2 DEF NonZero
  <2> QED
    BY <1>1, <2>1, <2>2 DEF NonZero, ValuesAt
<1> QED
  BY <1>4, <1>5, <1>6 DEF C, F

(***************************************************************************)
(* shm_alloc takes the blocks in the first slots out of the free pool and  *)
(* lists them in the busy one.  Were the busy pool in no order, the blocks *)
(* in its last slots would be lost.                                        *)
(***************************************************************************)
LEMMA AllocPools ==
  ASSUME NEW p \in Pools, WellKept(p), NEW num \in 1 .. members, CanAlloc(p, num)
  PROVE  /\ shm_alloc(p, num) \in Pools
         /\ WellKept(shm_alloc(p, num))
         /\ Ascending(shm_alloc(p, num).busy)
         /\ AllocRoot(p, num) = p.free[0] /\ p.free[0] \in Blocks
         /\ NonZero(shm_alloc(p, num).free) = NonZero(p.free) \ AllocTaken(p, num)
         /\ Ascending(p.busy) =>
              NonZero(shm_alloc(p, num).busy) = NonZero(p.busy) \cup AllocTaken(p, num)
<1> DEFINE m == members
           S == 0 .. (num - 1)
           C == Cleared(p.free, S)
           F == Filled(m, p.free, S, p.busy)
           q == shm_alloc(p, num)
<1>1. /\ m \in Nat \ {0} /\ Indices(m) = 0 .. (m - 1)
      /\ p.free \in NatArray(m, m) /\ p.busy \in NatArray(m, m)
      /\ DOMAIN p.free = 0 .. (m - 1)
      /\ \A i \in 0 .. (m - 1) : p.free[i] \in 0 .. m
  BY PoolArrays
<1>2. num \in 0 .. m /\ S \subseteq Indices(m) /\ 0 \in S /\ \A i \in S : p.free[i] # 0
  BY <1>1 DEF CanAlloc
<1>3. /\ Distinct(p.free) /\ Distinct(p.busy) /\ Ascending(p.free)
      /\ NonZero(p.free) \cap NonZero(p.busy) = {}
  BY DEF WellKept
<1>4. AllocTaken(p, num) = ValuesAt(p.free, S)
  BY DEF AllocTaken, ValuesAt
<1>5. AllocRoot(p, num) = p.free[0] /\ p.free[0] \in Blocks
  BY <1>1, <1>2 DEF AllocRoot, Blocks
<1>6. q = [free |-> move_array(C), busy |-> move_array(radix_sort(F))]
  <2>1. [i \in Indices(m) |-> IF i < num THEN 0 ELSE p.free[i]] = C
    BY <1>1, <1>2 DEF Cleared
  <2>2. BusyFilled(p, num) = F
    <3>1. \A j \in Indices(m) : m - 1 - j < num <=> m - 1 - j \in S
      BY <1>1, <1>2
    <3> QED
      BY <3>1 DEF BusyFilled, Filled
  <2> HIDE DEF C, F
  <2> QED
    BY <2>1, <2>2 DEF shm_alloc
<1> HIDE DEF C, F, S, q, m
<1>7. /\ C \in NatArray(m, m) /\ Distinct(C)
      /\ F \in NatArray(m, m) /\ Distinct(F)
      /\ NonZero(C) = NonZero(p.free) \ ValuesAt(p.free, S)
      /\ NonZero(C) \cap NonZero(F) = {}
  BY <1>1, <1>2, <1>3, MovedBlocks DEF C, F
<1>8. /\ Ascending(move_array(C))
      /\ Ascending(p.busy) => NonZero(F) = NonZero(p.busy) \cup ValuesAt(p.free, S)
  <2>1. S = 0 .. (num - 1) /\ m \in Nat
    BY <1>1 DEF S
  <2>2. /\ Ascending(p.free) => Ascending(move_array(Cleared(p.free, S)))
        /\ Ascending(p.busy) =>
             NonZero(Filled(m, p.free, S, p.busy)) = NonZero(p.busy) \cup ValuesAt(p.free, S)
    <3>1. /\ m \in Nat /\ p.free \in NatArray(m, m) /\ p.busy \in NatArray(m, m)
          /\ Distinct(p.free) /\ Distinct(p.busy) /\ NonZero(p.free) \cap NonZero(p.busy) = {}
          /\ num \in 0 .. m /\ S = 0 .. (num - 1)
      BY <1>1, <1>2, <1>3, <2>1
    <3>2. \A x \in S : p.free[x] # 0
      BY <1>2
    <3> QED
      BY <3>1, <3>2, MovedInOrder
  <2> QED
    BY <1>3, <2>2 DEF C, F
<1>9. /\ move_array(C) \in NatArray(m, m) /\ Distinct(move_array(C))
      /\ NonZero(move_array(C)) = NonZero(C)
  BY <1>1, <1>7, MoveArrayKeeps
<1>10. /\ move_array(radix_sort(F)) \in NatArray(m, m)
       /\ NonZero(move_array(radix_sort(F))) = NonZero(F)
       /\ Distinct(move_array(radix_sort(F)))
       /\ Ascending(move_array(radix_sort(F)))
  BY <1>1, <1>7, TidyResult
<1>11. q.free = move_array(C) /\ q.busy = move_array(radix_sort(F))
  BY <1>6
<1>12. q \in Pools
  BY <1>6, <1>9, <1>10 DEF Pools, PoolArray, NatArray, m
<1>13. WellKept(q)
  BY <1>7, <1>8, <1>9, <1>10, <1>11 DEF WellKept
<1> QED
  BY <1>4, <1>5, <1>7, <1>8, <1>9, <1>10, <1>11, <1>12, <1>13 DEF q

(***************************************************************************)
(* shm_dealloc puts the blocks in the busy slots it frees back into the    *)
(* free pool.  When they are the first num slots, it puts back all of the  *)
(* area's blocks and loses none of the free ones.                          *)
(***************************************************************************)
LEMMA DeallocPools ==
  ASSUME NEW p \in Pools, WellKept(p), NEW num \in 1 .. members, NEW mem,
         binarySearch(p.busy, mem) # -1
  PROVE  /\ shm_dealloc(p, num, mem) \in Pools
         /\ WellKept(shm_dealloc(p, num, mem))
         /\ /\ binarySearch(p.busy, mem) = 0
            /\ Ascending(p.busy)
            /\ \A i \in 0 .. (num - 1) : p.busy[i] # 0
            => /\ Ascending(shm_dealloc(p, num, mem).busy)
               /\ NonZero(shm_dealloc(p, num, mem).busy) =
                    NonZero(p.busy) \ ValuesAt(p.busy, 0 .. (num - 1))
               /\ NonZero(shm_dealloc(p, num, mem).free) =
                    NonZero(p.free) \cup ValuesAt(p.busy, 0 .. (num - 1))
<1> DEFINE m == members
           S == FreedSlots(p, num, mem)
           C == Cleared(p.busy, S)
           F == Filled(m, p.busy, S, p.free)
           q == shm_dealloc(p, num, mem)
<1>1. /\ m \in Nat \ {0} /\ Indices(m) = 0 .. (m - 1)
      /\ p.free \in NatArray(m, m) /\ p.busy \in NatArray(m, m)
      /\ DOMAIN p.busy = Indices(m)
  BY PoolArrays
<1>2. S \subseteq Indices(m) /\ num \in 0 .. m
  <2>1. binarySearch(p.busy, mem) \in Indices(m)
    BY <1>1, BinarySearchFinds
  <2> QED
    BY <1>1, <2>1 DEF FreedSlots
<1>3. /\ Distinct(p.free) /\ Distinct(p.busy) /\ Ascending(p.free)
      /\ NonZero(p.busy) \cap NonZero(p.free) = {}
  BY DEF WellKept
<1>4. q = [free |-> move_array(radix_sort(F)), busy |-> move_array(C)]
  <2>1. [i \in Indices(m) |-> IF i \in S THEN 0 ELSE p.busy[i]] = C
    BY <1>1 DEF Cleared
  <2>2. FreeFilled(p, num, mem) = F
    BY DEF FreeFilled, Filled
  <2> HIDE DEF C, F
  <2> QED
    BY <2>1, <2>2 DEF shm_dealloc
<1> HIDE DEF C, F, S, q, m
<1>5. /\ C \in NatArray(m, m) /\ Distinct(C)
      /\ F \in NatArray(m, m) /\ Distinct(F)
      /\ NonZero(C) = NonZero(p.busy) \ ValuesAt(p.busy, S)
      /\ NonZero(C) \cap NonZero(F) = {}
  BY <1>1, <1>2, <1>3, MovedBlocks DEF C, F
<1>6. /\ move_array(C) \in NatArray(m, m) /\ Distinct(move_array(C))
      /\ NonZero(move_array(C)) = NonZero(C)
  BY <1>1, <1>5, MoveArrayKeeps
<1>7. /\ move_array(radix_sort(F)) \in NatArray(m, m)
      /\ NonZero(move_array(radix_sort(F))) = NonZero(F)
      /\ Distinct(move_array(radix_sort(F)))
      /\ Ascending(move_array(radix_sort(F)))
  BY <1>1, <1>5, TidyResult
<1>8. q.free = move_array(radix_sort(F)) /\ q.busy = move_array(C)
  BY <1>4
<1>9. q \in Pools
  BY <1>4, <1>6, <1>7 DEF Pools, PoolArray, NatArray, m
<1>10. WellKept(q)
  BY <1>5, <1>6, <1>7, <1>8 DEF WellKept
<1>11. ASSUME binarySearch(p.busy, mem) = 0, Ascending(p.busy),
              \A i \in 0 .. (num - 1) : p.busy[i] # 0
       PROVE  /\ Ascending(q.busy)
              /\ NonZero(q.busy) = NonZero(p.busy) \ ValuesAt(p.busy, 0 .. (num - 1))
              /\ NonZero(q.free) = NonZero(p.free) \cup ValuesAt(p.busy, 0 .. (num - 1))
  <2>1. S = 0 .. (num - 1)
    BY <1>11 DEF S, FreedSlots
  <2>2. /\ Ascending(move_array(C))
        /\ NonZero(F) = NonZero(p.free) \cup ValuesAt(p.busy, S)
    <3>1. m \in Nat /\ \A i \in S : p.busy[i] # 0
      BY <1>1, <1>11, <2>1
    <3>2. /\ Ascending(p.busy) => Ascending(move_array(Cleared(p.busy, S)))
          /\ Ascending(p.free) =>
               NonZero(Filled(m, p.busy, S, p.free)) = NonZero(p.free) \cup ValuesAt(p.busy, S)
      BY <1>1, <1>2, <1>3, <2>1, <3>1, MovedInOrder
    <3> QED
      BY <1>3, <1>11, <3>2 DEF C, F
  <2> QED
    BY <1>5, <1>6, <1>7, <1>8, <2>1, <2>2
<1> QED
  BY <1>9, <1>10, <1>11 DEF q
-----------------------------------------------------------------------------
\* The areas a client can hold.
LEMMA AreaFacts ==
  ASSUME NEW a \in Area
  PROVE  /\ a.root \in Blocks /\ a.num \in Requests /\ a.num \in 1 .. members
         /\ \A b : b \in Span(a) <=> b \in Int /\ a.root <= b /\ b < a.root + a.num
<1>1. members \in Nat /\ Requests \subseteq 1 .. members
  BY ClientAssumption, MembersIsBuffers
<1>2. a.root \in Blocks /\ a.num \in Requests
  BY DEF Area
<1>3. a.root \in Int /\ a.num \in Int /\ a.num \in 1 .. members
  <2>1. a.num \in 1 .. members
    BY <1>1, <1>2
  <2> QED
    BY <1>2, <2>1 DEF Blocks
<1>4. \A b : b \in Span(a) <=> b \in Int /\ a.root <= b /\ b < a.root + a.num
  BY <1>3 DEF Span
<1> QED
  BY <1>2, <1>3, <1>4

LEMMA HeldIn ==
  \A b : b \in HeldBlocks <=> \E k \in DOMAIN held : b \in Span(held[k])
BY DEF HeldBlocks

\* Two multiples of n that are less than n apart are the same.
LEMMA AlignedApart ==
  ASSUME NEW n \in Nat \ {0}, NEW u \in Nat, NEW w \in Nat,
         u * n < w * n + n, w * n < u * n + n
  PROVE  u = w
<1>1. ASSUME NEW x \in Nat, NEW y \in Nat, x < y
      PROVE  x * n + n <= y * n
  <2> DEFINE d == y - x - 1
  <2>1. d \in Nat /\ y = x + 1 + d
    BY <1>1
  <2>2. y * n = x * n + n + d * n /\ d * n \in Nat
    <3> HIDE DEF d
    <3> QED
      BY <2>1
  <2>3. x * n \in Nat
    OBVIOUS
  <2> HIDE DEF d
  <2> QED
    BY <2>2, <2>3
<1>2. u * n \in Nat /\ w * n \in Nat
  OBVIOUS
<1>3. ~ (u < w) /\ ~ (w < u)
  BY <1>1, <1>2
<1> QED
  BY <1>3

(***************************************************************************)
(* An area out of aligned ones of its size: it begins where the ones       *)
(* before it end, so it is whole, aligned and apart from them.             *)
(***************************************************************************)
LEMMA NewArea ==
  ASSUME TypeOK, WellKept(pool), OrderlyInv, orderly, NEW num \in Requests,
         CanAlloc(pool, num), \A k \in DOMAIN held : held[k].num = num,
         NEW a, a = [root |-> pool.free[0], num |-> num]
  PROVE  /\ Aligned(a)
         /\ \A k \in DOMAIN held : Span(a) \cap Span(held[k]) = {}
         /\ AllocTaken(pool, num) = Span(a)
<1> DEFINE m == members
           f == pool.free
<1>1. /\ m \in Nat \ {0} /\ Indices(m) = 0 .. (m - 1) /\ f \in NatArray(m, m)
      /\ DOMAIN f = 0 .. (m - 1) /\ \A i \in 0 .. (m - 1) : f[i] \in 0 .. m
  BY PoolArrays DEF TypeOK
<1>2. num \in 1 .. m /\ Blocks = 1 .. m
  BY ClientAssumption DEF Blocks
<1>3. /\ Ascending(f) /\ NonZero(f) = Blocks \ HeldBlocks
      /\ \A k \in DOMAIN held : held[k] \in Area /\ Aligned(held[k])
  BY DEF WellKept, OrderlyInv, TypeOK
<1>4. \A i \in 0 .. (num - 1) : i \in 0 .. (m - 1) /\ f[i] # 0
  BY <1>1, <1>2 DEF CanAlloc
<1>5. f[0] # 0 /\ f[0] \in 1 .. m /\ f[0] + (num - 1) <= m
  <2>1. 0 \in 0 .. (num - 1) /\ num - 1 \in 0 .. (num - 1)
    BY <1>2
  <2>2. f[0] + (num - 1) <= f[num - 1]
    BY <1>1, <1>3, <1>4, <2>1, AscendingFrom
  <2> QED
    BY <1>1, <1>4, <2>1, <2>2
<1>6. a \in Area /\ a.root = f[0] /\ a.num = num
  BY <1>2, <1>5 DEF Area
<1> HIDE DEF f, m
<1>7. f[0] \notin HeldBlocks
  <2>1. f[0] \in NonZero(f)
    BY <1>1, <1>5 DEF NonZero
  <2> QED
    BY <1>3, <2>1
<1>8. Aligned(a)
  <2>1. CASE f[0] = 1
    <3>1. 0 * num + 1 = 1 /\ 0 \in Nat
      BY <1>2
    <3> QED
      BY <1>6, <2>1, <3>1 DEF Aligned
  <2>2. CASE f[0] # 1
    <3>1. f[0] - 1 \notin NonZero(f)
      <4> SUFFICES ASSUME NEW i \in 0 .. (m - 1), f[i] # 0, f[i] = f[0] - 1
                   PROVE  FALSE
        BY <1>1 DEF NonZero
      <4>1. f[0] + i <= f[i]
        BY <1>1, <1>3, AscendingFrom
      <4> QED
        BY <1>1, <1>5, <4>1
    <3>2. f[0] - 1 \in Blocks
      BY <1>1, <1>2, <1>5, <2>2
    <3>3. PICK k \in DOMAIN held : f[0] - 1 \in Span(held[k])
      BY <1>3, <3>1, <3>2, HeldIn
    <3>4. f[0] \notin Span(held[k])
      BY <1>7, HeldIn
    <3>5. held[k].num = num /\ held[k].root \in Blocks /\ f[0] = held[k].root + num
      <4>1. /\ held[k].num = num /\ held[k].root \in Blocks
            /\ \A b : b \in Span(held[k]) <=> b \in Int /\ held[k].root <= b /\ b < held[k].root + held[k].num
        BY <1>3, AreaFacts
      <4> QED
        BY <1>2, <1>5, <3>3, <3>4, <4>1
    <3>6. PICK u \in Nat : held[k].root = u * held[k].num + 1
      BY <1>3 DEF Aligned
    <3>7. f[0] = (u + 1) * num + 1 /\ u + 1 \in Nat
      <4>1. (u + 1) * num = u * num + num /\ u * num \in Nat
        BY <1>2
      <4> QED
        BY <1>2, <3>5, <3>6, <4>1
    <3> QED
      BY <1>6, <3>7 DEF Aligned
  <2> QED
    BY <2>1, <2>2
<1>9. ASSUME NEW k \in DOMAIN held, NEW b \in Span(a), b \in Span(held[k])
      PROVE  FALSE
  <2>1. PICK u \in Nat : a.root = u * a.num + 1
    BY <1>8 DEF Aligned
  <2>2. PICK w \in Nat : held[k].root = w * held[k].num + 1
    BY <1>3 DEF Aligned
  <2>3. /\ held[k].num = num /\ a.num = num /\ num \in Nat \ {0}
        /\ b \in Int /\ a.root <= b /\ b < a.root + num
        /\ held[k].root <= b /\ b < held[k].root + num
    <3>1. b \in Int /\ a.root <= b /\ b < a.root + a.num
      BY <1>6, <1>9, AreaFacts
    <3>2. held[k].root <= b /\ b < held[k].root + held[k].num
      BY <1>3, <1>9, AreaFacts
    <3> QED
      BY <1>1, <1>2, <1>6, <3>1, <3>2
  <2>4. u * num \in Nat /\ w * num \in Nat
    BY <2>3
  <2>5. u * num < w * num + num /\ w * num < u * num + num
    BY <2>1, <2>2, <2>3, <2>4
  <2>6. u = w
    BY <2>3, <2>5, AlignedApart
  <2>7. f[0] \in Span(held[k])
    <3>1. held[k].root = f[0]
      BY <1>6, <2>1, <2>2, <2>3, <2>6
    <3>2. held[k].root \in Span(held[k])
      BY <1>3, AreaFacts DEF Blocks
    <3> QED
      BY <3>1, <3>2
  <2> QED
    BY <1>7, <2>7, HeldIn
<1>10. \A b : b \in Span(a) <=> b \in Int /\ f[0] <= b /\ b < f[0] + num
  BY <1>6, AreaFacts
<1>11. Span(a) \subseteq NonZero(f)
  <2>1. \A b \in Span(a) : b \in Blocks
    BY <1>1, <1>2, <1>5, <1>10
  <2>2. \A b \in Span(a) : b \notin HeldBlocks
    BY <1>9, HeldIn
  <2> QED
    BY <1>3, <2>1, <2>2
<1>12. \A i \in 0 .. (num - 1) : f[i] = f[0] + i
  <2>1. \A i \in 0 .. (num - 1) : f[0] + i \in Span(a)
    BY <1>2, <1>5, <1>10
  <2>2. \A i \in 0 .. (num - 1) : f[0] + i \in NonZero(f)
    BY <1>11, <2>1
  <2> QED
    BY <1>1, <1>2, <1>3, <1>5, <2>2, AscendingRun
<1>13. AllocTaken(pool, num) = Span(a)
  <2>1. \A b : b \in AllocTaken(pool, num) <=> \E i \in 0 .. (num - 1) : b = f[0] + i
    BY <1>12 DEF AllocTaken, f
  <2>2. ASSUME NEW b \in Span(a)
        PROVE  b \in AllocTaken(pool, num)
    <3>1. b - f[0] \in 0 .. (num - 1) /\ b = f[0] + (b - f[0])
      BY <1>2, <1>5, <1>10
    <3> QED
      BY <2>1, <3>1
  <2>3. ASSUME NEW b \in AllocTaken(pool, num)
        PROVE  b \in Span(a)
    BY <1>2, <1>5, <1>10, <2>1
  <2> QED
    BY <2>2, <2>3
<1> QED
  BY <1>8, <1>9, <1>13

(***************************************************************************)
(* The lowest area of those held: its blocks are the first of the busy     *)
(* pool, which is where shm_dealloc looks for them.                        *)
(***************************************************************************)
LEMMA LowestArea ==
  ASSUME TypeOK, WellKept(pool), OrderlyInv, orderly, NEW k \in DOMAIN held,
         binarySearch(pool.busy, held[k].root) # -1,
         \A j \in DOMAIN held : held[k].root <= held[j].root
  PROVE  /\ binarySearch(pool.busy, held[k].root) = 0
         /\ \A i \in 0 .. (held[k].num - 1) : pool.busy[i] # 0
         /\ ValuesAt(pool.busy, 0 .. (held[k].num - 1)) = Span(held[k])
<1> DEFINE m == members
           f == pool.busy
           r == held[k].root
           num == held[k].num
<1>1. /\ m \in Nat \ {0} /\ Indices(m) = 0 .. (m - 1) /\ f \in NatArray(m, m)
      /\ DOMAIN f = 0 .. (m - 1) /\ \A i \in 0 .. (m - 1) : f[i] \in 0 .. m
  BY PoolArrays DEF TypeOK
<1>2. /\ Ascending(f) /\ NonZero(f) = HeldBlocks
      /\ \A j \in DOMAIN held : held[j] \in Area
  BY DEF OrderlyInv, TypeOK
<1>3. /\ r \in 1 .. m /\ num \in 1 .. m
      /\ \A b : b \in Span(held[k]) <=> b \in Int /\ r <= b /\ b < r + num
  BY <1>2, AreaFacts DEF Blocks
<1>4. Span(held[k]) \subseteq NonZero(f)
  BY <1>2, HeldIn
<1> HIDE DEF m, f, r, num
<1>5. f[0] # 0 /\ f[0] = r
  <2>1. r \in Span(held[k])
    BY <1>3
  <2>2. PICK i \in 0 .. (m - 1) : f[i] = r
    BY <1>1, <1>4, <2>1 DEF NonZero
  <2>3. f[0] # 0 /\ f[0] + i <= r
    BY <1>1, <1>2, <1>3, <2>2, AscendingFrom
  <2>4. f[0] \in HeldBlocks
    BY <1>1, <1>2, <2>3 DEF NonZero
  <2>5. PICK j \in DOMAIN held : f[0] \in Span(held[j])
    BY <2>4, HeldIn
  <2>6. held[j].root <= f[0] /\ r <= held[j].root /\ held[j].root \in 1 .. m
    BY <1>2, <2>5, AreaFacts DEF r, m, Blocks
  <2> QED
    BY <1>1, <1>3, <2>2, <2>3, <2>6
<1>6. \A i \in 0 .. (num - 1) : f[i] = r + i
  <2>1. \A i \in 0 .. (num - 1) : f[0] + i \in NonZero(f)
    <3>1. \A i \in 0 .. (num - 1) : r + i \in Span(held[k])
      BY <1>3
    <3> QED
      BY <1>4, <1>5, <3>1
  <2> QED
    BY <1>1, <1>2, <1>3, <1>5, <2>1, AscendingRun
<1>7. binarySearch(f, r) = 0
  <2> DEFINE x == binarySearch(f, r)
  <2>1. x # -1 /\ DOMAIN f = Indices(m)
    BY <1>1 DEF f, r
  <2>2. x \in 0 .. (m - 1) /\ \A j \in 0 .. (x - 1) : f[j] # r
    BY <1>1, <2>1, BinarySearchFinds
  <2> HIDE DEF x
  <2>3. x = 0
    BY <1>1, <1>5, <2>2
  <2> QED
    BY <2>3 DEF x
<1>8. ValuesAt(f, 0 .. (num - 1)) = Span(held[k])
  <2>1. \A b : b \in ValuesAt(f, 0 .. (num - 1)) <=> \E i \in 0 .. (num - 1) : b = r + i
    BY <1>6 DEF ValuesAt
  <2>2. ASSUME NEW b \in Span(held[k])
        PROVE  b \in ValuesAt(f, 0 .. (num - 1))
    <3>1. b - r \in 0 .. (num - 1) /\ b = r + (b - r)
      BY <1>3
    <3> QED
      BY <2>1, <3>1
  <2>3. ASSUME NEW b \in ValuesAt(f, 0 .. (num - 1))
        PROVE  b \in Span(held[k])
    BY <1>3, <2>1
  <2> QED
    BY <2>2, <2>3
<1> QED
  BY <1>3, <1>5, <1>6, <1>7, <1>8 DEF f, r, num

\* Where the elements of a sequence go when one is removed.
LEMMA RemoveAtResult ==
  ASSUME NEW A, NEW s \in Seq(A), NEW k \in DOMAIN s
  PROVE  /\ RemoveAt(s, k) \in Seq(A)
         /\ DOMAIN RemoveAt(s, k) = 1 .. (Len(s) - 1)
         /\ \A i \in 1 .. (Len(s) - 1) :
              RemoveAt(s, k)[i] = IF i < k THEN s[i] ELSE s[i + 1]
<1> DEFINE x == SubSeq(s, 1, k - 1)
           y == SubSeq(s, k + 1, Len(s))
<1>1. Len(s) \in Nat /\ k \in 1 .. Len(s) /\ DOMAIN s = 1 .. Len(s)
  OBVIOUS
<1>2. x \in Seq(A) /\ Len(x) = k - 1 /\ \A i \in 1 .. (k - 1) : x[i] = s[i]
  <2>1. \A i \in 1 .. (k - 1) : s[i] \in A
    BY <1>1
  <2>2. 1 \in Int /\ k - 1 \in Int
    BY <1>1
  <2>3. /\ x \in Seq(A) /\ Len(x) = IF 1 <= k - 1 THEN k - 1 - 1 + 1 ELSE 0
        /\ \A i \in 1 .. (k - 1 - 1 + 1) : x[i] = s[1 + i - 1]
    BY <2>1, <2>2, SubSeqProperties
  <2> HIDE DEF x
  <2> QED
    BY <1>1, <2>3
<1>3. /\ y \in Seq(A) /\ Len(y) = Len(s) - k
      /\ \A i \in 1 .. (Len(s) - k) : y[i] = s[i + k]
  <2>1. \A i \in (k + 1) .. Len(s) : s[i] \in A
    BY <1>1
  <2>2. k + 1 \in Int /\ Len(s) \in Int
    BY <1>1
  <2>3. /\ y \in Seq(A) /\ Len(y) = IF k + 1 <= Len(s) THEN Len(s) - (k + 1) + 1 ELSE 0
        /\ \A i \in 1 .. (Len(s) - (k + 1) + 1) : y[i] = s[(k + 1) + i - 1]
    BY <2>1, <2>2, SubSeqProperties
  <2> HIDE DEF y
  <2>4. Len(y) = Len(s) - k
    BY <1>1, <2>3
  <2>5. ASSUME NEW i \in 1 .. (Len(s) - k)
        PROVE  y[i] = s[i + k]
    <3>1. i \in 1 .. (Len(s) - (k + 1) + 1) /\ (k + 1) + i - 1 = i + k
      BY <1>1
    <3>2. y[i] = s[(k + 1) + i - 1]
      BY <2>3, <3>1
    <3> QED
      BY <3>1, <3>2
  <2> QED
    BY <2>3, <2>4, <2>5
<1> HIDE DEF x, y
<1>4. /\ x \o y \in Seq(A) /\ Len(x \o y) = Len(s) - 1
      /\ \A i \in 1 .. (Len(s) - 1) :
           (x \o y)[i] = IF i <= k - 1 THEN x[i] ELSE y[i - (k - 1)]
  <2>1. /\ x \o y \in Seq(A) /\ Len(x \o y) = Len(x) + Len(y)
        /\ \A i \in 1 .. (Len(x) + Len(y)) :
             (x \o y)[i] = IF i <= Len(x) THEN x[i] ELSE y[i - Len(x)]
    BY <1>2, <1>3, ConcatProperties
  <2>2. Len(x) = k - 1 /\ Len(x) + Len(y) = Len(s) - 1
    BY <1>1, <1>2, <1>3
  <2> QED
    BY <2>1, <2>2
<1>5. \A i \in 1 .. (Len(s) - 1) : (x \o y)[i] = IF i < k THEN s[i] ELSE s[i + 1]
  <2> SUFFICES ASSUME NEW i \in 1 .. (Len(s) - 1)
               PROVE  (x \o y)[i] = IF i < k THEN s[i] ELSE s[i + 1]
    OBVIOUS
  <2>1. CASE i < k
    <3>1. i <= k - 1 /\ i \in 1 .. (k - 1)
      BY <1>1, <2>1
    <3> QED
      BY <1>2, <1>4, <2>1, <3>1
  <2>2. CASE ~ (i < k)
    <3>1. ~ (i <= k - 1) /\ i - (k - 1) \in 1 .. (Len(s) - k) /\ (i - (k - 1)) + k = i + 1
      BY <1>1, <2>2
    <3>2. (x \o y)[i] = y[i - (k - 1)] /\ y[i - (k - 1)] = s[(i - (k - 1)) + k]
      BY <1>3, <1>4, <3>1
    <3> QED
      BY <2>2, <3>1, <3>2
  <2> QED
    BY <2>1, <2>2
<1>6. DOMAIN (x \o y) = 1 .. (Len(s) - 1)
  BY <1>4
<1> QED
  BY <1>4, <1>5, <1>6 DEF RemoveAt, x, y
-----------------------------------------------------------------------------
LEMMA AInvInit ==
  ASSUME Init
  PROVE  AInv
<1>1. members \in Nat \ {0} /\ Indices(members) = 0 .. (members - 1)
  BY MembersIsBuffers DEF Indices
<1>2. /\ \A i \in Indices(members) : pool.free[i] = i + 1 /\ pool.busy[i] = 0
      /\ DOMAIN pool.free = Indices(members) /\ DOMAIN pool.busy = Indices(members)
      /\ pool \in Pools
  <2>1. pool = free_pool_init
    BY DEF Init
  <2>2. free_pool_init \in Pools
    BY <1>1 DEF free_pool_init, Pools, PoolArray
  <2> QED
    BY <2>1, <2>2 DEF free_pool_init
<1>3. held = <<>> /\ orderly = TRUE
  BY DEF Init
<1>4. TypeOK
  BY <1>2, <1>3 DEF TypeOK
<1>5. /\ Distinct(pool.free) /\ Ascending(pool.free)
      /\ Distinct(pool.busy) /\ Ascending(pool.busy)
  BY <1>1, <1>2 DEF Distinct, Ascending
<1>6. NonZero(pool.busy) = {}
  BY <1>2 DEF NonZero
<1>7. NonZero(pool.free) = Blocks
  <2>1. \A b \in Blocks : b - 1 \in Indices(members) /\ pool.free[b - 1] = b
    BY <1>1, <1>2 DEF Blocks
  <2>2. ASSUME NEW b \in Blocks
        PROVE  b \in NonZero(pool.free)
    <3>1. b - 1 \in DOMAIN pool.free /\ pool.free[b - 1] = b /\ b # 0
      BY <1>1, <1>2, <2>1 DEF Blocks
    <3> QED
      BY <3>1 DEF NonZero
  <2>3. \A b \in NonZero(pool.free) : b \in Blocks
    BY <1>1, <1>2 DEF NonZero, Blocks
  <2> QED
    BY <2>2, <2>3
<1>8. HeldBlocks = {}
  BY <1>3 DEF HeldBlocks
<1>9. WellKept(pool)
  BY <1>5, <1>6 DEF WellKept
<1>10. OrderlyInv
  BY <1>3, <1>5, <1>6, <1>7, <1>8 DEF OrderlyInv
<1> QED
  BY <1>4, <1>9, <1>10 DEF AInv

LEMMA AllocStep ==
  ASSUME AInv, NEW num \in Requests, Alloc(num)
  PROVE  AInv'
<1> DEFINE a == [root |-> pool.free[0], num |-> num]
<1>1. /\ CanAlloc(pool, num) /\ pool' = shm_alloc(pool, num)
      /\ held' = Append(held, [root |-> AllocRoot(pool, num), num |-> num])
      /\ orderly' = (orderly /\ \A k \in DOMAIN held : held[k].num = num)
  BY DEF Alloc
<1>2. /\ TypeOK /\ WellKept(pool) /\ OrderlyInv
      /\ pool \in Pools /\ held \in Seq(Area) /\ orderly \in BOOLEAN
      /\ num \in 1 .. members
  BY ClientAssumption DEF AInv, TypeOK
<1>3. /\ pool' \in Pools /\ WellKept(pool') /\ Ascending(pool'.busy)
      /\ AllocRoot(pool, num) = pool.free[0] /\ pool.free[0] \in Blocks
      /\ NonZero(pool'.free) = NonZero(pool.free) \ AllocTaken(pool, num)
      /\ Ascending(pool.busy) =>
           NonZero(pool'.busy) = NonZero(pool.busy) \cup AllocTaken(pool, num)
  BY <1>1, <1>2, AllocPools
<1>4. a \in Area
  BY <1>3 DEF Area
<1>5. held' = Append(held, a)
  BY <1>1, <1>3
<1> HIDE DEF a
<1>6. /\ held' \in Seq(Area) /\ DOMAIN held' = DOMAIN held \cup {Len(held) + 1}
      /\ \A k \in DOMAIN held : held'[k] = held[k]
      /\ held'[Len(held) + 1] = a /\ Len(held) + 1 \notin DOMAIN held
  BY <1>2, <1>4, <1>5
<1>7. orderly' \in BOOLEAN
  BY <1>1, Zenon
<1>8. TypeOK'
  BY <1>3, <1>6, <1>7 DEF TypeOK
<1>9. ASSUME orderly'
      PROVE  /\ \A j, k \in DOMAIN held' : held'[j].num = held'[k].num
             /\ \A k \in DOMAIN held' : Aligned(held'[k])
             /\ \A j, k \in DOMAIN held' : j # k => Span(held'[j]) \cap Span(held'[k]) = {}
             /\ NonZero(pool'.busy) = HeldBlocks'
             /\ NonZero(pool'.free) = Blocks \ HeldBlocks'
             /\ Ascending(pool'.busy)
  <2>1. orderly /\ \A k \in DOMAIN held : held[k].num = num
    BY <1>1, <1>9
  <2>2. /\ \A k \in DOMAIN held : Aligned(held[k])
        /\ \A j, k \in DOMAIN held : j # k => Span(held[j]) \cap Span(held[k]) = {}
        /\ NonZero(pool.busy) = HeldBlocks
        /\ NonZero(pool.free) = Blocks \ HeldBlocks
        /\ Ascending(pool.busy)
    BY <1>2, <2>1 DEF OrderlyInv
  <2>3. /\ Aligned(a)
        /\ \A k \in DOMAIN held : Span(a) \cap Span(held[k]) = {}
        /\ AllocTaken(pool, num) = Span(a)
    BY <1>1, <1>2, <2>1, NewArea DEF a
  <2>4. a.num = num
    BY DEF a
  <2>5. HeldBlocks' = HeldBlocks \cup Span(a)
    <3>1. \A b : b \in HeldBlocks' <=> \E k \in DOMAIN held' : b \in Span(held'[k])
      BY DEF HeldBlocks
    <3> QED
      BY <1>6, <3>1, HeldIn
  <2>6. \A j, k \in DOMAIN held' : j # k => Span(held'[j]) \cap Span(held'[k]) = {}
    BY <1>6, <2>2, <2>3
  <2> QED
    BY <1>3, <1>6, <2>1, <2>2, <2>3, <2>4, <2>5, <2>6
<1>10. OrderlyInv'
  BY <1>9 DEF OrderlyInv
<1>11. WellKept(pool)'
  BY <1>3 DEF WellKept
<1> QED
  BY <1>8, <1>10, <1>11 DEF AInv

LEMMA DeallocStep ==
  ASSUME AInv, NEW k \in DOMAIN held, Dealloc(k)
  PROVE  AInv'
<1> DEFINE num == held[k].num
           r == held[k].root
           Old(i) == IF i < k THEN i ELSE i + 1
<1>1. /\ binarySearch(pool.busy, r) # -1 /\ pool' = shm_dealloc(pool, num, r)
      /\ held' = RemoveAt(held, k)
      /\ orderly' = (orderly /\ \A j \in DOMAIN held : r <= held[j].root)
  BY DEF Dealloc
<1>2. /\ TypeOK /\ WellKept(pool) /\ OrderlyInv
      /\ pool \in Pools /\ held \in Seq(Area) /\ held[k] \in Area
  BY DEF AInv, TypeOK
<1>3. num \in 1 .. members
  BY <1>2, AreaFacts
<1>4. /\ held' \in Seq(Area)
      /\ \A i \in DOMAIN held' : Old(i) \in DOMAIN held \ {k} /\ held'[i] = held[Old(i)]
      /\ \A i, j \in DOMAIN held' : i # j => Old(i) # Old(j)
      /\ \A i \in DOMAIN held \ {k} : \E j \in DOMAIN held' : held'[j] = held[i]
  <2>1. /\ held' \in Seq(Area) /\ DOMAIN held' = 1 .. (Len(held) - 1)
        /\ \A i \in 1 .. (Len(held) - 1) :
             held'[i] = IF i < k THEN held[i] ELSE held[i + 1]
    BY <1>1, <1>2, RemoveAtResult
  <2>2. Len(held) \in Nat /\ DOMAIN held = 1 .. Len(held) /\ k \in 1 .. Len(held)
    BY <1>2
  <2>3. ASSUME NEW i \in DOMAIN held \ {k}
        PROVE  \E j \in DOMAIN held' : held'[j] = held[i]
    <3> DEFINE j == IF i < k THEN i ELSE i - 1
    <3>1. j \in 1 .. (Len(held) - 1) /\ (IF j < k THEN j ELSE j + 1) = i
      BY <2>2
    <3> HIDE DEF j
    <3>2. held'[j] = held[i]
      BY <2>1, <3>1
    <3> QED
      BY <2>1, <3>1, <3>2
  <2>4. \A i \in DOMAIN held' : Old(i) \in DOMAIN held \ {k} /\ held'[i] = held[Old(i)]
    BY <2>1, <2>2
  <2>5. \A i, j \in DOMAIN held' : i # j => Old(i) # Old(j)
    BY <2>1, <2>2
  <2> QED
    BY <2>1, <2>3, <2>4, <2>5
<1>5. /\ pool' \in Pools /\ WellKept(pool')
      /\ /\ binarySearch(pool.busy, r) = 0
         /\ Ascending(pool.busy)
         /\ \A i \in 0 .. (num - 1) : pool.busy[i] # 0
         => /\ Ascending(pool'.busy)
            /\ NonZero(pool'.busy) =
                 NonZero(pool.busy) \ ValuesAt(pool.busy, 0 .. (num - 1))
            /\ NonZero(pool'.free) =
                 NonZero(pool.free) \cup ValuesAt(pool.busy, 0 .. (num - 1))
  BY <1>1, <1>2, <1>3, DeallocPools
<1> HIDE DEF Old
<1>6. orderly' \in BOOLEAN
  BY <1>1, Zenon
<1>7. TypeOK'
  BY <1>4, <1>5, <1>6 DEF TypeOK
<1>8. ASSUME orderly'
      PROVE  /\ \A i, j \in DOMAIN held' : held'[i].num = held'[j].num
             /\ \A i \in DOMAIN held' : Aligned(held'[i])
             /\ \A i, j \in DOMAIN held' : i # j => Span(held'[i]) \cap Span(held'[j]) = {}
             /\ NonZero(pool'.busy) = HeldBlocks'
             /\ NonZero(pool'.free) = Blocks \ HeldBlocks'
             /\ Ascending(pool'.busy)
  <2>1. orderly /\ \A j \in DOMAIN held : r <= held[j].root
    BY <1>1, <1>8
  <2>2. /\ \A i, j \in DOMAIN held : held[i].num = held[j].num
        /\ \A i \in DOMAIN held : Aligned(held[i])
        /\ \A i, j \in DOMAIN held : i # j => Span(held[i]) \cap Span(held[j]) = {}
        /\ NonZero(pool.busy) = HeldBlocks
        /\ NonZero(pool.free) = Blocks \ HeldBlocks
        /\ Ascending(pool.busy)
    BY <1>2, <2>1 DEF OrderlyInv
  <2>3. /\ binarySearch(pool.busy, r) = 0
        /\ \A i \in 0 .. (num - 1) : pool.busy[i] # 0
        /\ ValuesAt(pool.busy, 0 .. (num - 1)) = Span(held[k])
    BY <1>1, <1>2, <2>1, LowestArea
  <2>4. /\ Ascending(pool'.busy)
        /\ NonZero(pool'.busy) = HeldBlocks \ Span(held[k])
        /\ NonZero(pool'.free) = (Blocks \ HeldBlocks) \cup Span(held[k])
    BY <1>5, <2>2, <2>3
  <2>5. HeldBlocks' = HeldBlocks \ Span(held[k])
    <3>1. \A b : b \in HeldBlocks' <=> \E i \in DOMAIN held' : b \in Span(held'[i])
      BY DEF HeldBlocks
    <3>2. \A b : b \in HeldBlocks' <=> \E i \in DOMAIN held \ {k} : b \in Span(held[i])
      BY <1>4, <3>1
    <3>3. \A i \in DOMAIN held \ {k} : Span(held[i]) \cap Span(held[k]) = {}
      BY <2>2
    <3> QED
      BY <3>2, <3>3, HeldIn
  <2>6. Span(held[k]) \subseteq Blocks /\ Span(held[k]) \subseteq HeldBlocks
    <3>1. Span(held[k]) \subseteq HeldBlocks
      BY HeldIn
    <3>2. NonZero(pool.busy) \subseteq Blocks
      BY <1>2, PoolArrays DEF NonZero, Blocks
    <3> QED
      BY <2>2, <3>1, <3>2
  <2>7. \A i, j \in DOMAIN held' : i # j => Span(held'[i]) \cap Span(held'[j]) = {}
    BY <1>4, <2>2
  <2>8. /\ \A i, j \in DOMAIN held' : held'[i].num = held'[j].num
        /\ \A i \in DOMAIN held' : Aligned(held'[i])
    BY <1>4, <2>2
  <2> QED
    BY <2>4, <2>5, <2>6, <2>7, <2>8
<1>9. OrderlyInv'
  BY <1>8 DEF OrderlyInv
<1>10. WellKept(pool)'
  BY <1>5 DEF WellKept
<1> QED
  BY <1>7, <1>9, <1>10 DEF AInv

(***************************************************************************)
(* AInv holds in every state of asgard.c under a client that keeps to the  *)
(* contract of asgard.h, for every segment size, every set of block counts *)
(* and every bound on the areas held.                                      *)
(***************************************************************************)
THEOREM PoolInvariance == Spec => []AInv
<1>1. AInv /\ [Next]_vars => AInv'
  <2> SUFFICES ASSUME AInv, [Next]_vars
               PROVE  AInv'
    OBVIOUS
  <2>1. CASE \E num \in Requests : Alloc(num)
    BY <2>1, AllocStep
  <2>2. CASE UNCHANGED vars \/ \E num \in Requests : AllocFails(num)
    BY <2>2 DEF AllocFails, vars, AInv, TypeOK, WellKept, OrderlyInv, HeldBlocks
  <2>3. CASE \E k \in DOMAIN held : Dealloc(k)
    BY <2>3, DeallocStep
  <2> QED
    BY <2>1, <2>2, <2>3 DEF Next
<1> QED
  BY AInvInit, <1>1, PTL DEF Spec

(***************************************************************************)
(* The pools of asgard.c stay arrays of block numbers, and the areas stay  *)
(* areas.                                                                  *)
(***************************************************************************)
THEOREM PoolTypes == Spec => []TypeOK
<1>1. AInv => TypeOK
  BY DEF AInv
<1> QED
  BY PoolInvariance, <1>1, PTL

(***************************************************************************)
(* Whatever the order of the frees, no block is in two slots of the pools  *)
(* of asgard.c.                                                            *)
(***************************************************************************)
THEOREM NoBlockListedTwice == Spec => []BlockListedOnce
<1>1. AInv => BlockListedOnce
  <2> SUFFICES ASSUME AInv
               PROVE  BlockListedOnce
    OBVIOUS
  <2>1. /\ WellKept(pool) /\ DOMAIN pool.free = Indices(members)
        /\ DOMAIN pool.busy = Indices(members)
    BY PoolArrays DEF AInv, TypeOK
  <2>2. Listed(pool.free) = NonZero(pool.free) /\ Listed(pool.busy) = NonZero(pool.busy)
    BY <2>1 DEF Listed, NonZero
  <2>3. Listed(pool.free) \cap Listed(pool.busy) = {}
    BY <2>1, <2>2 DEF WellKept
  <2> QED
    BY <2>1, <2>3 DEF WellKept, Distinct, BlockListedOnce
<1> QED
  BY PoolInvariance, <1>1, PTL

(***************************************************************************)
(* The free pool that shm_alloc takes its blocks from is always ascending. *)
(***************************************************************************)
THEOREM FreePoolAscends == Spec => []FreePoolInOrder
<1>1. AInv => FreePoolInOrder
  <2> SUFFICES ASSUME AInv
               PROVE  FreePoolInOrder
    OBVIOUS
  <2>1. Ascending(pool.free) /\ DOMAIN pool.free = Indices(members)
    BY PoolArrays DEF AInv, TypeOK, WellKept
  <2> QED
    BY <2>1 DEF Ascending, FreePoolInOrder
<1> QED
  BY PoolInvariance, <1>1, PTL

\* shm_alloc fails only when fewer blocks than it asks for are free.
LEMMA FailsWhenShort ==
  ASSUME NEW p \in Pools, Distinct(p.free), Ascending(p.free),
         NEW num \in 1 .. members, ~ CanAlloc(p, num)
  PROVE  Cardinality(NonZero(p.free)) < num
<1> DEFINE m == members
           f == p.free
<1>1. /\ m \in Nat \ {0} /\ Indices(m) = 0 .. (m - 1) /\ f \in NatArray(m, m)
      /\ DOMAIN f = 0 .. (m - 1) /\ \A i \in 0 .. (m - 1) : f[i] \in 0 .. m
  BY PoolArrays
<1>2. PICK i \in 0 .. (num - 1) : f[i] = 0
  BY DEF CanAlloc
<1> HIDE DEF f, m
<1>3. i \in Indices(m) /\ i < num /\ i \in Nat
  BY <1>1, <1>2 DEF m
<1>4. Ascending(f)
  BY DEF f
<1>5. Cardinality(NonZero(f)) \in 0 .. i
  BY <1>1, <1>2, <1>3, <1>4, ValuesBefore
<1> QED
  BY <1>3, <1>5 DEF f

(***************************************************************************)
(* A client with areas of one size that frees the lowest first gets whole  *)
(* areas that do not overlap, leaks no block, and is refused only when too *)
(* few are free: what jane.c and thor.c rely on when they free and take    *)
(* the area again.                                                         *)
(***************************************************************************)
THEOREM NothingLeaksOrIsShared == Spec => []AreasAccounted
<1>1. AInv => AreasAccounted
  <2> SUFFICES ASSUME AInv, orderly
               PROVE  /\ \A j, k \in DOMAIN held : j # k => Span(held[j]) \cap Span(held[k]) = {}
                      /\ Listed(pool.busy) = HeldBlocks
                      /\ Listed(pool.free) = Blocks \ HeldBlocks
                      /\ \A num \in Requests :
                           ~ CanAlloc(pool, num) => Cardinality(Blocks \ HeldBlocks) < num
    BY DEF AreasAccounted
  <2>1. /\ WellKept(pool) /\ DOMAIN pool.free = Indices(members)
        /\ DOMAIN pool.busy = Indices(members) /\ pool \in Pools
    BY PoolArrays DEF AInv, TypeOK
  <2>2. Listed(pool.free) = NonZero(pool.free) /\ Listed(pool.busy) = NonZero(pool.busy)
    BY <2>1 DEF Listed, NonZero
  <2>3. /\ \A j, k \in DOMAIN held : j # k => Span(held[j]) \cap Span(held[k]) = {}
        /\ NonZero(pool.busy) = HeldBlocks
        /\ NonZero(pool.free) = Blocks \ HeldBlocks
    BY DEF AInv, OrderlyInv
  <2>4. \A num \in Requests :
          ~ CanAlloc(pool, num) => Cardinality(Blocks \ HeldBlocks) < num
    BY <2>1, <2>3, ClientAssumption, FailsWhenShort DEF WellKept
  <2> QED
    BY <2>2, <2>3, <2>4
<1> QED
  BY PoolInvariance, <1>1, PTL

(***************************************************************************)
(* The digit passes of radix_sort.c sort every array that asgard.c gives   *)
(* them, in segments of fewer than a million blocks; ini_parser.c refuses  *)
(* more than 102399.                                                       *)
(***************************************************************************)
THEOREM AllocatorSorts ==
  ASSUME Buffers < Million
  PROVE  Spec => []SortedByDigits
<1>1. ASSUME NEW a \in NatArray(members, members)
      PROVE  radix_sort_passes(a) = radix_sort(a)
  BY MembersIsBuffers, DigitPassesSort
<1>2. AInv => SortedByDigits
  <2> SUFFICES ASSUME AInv
               PROVE  SortedByDigits
    OBVIOUS
  <2>1. /\ members \in Nat \ {0} /\ Indices(members) = 0 .. (members - 1)
        /\ \A i \in 0 .. (members - 1) :
             pool.free[i] \in 0 .. members /\ pool.busy[i] \in 0 .. members
    BY PoolArrays DEF AInv, TypeOK
  <2>2. \A j \in 0 .. (members - 1) : members - 1 - j \in 0 .. (members - 1)
    BY <2>1
  <2>3. \A num \in Requests : BusyFilled(pool, num) \in NatArray(members, members)
    BY <2>1, <2>2 DEF BusyFilled, NatArray
  <2>4. \A num, mem : FreeFilled(pool, num, mem) \in NatArray(members, members)
    BY <2>1, <2>2 DEF FreeFilled, NatArray
  <2> QED
    BY <1>1, <2>3, <2>4 DEF SortedByDigits
<1> QED
  BY PoolInvariance, <1>2, PTL
=============================================================================
