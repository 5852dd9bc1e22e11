------------------------------ MODULE ShmPool ------------------------------
(***************************************************************************)
(* The buffer allocator of asgard.c as operators on its two static arrays. *)
(* Shared memory is cut into 1024-byte blocks.  Block 0 is never handed    *)
(* out, so the blocks are 1 .. members, and a pointer into the segment is  *)
(* the number of the block it points to; 0 stands for the NULL pointer.    *)
(***************************************************************************)
EXTENDS ArrayOps

CONSTANT Buffers      \* jane_config->buffers

ASSUME BuffersAssumption == Buffers \in Nat \ {0}

NULL == 0

\* buffer_init: (sz / 1024) - 1 blocks of a segment of (buffers * 1024) + 1024.
members == ((Buffers * 1024 + 1024) \div 1024) - 1

Blocks == 1 .. members
PoolArray == [Indices(members) -> 0 .. members]
Pools == [free : PoolArray, busy : PoolArray]

\* free_pool_init: every block free, in ascending order, and none busy.
free_pool_init == [free |-> [i \in Indices(members) |-> i + 1],
                   busy |-> [i \in Indices(members) |-> 0]]

\* The scan at the top of shm_alloc: the first num slots all hold a block.
CanAlloc(p, num) == \A i \in 0 .. (num - 1) : p.free[i] # 0

\* Mutant: the address is taken after the loop has cleared the slots.
AllocRoot_AfterLoop(p, num) == IF num = 0 THEN p.free[0] ELSE 0

\* The block shm_alloc returns, and the blocks it takes out of the free pool.
AllocRoot(p, num) == IF CanAlloc(p, num) THEN p.free[0] ELSE NULL
AllocTaken(p, num) == {p.free[i] : i \in 0 .. (num - 1)}

\* The busy pool that shm_alloc sorts: the first num free blocks are written to
\* its end, last slot first.
BusyFilled(p, num) ==
  [j \in Indices(members) |->
     IF members - 1 - j < num THEN p.free[members - 1 - j] ELSE p.busy[j]]

\* Mutant: the blocks taken are not cleared in the free pool.
shm_alloc_KeepsFree(p, num) ==
  IF ~ CanAlloc(p, num) THEN p
  ELSE [free |-> move_array(p.free),
        busy |-> move_array(radix_sort(BusyFilled(p, num)))]

(***************************************************************************)
(* shm_alloc(num): the first num free blocks go to the busy pool and leave *)
(* zeros in the free pool, which is shifted left; the busy pool is sorted  *)
(* and shifted left.                                                       *)
(***************************************************************************)
shm_alloc(p, num) ==
  IF ~ CanAlloc(p, num) THEN p
  ELSE [free |-> move_array([i \in Indices(members) |->
                   IF i < num THEN 0 ELSE p.free[i]]),
        busy |-> move_array(radix_sort(BusyFilled(p, num)))]

\* Mutant: the loop of shm_dealloc ends one slot too early.
FreedSlots_OffByOne(p, num, mem) == binarySearch(p.busy, mem) .. (num - 2)

\* The busy slots shm_dealloc gives back: from the one that holds mem's block up
\* to slot num-1, and not the num slots that follow it.
FreedSlots(p, num, mem) == binarySearch(p.busy, mem) .. (num - 1)

\* The free pool that shm_dealloc sorts: the blocks are written to its end.
FreeFilled(p, num, mem) ==
  [j \in Indices(members) |->
     IF members - 1 - j \in FreedSlots(p, num, mem)
     THEN p.busy[members - 1 - j] ELSE p.free[j]]

\* Mutant: the free pool is shifted and not sorted.
shm_dealloc_Unsorted(p, num, mem) ==
  [free |-> move_array(FreeFilled(p, num, mem)),
   busy |-> move_array([i \in Indices(members) |->
              IF i \in FreedSlots(p, num, mem) THEN 0 ELSE p.busy[i]])]

\* shm_dealloc(num, mem): the free pool is sorted and shifted left, and the busy
\* pool, with zeros in the freed slots, shifted left.
shm_dealloc(p, num, mem) ==
  [free |-> move_array(radix_sort(FreeFilled(p, num, mem))),
   busy |-> move_array([i \in Indices(members) |->
              IF i \in FreedSlots(p, num, mem) THEN 0 ELSE p.busy[i]])]

\* The pools of a client whose only area is num blocks out of a fresh pool.
OneArea(num) ==
  [free |-> [i \in Indices(members) |-> IF i + num < members THEN i + num + 1 ELSE 0],
   busy |-> [i \in Indices(members) |-> IF i < num THEN i + 1 ELSE 0]]
=============================================================================
