------------------------------- MODULE Asgard -------------------------------
(***************************************************************************)
(* The allocator of asgard.c under a client that keeps to the contract of  *)
(* asgard.h: it asks for 1 .. members blocks, and later gives each area    *)
(* back with the number of blocks it asked for.                            *)
(***************************************************************************)
EXTENDS ShmPool, RadixSort, SequencesExt

CONSTANTS Requests,    \* the block counts the client asks for
          MaxHeld      \* bound: how many areas it holds at once

ASSUME ClientAssumption ==
  /\ Requests \subseteq 1 .. members
  /\ MaxHeld \in Nat \ {0}

VARIABLES pool,    \* the two static arrays of asgard.c
          held,    \* the areas the client holds, oldest first
          orderly  \* history: areas of one size at a time, the lowest freed first

vars == <<pool, held, orderly>>

Area == [root : Blocks, num : Requests]

\* The memory an area stands for: num blocks from the one its pointer names.
Span(a) == a.root .. (a.root + a.num - 1)
HeldBlocks == UNION {Span(held[k]) : k \in DOMAIN held}

\* The blocks a pool array lists.
Listed(array) == {array[i] : i \in Indices(members)} \ {NULL}

TypeOK ==
  /\ pool \in Pools
  /\ held \in Seq(Area)
  /\ orderly \in BOOLEAN

-----------------------------------------------------------------------------
Init ==
  /\ pool = free_pool_init
  /\ held = <<>>
  /\ orderly = TRUE

\* shm_alloc returns a pointer.
Alloc(num) ==
  /\ Len(held) < MaxHeld
  /\ CanAlloc(pool, num)
  /\ pool' = shm_alloc(pool, num)
  /\ held' = Append(held, [root |-> AllocRoot(pool, num), num |-> num])
  /\ orderly' = (orderly /\ \A k \in DOMAIN held : held[k].num = num)

\* shm_alloc returns NULL.
AllocFails(num) ==
  /\ ~ CanAlloc(pool, num)
  /\ UNCHANGED vars

\* shm_dealloc, past its assertion that the block is in the busy pool.
Dealloc(k) ==
  /\ binarySearch(pool.busy, held[k].root) # -1
  /\ pool' = shm_dealloc(pool, held[k].num, held[k].root)
  /\ held' = RemoveAt(held, k)
  /\ orderly' = (orderly /\ \A j \in DOMAIN held : held[k].root <= held[j].root)

Next ==
  \/ \E num \in Requests : Alloc(num)
  \/ \E num \in Requests : AllocFails(num)
  \/ \E k \in DOMAIN held : Dealloc(k)

Spec == Init /\ [][Next]_vars
-----------------------------------------------------------------------------
(***************************************************************************)
(* Whatever the order of the frees, no block is listed twice: not in both  *)
(* pools and not in two slots of one.  The sorts and shifts of asgard.c    *)
(* overwrite slots, and a block listed twice would be handed out twice.    *)
(***************************************************************************)
BlockListedOnce ==
  /\ Listed(pool.free) \cap Listed(pool.busy) = {}
  /\ \A i, j \in Indices(members) :
       i # j => /\ pool.free[i] = pool.free[j] => pool.free[i] = NULL
                /\ pool.busy[i] = pool.busy[j] => pool.busy[i] = NULL

(***************************************************************************)
(* The free pool stays in ascending order with its empty slots at the end, *)
(* which is what lets shm_alloc look at the first num slots only.          *)
(***************************************************************************)
FreePoolInOrder ==
  \A i, j \in Indices(members) :
    i < j /\ pool.free[j] # NULL => pool.free[i] \in 1 .. (pool.free[j] - 1)

(***************************************************************************)
(* A client that holds areas of one size at a time and frees the lowest    *)
(* first gets whole areas that do not overlap, every block outside them is *)
(* free, and shm_alloc returns NULL only when fewer blocks than it asks    *)
(* for are: nothing leaks and nothing is shared.                           *)
(***************************************************************************)
AreasAccounted ==
  orderly =>
    /\ \A j, k \in DOMAIN held : j # k => Span(held[j]) \cap Span(held[k]) = {}
    /\ Listed(pool.busy) = HeldBlocks
    /\ Listed(pool.free) = Blocks \ HeldBlocks
    /\ \A num \in Requests :
         ~ CanAlloc(pool, num) => Cardinality(Blocks \ HeldBlocks) < num

(***************************************************************************)
(* The passes of radix_sort sort the arrays the allocator gives it, with   *)
(* their zeros, their equal digits and their values of several lengths.    *)
(***************************************************************************)
SortedByDigits ==
  /\ \A num \in Requests : CanAlloc(pool, num) =>
       radix_sort_passes(BusyFilled(pool, num)) = radix_sort(BusyFilled(pool, num))
  /\ \A k \in DOMAIN held :
       LET freed == FreeFilled(pool, held[k].num, held[k].root)
       IN  radix_sort_passes(freed) = radix_sort(freed)
=============================================================================
