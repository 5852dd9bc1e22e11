---------------------------- MODULE QueueProofs ----------------------------
(***************************************************************************)
(* The ring buffer is a bounded first-in first-out queue, for every size   *)
(* and every set of elements.                                              *)
(***************************************************************************)
EXTENDS Queue, Sequences, SequenceTheorems, TLAPS

USE QueueAssumption

QInv == TypeOK /\ CountersAgree

\* Going round the ring: the slot after the k-th is the (k+1)-th.
LEMMA NextSlot ==
  ASSUME tail \in Slots, NEW k \in 0 .. max_size - 1
  PROVE  /\ SlotOf(k) \in Slots
         /\ add_counter(SlotOf(k)) = SlotOf(k + 1)
BY DEF SlotOf, Slots, add_counter

\* Two of the slots in use are never the same.
LEMMA SlotsDiffer ==
  ASSUME tail \in Slots, NEW j \in 0 .. max_size - 1, NEW k \in 0 .. max_size - 1,
         j # k
  PROVE  SlotOf(j) # SlotOf(k)
BY DEF SlotOf, Slots

\* What q_add does to the elements in the ring.
LEMMA AddAppends ==
  ASSUME QInv, NEW line \in Lines, q_add(line)
  PROVE  /\ QInv'
         /\ Queued' = Append(Queued, line)
<1>1. /\ tail \in Slots /\ tail' = tail /\ curr_size \in 0 .. max_size - 1
      /\ curr_size' = curr_size + 1
      /\ head = SlotOf(curr_size) /\ head \in Slots
      /\ e' = [e EXCEPT ![head] = line]
      /\ e \in [Slots -> Lines \cup {NoElem}]
  BY DEF QInv, TypeOK, CountersAgree, q_add, q_full
<1>2. \A k \in 0 .. max_size : SlotOf(k)' = SlotOf(k)
  BY <1>1 DEF SlotOf
<1>3. \A k \in 1 .. curr_size : e'[SlotOf(k - 1)] = e[SlotOf(k - 1)]
  <2> TAKE k \in 1 .. curr_size
  <2>1. SlotOf(k - 1) # head /\ SlotOf(k - 1) \in Slots
    BY <1>1, SlotsDiffer, NextSlot
  <2> QED
    BY <1>1, <2>1
<1>4. e'[SlotOf(curr_size)] = line
  BY <1>1
<1>5. Queued' = [k \in 1 .. curr_size + 1 |->
                   IF k = curr_size + 1 THEN line ELSE e[SlotOf(k - 1)]]
  <2>1. Queued' = [k \in 1 .. curr_size + 1 |-> e'[SlotOf(k - 1)]]
    BY <1>1, <1>2 DEF Queued
  <2>2. \A k \in 1 .. curr_size + 1 :
          e'[SlotOf(k - 1)] = IF k = curr_size + 1 THEN line ELSE e[SlotOf(k - 1)]
    BY <1>1, <1>3, <1>4
  <2> QED
    BY <2>1, <2>2
<1>6. Queued' = Append(Queued, line)
  <2>1. Queued \in Seq(Lines \cup {NoElem}) /\ Len(Queued) = curr_size
    BY <1>1, NextSlot DEF Queued
  <2>2. /\ Append(Queued, line) \in Seq(Lines \cup {NoElem})
        /\ Len(Append(Queued, line)) = curr_size + 1
        /\ \A k \in 1 .. curr_size + 1 : Append(Queued, line)[k] =
             IF k = curr_size + 1 THEN line ELSE Queued[k]
    BY <1>1, <2>1
  <2>3. \A k \in 1 .. curr_size + 1 : k # curr_size + 1 => Queued[k] = e[SlotOf(k - 1)]
    BY <1>1 DEF Queued
  <2>4. /\ Queued' \in Seq(Lines \cup {NoElem})
        /\ Len(Queued') = curr_size + 1
    BY <1>1, <1>5, NextSlot
  <2>5. \A k \in 1 .. curr_size + 1 : Queued'[k] = Append(Queued, line)[k]
    BY <1>5, <2>2, <2>3
  <2> QED
    BY <2>2, <2>4, <2>5, SeqEqual
<1>7. TypeOK'
  <2>1. added' \in BOOLEAN
    BY Zenon DEF q_add
  <2>2. head' \in Slots
    BY <1>1 DEF q_add, add_counter, Slots
  <2>3. removed' \in Lines \cup {NoElem}
    BY DEF QInv, TypeOK, q_add
  <2>4. e' \in [Slots -> Lines \cup {NoElem}]
    BY <1>1
  <2> QED
    BY <1>1, <2>1, <2>2, <2>3, <2>4 DEF TypeOK
<1>8. CountersAgree'
  <2>1. head' = SlotOf(curr_size + 1)
    BY <1>1, NextSlot DEF q_add
  <2>2. head' = SlotOf(curr_size)'
    BY <1>1, <1>2, <2>1 DEF SlotOf
  <2>3. \A k \in 1 .. curr_size : e[SlotOf(k - 1)] \in Lines
    BY DEF QInv, CountersAgree, Queued
  <2>4. \A k \in (1 .. curr_size)' : Queued'[k] \in Lines
    BY <1>1, <1>5, <2>3
  <2> QED
    BY <2>2, <2>4 DEF CountersAgree
<1> QED
  BY <1>6, <1>7, <1>8 DEF QInv

\* What q_remove does to them.
LEMMA RemoveTakes ==
  ASSUME QInv, q_remove
  PROVE  /\ QInv'
         /\ Queued # <<>>
         /\ Queued' = Tail(Queued)
         /\ removed' = Head(Queued)
<1>1. /\ tail \in Slots /\ tail' = add_counter(tail) /\ curr_size \in 1 .. max_size
      /\ curr_size' = curr_size - 1
      /\ head = SlotOf(curr_size) /\ head \in Slots /\ head' = head
      /\ e' = e /\ removed' = e[tail]
      /\ e \in [Slots -> Lines \cup {NoElem}]
  BY DEF QInv, TypeOK, CountersAgree, q_remove, q_empty
<1>2. \A k \in 0 .. max_size - 1 : SlotOf(k)' = SlotOf(k + 1)
  BY <1>1 DEF SlotOf, add_counter, Slots
<1>3. Queued \in Seq(Lines \cup {NoElem}) /\ Len(Queued) = curr_size
  BY <1>1, NextSlot DEF Queued
<1>4. Queued' = [k \in 1 .. curr_size - 1 |-> e[SlotOf(k)]]
  <2>1. Queued' = [k \in 1 .. curr_size - 1 |-> e[SlotOf(k - 1)']]
    BY <1>1 DEF Queued, SlotOf
  <2>2. \A k \in 1 .. curr_size - 1 : SlotOf(k - 1)' = SlotOf(k)
    BY <1>1, <1>2
  <2> QED
    BY <2>1, <2>2
<1>5. Queued' = Tail(Queued)
  BY <1>1, <1>3, <1>4 DEF Queued
<1>6. removed' = Head(Queued) /\ removed' \in Lines /\ Queued # <<>>
  <2>1. SlotOf(0) = tail
    BY <1>1 DEF SlotOf, Slots
  <2>2. Queued[1] = e[tail] /\ Queued[1] \in Lines
    BY <1>1, <2>1 DEF Queued, QInv, CountersAgree
  <2> QED
    BY <1>1, <1>3, <2>2
<1>7. TypeOK'
  <2>1. added' \in BOOLEAN
    BY Zenon DEF QInv, TypeOK, q_remove
  <2>2. tail' \in Slots
    BY <1>1 DEF add_counter, Slots
  <2> QED
    BY <1>1, <1>6, <2>1, <2>2 DEF TypeOK
<1>8. CountersAgree'
  <2>1. head' = SlotOf(curr_size)'
    BY <1>1 DEF SlotOf, add_counter, Slots
  <2>3. \A k \in 1 .. curr_size : e[SlotOf(k - 1)] \in Lines
    BY DEF QInv, CountersAgree, Queued
  <2>4. \A k \in 1 .. curr_size - 1 : e[SlotOf(k)] \in Lines
    BY <1>1, <2>3
  <2>5. \A k \in (1 .. curr_size)' : Queued'[k] \in Lines
    BY <1>1, <1>4, <2>4
  <2> QED
    BY <2>1, <2>5 DEF CountersAgree
<1> QED
  BY <1>5, <1>6, <1>7, <1>8 DEF QInv

\* The calls that are refused, and no call.
LEMMA RefusedKeeps ==
  ASSUME QInv, q_add_full \/ q_remove_empty \/ UNCHANGED vars
  PROVE  QInv' /\ Queued' = Queued
<1>1. UNCHANGED <<e, head, tail, curr_size>>
  BY DEF q_add_full, q_remove_empty, vars
<1>2. removed' \in Lines \cup {NoElem}
  BY DEF QInv, TypeOK, q_add_full, q_remove_empty, vars
<1>3. added' \in BOOLEAN
  <2>1. added' = FALSE \/ added' = added
    BY Zenon DEF q_add_full, q_remove_empty, vars
  <2> QED
    BY <2>1, Zenon DEF QInv, TypeOK
<1> QED
  BY <1>1, <1>2, <1>3 DEF QInv, TypeOK, CountersAgree, Queued, SlotOf

LEMMA QInvInit ==
  q_init => QInv /\ Queued = <<>>
<1> SUFFICES ASSUME q_init
             PROVE  QInv /\ Queued = <<>>
  OBVIOUS
<1>1. /\ e = [i \in Slots |-> NoElem] /\ head = 0 /\ tail = 0 /\ curr_size = 0
      /\ removed = NoElem
  BY DEF q_init
<1>2. added \in BOOLEAN
  BY Zenon DEF q_init
<1>3. Queued = <<>>
  BY <1>1 DEF Queued
<1> QED
  BY <1>1, <1>2, <1>3 DEF QInv, TypeOK, CountersAgree, SlotOf, Slots

LEMMA QInvStep ==
  QInv /\ [Next]_vars => QInv'
BY AddAppends, RemoveTakes, RefusedKeeps DEF Next

(***************************************************************************)
(* The counters of the ring agree after every sequence of calls, for every *)
(* max_size.                                                               *)
(***************************************************************************)
THEOREM RingConsistent ==
  Spec => []CountersAgree
<1>1. QInv => CountersAgree
  BY DEF QInv
<1> QED
  BY QInvInit, QInvStep, <1>1, PTL DEF Spec

\* One call of q.c is one step of the first-in first-out queue.
LEMMA CallIsFifoStep ==
  QInv /\ [Next]_vars => [F!FifoNext]_(F!fifoVars)
<1> SUFFICES ASSUME QInv, [Next]_vars
             PROVE  [F!FifoNext]_(F!fifoVars)
  OBVIOUS
<1>0. Len(Queued) = curr_size /\ (curr_size = 0 => Queued = <<>>)
  BY DEF Queued, QInv, TypeOK
<1>1. ASSUME NEW line \in Lines, q_add(line)
      PROVE  F!Put(line)
  <2>1. Len(Queued) < max_size
    BY <1>0, <1>1 DEF QInv, TypeOK, q_add, q_full
  <2>2. Queued' = Append(Queued, line)
    BY <1>1, AddAppends
  <2> QED
    BY <1>1, <2>1, <2>2, Zenon DEF F!Put, q_add
<1>2. ASSUME q_add_full
      PROVE  F!PutRefused
  <2>1. Len(Queued) = max_size
    BY <1>0, <1>2 DEF q_add_full, q_full
  <2>2. Queued' = Queued
    BY <1>2, RefusedKeeps
  <2> QED
    BY <1>2, <2>1, <2>2, Zenon DEF F!PutRefused, q_add_full
<1>3. ASSUME q_remove
      PROVE  F!Take
  BY <1>3, RemoveTakes, Zenon DEF F!Take, q_remove
<1>4. ASSUME q_remove_empty
      PROVE  F!TakeRefused
  <2>1. Queued = <<>> /\ Queued' = Queued
    BY <1>0, <1>4, RefusedKeeps DEF q_remove_empty, q_empty
  <2> QED
    BY <1>4, <2>1, Zenon DEF F!TakeRefused, q_remove_empty
<1>5. ASSUME UNCHANGED vars
      PROVE  UNCHANGED F!fifoVars
  BY <1>5, RefusedKeeps, Zenon DEF F!fifoVars, vars
<1> QED
  BY <1>1, <1>2, <1>3, <1>4, <1>5 DEF Next, F!FifoNext

(***************************************************************************)
(* q_add and q_remove make a first-in first-out queue of max_size elements *)
(***************************************************************************)
THEOREM QueueIsFifo ==
  Spec => ImplementsFifo
<1>1. q_init => F!FifoInit
  BY QInvInit, Zenon DEF q_init, F!FifoInit
<1> QED
  BY QInvInit, QInvStep, CallIsFifoStep, <1>1, PTL DEF Spec, ImplementsFifo, F!Spec
=============================================================================
