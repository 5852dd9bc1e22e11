-------------------------------- MODULE Queue --------------------------------
(***************************************************************************)
(* The ring buffer of q.c, which the threaded producer puts the areas it   *)
(* has filled in.  Its callers make any sequence of q_add and q_remove.    *)
(***************************************************************************)
EXTENDS Integers

CONSTANTS
  Lines,     \* the pointers that are queued
  NoElem,    \* a null pointer
  max_size   \* q->max_size

ASSUME QueueAssumption ==
  /\ max_size \in Nat \ {0}
  /\ NoElem \notin Lines

VARIABLES
  e,          \* q->e
  head,       \* q->head: where the next element goes
  tail,       \* q->tail: where the oldest element is
  curr_size,  \* q->curr_size
  added,      \* what the last q_add returned
  removed     \* what the last q_remove returned

vars == <<e, head, tail, curr_size, added, removed>>

Slots == 0 .. max_size - 1

\* Mutant: the counter wraps one slot late.
add_counter_Late(a) == IF a + 1 > max_size THEN 0 ELSE a + 1

add_counter(a) == IF a + 1 >= max_size THEN 0 ELSE a + 1

q_init ==
  /\ e = [i \in Slots |-> NoElem]
  /\ head = 0
  /\ tail = 0
  /\ curr_size = 0
  /\ added = FALSE
  /\ removed = NoElem

q_full == curr_size = max_size
q_empty == curr_size = 0

q_add(line) ==
  /\ ~ q_full
  /\ e' = [e EXCEPT ![head] = line]
  /\ head' = add_counter(head)
  /\ curr_size' = curr_size + 1
  /\ added' = TRUE
  /\ UNCHANGED <<tail, removed>>

q_add_full ==
  /\ q_full
  /\ added' = FALSE
  /\ UNCHANGED <<e, head, tail, curr_size, removed>>

\* The slot keeps the element that was in it.
q_remove ==
  /\ ~ q_empty
  /\ removed' = e[tail]
  /\ tail' = add_counter(tail)
  /\ curr_size' = curr_size - 1
  /\ UNCHANGED <<e, head, added>>

q_remove_empty ==
  /\ q_empty
  /\ removed' = NoElem
  /\ UNCHANGED <<e, head, tail, curr_size, added>>

Next == (\E line \in Lines : q_add(line)) \/ q_add_full \/ q_remove \/ q_remove_empty

Spec == q_init /\ [][Next]_vars
-----------------------------------------------------------------------------
\* The slot of the k-th oldest element, counted from 0.
SlotOf(k) == IF tail + k < max_size THEN tail + k ELSE tail + k - max_size

\* The elements in the ring, oldest first.
Queued == [k \in 1 .. curr_size |-> e[SlotOf(k - 1)]]

TypeOK ==
  /\ e \in [Slots -> Lines \cup {NoElem}]
  /\ head \in Slots
  /\ tail \in Slots
  /\ curr_size \in 0 .. max_size
  /\ added \in BOOLEAN
  /\ removed \in Lines \cup {NoElem}

(***************************************************************************)
(* The three counters agree: head is curr_size slots past tail, round the  *)
(* ring, also when it is full or empty and the two are equal; and the      *)
(* slots between them hold elements.                                       *)
(***************************************************************************)
CountersAgree ==
  /\ head = SlotOf(curr_size)
  /\ \A k \in 1 .. curr_size : Queued[k] \in Lines

F == INSTANCE Fifo WITH Elems <- Lines, Nothing <- NoElem, Capacity <- max_size,
                        contents <- Queued, accepted <- added, taken <- removed

\* q_add and q_remove make a first-in first-out queue of max_size elements.
ImplementsFifo == F!Spec
=============================================================================
