-------------------------------- MODULE Fifo --------------------------------
(***************************************************************************)
(* A bounded first-in first-out queue: what Queue is used as.              *)
(***************************************************************************)
EXTENDS Naturals, Sequences

CONSTANTS
  Elems,     \* what can be queued
  Nothing,   \* what taking from an empty queue gives
  Capacity   \* how many elements fit

VARIABLES
  contents,  \* the queued elements, oldest first
  accepted,  \* whether the last element offered was taken
  taken      \* what the last removal gave

fifoVars == <<contents, accepted, taken>>

FifoInit ==
  /\ contents = <<>>
  /\ accepted = FALSE
  /\ taken = Nothing

Put(x) ==
  /\ Len(contents) < Capacity
  /\ contents' = Append(contents, x)
  /\ accepted' = TRUE
  /\ UNCHANGED taken

PutRefused ==
  /\ Len(contents) = Capacity
  /\ accepted' = FALSE
  /\ UNCHANGED <<contents, taken>>

Take ==
  /\ contents # <<>>
  /\ contents' = Tail(contents)
  /\ taken' = Head(contents)
  /\ UNCHANGED accepted

TakeRefused ==
  /\ contents = <<>>
  /\ taken' = Nothing
  /\ UNCHANGED <<contents, accepted>>

FifoNext == (\E x \in Elems : Put(x)) \/ PutRefused \/ Take \/ TakeRefused

Spec == FifoInit /\ [][FifoNext]_fifoVars
=============================================================================
