------------------------------ MODULE ArrayOps ------------------------------
(***************************************************************************)
(* The integer-array helpers of radix_sort.c, as operators.  A C array of  *)
(* `size' ints is a function with domain 0 .. size-1; an operator returns  *)
(* the array the C function leaves behind.  The arrays of this program     *)
(* hold block numbers: natural numbers, 0 marking an empty slot.           *)
(***************************************************************************)
EXTENDS Integers, FiniteSets

\* The indices of an array.
Indices(size) == 0 .. (size - 1)

\* How many slots of a hold a value below v.
Below(a, v) == Cardinality({i \in DOMAIN a : a[i] < v})

(***************************************************************************)
(* radix_sort leaves the values in ascending order.  The value at index i  *)
(* of the result is the one with at most i smaller values in the array and *)
(* more than i values not above it.  RadixSort has the digit-by-digit        *)
(* algorithm that computes this.                                           *)
(***************************************************************************)
radix_sort(a) ==
  [i \in DOMAIN a |->
     CHOOSE v \in {a[j] : j \in DOMAIN a} :
        Below(a, v) <= i /\ i < Below(a, v + 1)]

(***************************************************************************)
(* move_array shifts the array left over its leading zeros and fills the   *)
(* end with zeros.  Zeros that are not leading stay where they are.        *)
(***************************************************************************)
LeadingZeros(a) ==
  Cardinality({i \in DOMAIN a : \A j \in 0 .. i : a[j] = 0})

move_array(a) ==
  [i \in DOMAIN a |->
     IF i + LeadingZeros(a) \in DOMAIN a THEN a[i + LeadingZeros(a)] ELSE 0]

\* The first index that holds x, and -1 when there is none: binarySearch is
\* built without BIN_SEARCH, so its body is a linear scan.
binarySearch(a, x) ==
  IF \E i \in DOMAIN a : a[i] = x
  THEN CHOOSE i \in DOMAIN a : a[i] = x /\ \A j \in 0 .. (i - 1) : a[j] # x
  ELSE -1
=============================================================================
