----------------------------- MODULE RadixSort -----------------------------
(***************************************************************************)
(* radix_sort of radix_sort.c pass by pass: a counting sort on each        *)
(* decimal digit, from the lowest to the highest of the largest value.     *)
(***************************************************************************)
EXTENDS ArrayOps

findLargestNum(a) ==
  CHOOSE v \in {-1} \cup {a[i] : i \in DOMAIN a} :
    v >= -1 /\ \A i \in DOMAIN a : a[i] <= v

Digit(v, significantDigit) == (v \div significantDigit) % 10

\* The buckets after the running sum: how many values have a digit up to d.
Bucket(a, significantDigit, d) ==
  Cardinality({i \in DOMAIN a : Digit(a[i], significantDigit) <= d})

\* Mutant: semiSorted is filled from the first index on.
Slot_Forward(a, significantDigit, i) ==
  Bucket(a, significantDigit, Digit(a[i], significantDigit)) - 1
  - Cardinality({j \in 0 .. (i - 1) :
                   Digit(a[j], significantDigit) = Digit(a[i], significantDigit)})

\* Where a[i] goes: a bucket is filled downwards, by the last index first.
Slot(a, significantDigit, i) ==
  Bucket(a, significantDigit, Digit(a[i], significantDigit)) - 1
  - Cardinality({j \in DOMAIN a :
                   /\ j > i
                   /\ Digit(a[j], significantDigit) = Digit(a[i], significantDigit)})

semiSorted(a, significantDigit) ==
  [k \in DOMAIN a |-> a[CHOOSE i \in DOMAIN a : Slot(a, significantDigit, i) = k]]

\* The while loop: a turn for each digit of the largest number.  No block number
\* has more than six.
Turn(a, largestNum, significantDigit) ==
  IF largestNum \div significantDigit > 0 THEN semiSorted(a, significantDigit) ELSE a

radix_sort_passes(a) ==
  LET place(b, significantDigit) == Turn(b, findLargestNum(a), significantDigit)
  IN  place(place(place(place(place(place(a, 1), 10), 100), 1000), 10000), 100000)
=============================================================================
