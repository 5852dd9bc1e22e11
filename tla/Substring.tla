----------------------------- MODULE Substring -----------------------------
(***************************************************************************)
(* The search of substring.c over a stream that arrives in pieces: one     *)
(* action per turn of the loop of sstring_compute.                         *)
(***************************************************************************)
EXTENDS Integers, Sequences

CONSTANTS
  Chars,          \* the characters of patterns and texts
  Patterns,       \* thor_config->pattern is one of these
  MAX_OCCURANCE,
  INT_MAX,        \* the largest int: what locations holds
  MaxPiece,       \* bound: the longest piece
  MaxText         \* bound: the longest stream

ASSUME SubstringAssumption ==
  /\ Patterns \subseteq Seq(Chars) \ {<<>>}
  /\ {MAX_OCCURANCE, INT_MAX, MaxPiece, MaxText} \subseteq Nat \ {0}

VARIABLES
  ss,    \* the sstring; count is the length of locations
  data,  \* what the present call has still to look at
  text   \* history: what was looked at so far

vars == <<ss, data, text>>

total_states == Len(ss.pattern)

TypeOK ==
  /\ ss \in [pattern : Patterns, state : 0 .. (total_states - 1), total : Nat,
             locations : Seq((- INT_MAX - 1) .. INT_MAX), done : BOOLEAN]
  /\ data \in Seq(Chars)
  /\ text \in Seq(Chars)

\* Mutant: locations are not cut down to an int.
int_Wide(n) == n

\* A long long int assigned to an int keeps its low bits.
int(n) == ((n + INT_MAX + 1) % (2 * (INT_MAX + 1))) - (INT_MAX + 1)

sstring_init(pattern) ==
  [pattern |-> pattern, state |-> 0, total |-> 0, locations |-> <<>>, done |-> FALSE]

Init ==
  /\ \E pattern \in Patterns : ss = sstring_init(pattern)
  /\ data = <<>>
  /\ text = <<>>

\* Mutant: a call starts over.
Call_StartsOver(piece) ==
  /\ data = <<>>
  /\ Len(text) + Len(piece) <= MaxText
  /\ data' = piece
  /\ ss' = [ss EXCEPT !.state = 0]
  /\ UNCHANGED text

\* sstring_compute is called with the next piece of the stream.
Call(piece) ==
  /\ data = <<>>
  /\ Len(text) + Len(piece) <= MaxText
  /\ data' = piece
  /\ UNCHANGED <<ss, text>>

\* It returns before the end of the piece: there is no room for a location.
Return ==
  /\ data # <<>>
  /\ ss.done
  /\ data' = <<>>
  /\ UNCHANGED <<ss, text>>

\* The loop turns: i and total go up.
Turn ==
  /\ data # <<>>
  /\ ~ ss.done
  /\ data' = Tail(data)
  /\ text' = Append(text, Head(data))

Expected == ss.pattern[ss.state + 1]

Matches ==
  /\ Turn
  /\ Head(data) = Expected
  /\ ss.state + 1 < total_states
  /\ ss' = [ss EXCEPT !.state = @ + 1, !.total = @ + 1]

\* Mutant: one more.
AtLimit_Late(count) == count > MAX_OCCURANCE

AtLimit(count) == MAX_OCCURANCE = count

\* The last state is reached: the location is stored, and counted.
Completes ==
  /\ Turn
  /\ Head(data) = Expected
  /\ ss.state + 1 = total_states
  /\ ss' = [ss EXCEPT
              !.state = 0,
              !.total = @ + 1,
              !.locations = Append(@, int(ss.total - (total_states - 1))),
              !.done = AtLimit(Len(ss.locations) + 1)]

\* Mutant: a mismatch leaves the state alone.
Differs_KeepsState ==
  /\ Turn
  /\ Head(data) # Expected
  /\ ss' = [ss EXCEPT !.total = @ + 1]

\* A mismatch: the next byte is compared with the first of the pattern.
Differs ==
  /\ Turn
  /\ Head(data) # Expected
  /\ ss' = [ss EXCEPT !.state = 0, !.total = @ + 1]

\* The bounds of the model are reached.
Terminated ==
  /\ data = <<>>
  /\ Len(text) >= MaxText
  /\ UNCHANGED vars

Pieces == UNION {[1 .. n -> Chars] : n \in 1 .. MaxPiece}

Next ==
  \/ \E piece \in Pieces : Call(piece)
  \/ Return \/ Matches \/ Completes \/ Differs \/ Terminated

Spec == Init /\ [][Next]_vars
-----------------------------------------------------------------------------
\* The pattern, or its first k bytes, stand in the text after the first p bytes.
Stands(k, p) ==
  p + k <= Len(text) /\ SubSeq(text, p + 1, p + k) = SubSeq(ss.pattern, 1, k)

Occurrences == {p \in 0 .. Len(text) : Stands(total_states, p)}
Reported == {ss.locations[n] : n \in DOMAIN ss.locations}

(***************************************************************************)
(* Wherever the stream is cut into pieces, each location names a place     *)
(* where the pattern stands, as far as an int can name it, and while ints  *)
(* reach, the locations come in order and do not overlap.                  *)
(***************************************************************************)
ReportsOccurrences ==
  /\ \A n \in DOMAIN ss.locations : \E p \in Occurrences : ss.locations[n] = int(p)
  /\ Len(text) <= INT_MAX =>
       \A m, n \in DOMAIN ss.locations :
         m < n => ss.locations[m] + total_states <= ss.locations[n]

(***************************************************************************)
(* An occurrence is missed only when bytes right before it look like the   *)
(* beginning of the pattern: the search does not go back after a mismatch, *)
(* nor look within what it has reported.                                   *)
(***************************************************************************)
MissesOnlyAfterPrefix ==
  \A p \in Occurrences :
    \/ int(p) \in Reported
    \/ \E k \in 1 .. (total_states - 1) : k <= p /\ Stands(k, p - k)

(***************************************************************************)
(* sstring_init has room for MAX_OCCURANCE locations: no more are stored,  *)
(* and the search stops exactly when that many are.                        *)
(***************************************************************************)
StopsAtLimit ==
  /\ Len(ss.locations) <= MAX_OCCURANCE
  /\ ss.done <=> Len(ss.locations) = MAX_OCCURANCE

(***************************************************************************)
(* README.md says that substring.c finds a string in a stream of data: a   *)
(* pattern that occurs is found.                                           *)
(***************************************************************************)
FindsPattern == Occurrences # {} => ss.locations # <<>>
=============================================================================
