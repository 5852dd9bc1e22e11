------------------------------ MODULE FileCopy ------------------------------
(***************************************************************************)
(* What README.md promises of Jane and Thor together, without processes,   *)
(* memory or messages: the output file receives the chunks of the input    *)
(* file in order, and when the copy is finished none is missing.  The      *)
(* surroundings decide when a chunk may be begun and not finished, or      *)
(* repeated, and when the promise is off: the refinement says what they    *)
(* stand for.                                                              *)
(***************************************************************************)
EXTENDS Integers, Sequences, SequencesExt

CONSTANT NChunks   \* the chunks of the input file

VARIABLES
  output,
  finished,
  repeats,    \* a chunk may be cut short, and appended again
  disturbed   \* something happened against which nothing is promised

vars == <<output, finished>>

Whole(c) == [chunk |-> c, whole |-> TRUE]
PartOf(c) == [chunk |-> c, whole |-> FALSE]

\* The end of the output; an empty one counts as the whole of chunk 0.
Latest == IF output = <<>> THEN Whole(0) ELSE Last(output)

Init ==
  /\ output = <<>>
  /\ finished = FALSE

CopyNext ==
  /\ Latest.whole
  /\ Latest.chunk < NChunks
  /\ output' = Append(output, Whole(Latest.chunk + 1))
  /\ UNCHANGED finished

CopyAgain ==
  /\ repeats
  /\ ~ finished
  /\ output # <<>>
  /\ output' = Append(output, Whole(Latest.chunk))
  /\ UNCHANGED finished

\* A part of the chunk that is next, or once more of the last one.
CutShort ==
  /\ repeats'
  /\ ~ finished
  /\ \E c \in {Latest.chunk} \cup (IF Latest.whole THEN {Latest.chunk + 1} ELSE {}) :
       /\ c \in 1 .. NChunks
       /\ output' = Append(output, PartOf(c))
  /\ UNCHANGED finished

Finish ==
  /\ ~ finished
  /\ Latest = Whole(NChunks)
  /\ finished' = TRUE
  /\ UNCHANGED output

Next == CopyNext \/ CopyAgain \/ CutShort \/ Finish \/ disturbed'

\* Safety alone, and with the promise that an undisturbed copy gets finished.
Spec == Init /\ [][Next]_vars
FairSpec ==
  /\ Spec
  /\ WF_vars(~ disturbed /\ CopyNext)
  /\ WF_vars(~ disturbed /\ Finish)
=============================================================================
