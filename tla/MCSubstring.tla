---------------------------- MODULE MCSubstring ----------------------------
(***************************************************************************)
(* The patterns for the runs of Substring.                                 *)
(***************************************************************************)
EXTENDS Substring

ShortPatterns == UNION {[1 .. n -> Chars] : n \in 1 .. 3}
=============================================================================
