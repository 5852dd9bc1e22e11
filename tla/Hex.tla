-------------------------------- MODULE Hex --------------------------------
(***************************************************************************)
(* The hexadecimal text of util.c.  Jane sends it in place of the hash and *)
(* Thor compares the two texts with strcmp; Realm compares the hashes.     *)
(***************************************************************************)
EXTENDS Integers, Sequences

Bytes == 0 .. 255

\* table: the digit of a nibble.
table(num) ==
  <<"0", "1", "2", "3", "4", "5", "6", "7", "8", "9", "A", "B", "C", "D", "E", "F">>[num + 1]

\* toDec: two digits for each byte, the high nibble first.
toDec(b) ==
  [j \in 1 .. 2 * Len(b) |->
     IF j % 2 = 1 THEN table(b[(j + 1) \div 2] \div 16) ELSE table(b[j \div 2] % 16)]
=============================================================================
