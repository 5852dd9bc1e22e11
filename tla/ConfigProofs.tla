---------------------------- MODULE ConfigProofs ----------------------------
(***************************************************************************)
(* That ini_parser.c reads what is written, for all files.                 *)
(***************************************************************************)
EXTENDS ConfigInv, FiniteSetTheorems, SequenceTheorems, WellFoundedInduction, TLAPS

-----------------------------------------------------------------------------
(***************************************************************************)
(* Induction up to N, for a set in place of a predicate, and recursion up  *)
(* to N, for a function in place of an operator.                           *)
(***************************************************************************)
LEMMA UpTo ==
  ASSUME NEW N \in Nat, NEW T, 0 \in T,
         \A n \in 1 .. N : n - 1 \in T => n \in T
  PROVE  0 .. N \subseteq T
<1> DEFINE Bad == {n \in 0 .. N : n \notin T}
<1> SUFFICES ASSUME Bad # {}
             PROVE  FALSE
  OBVIOUS
<1>1. Bad \subseteq Nat
  OBVIOUS
<1>2. PICK x \in Bad : \A y \in Bad : ~ (<<y, x>> \in OpToRel(<, Nat))
  <2> HIDE DEF Bad
  <2> QED
    BY <1>1, NatLessThanWellFounded, WFMin
<1>3. x \in 1 .. N /\ x - 1 \in 0 .. N /\ x - 1 < x
  <2>1. x \in 0 .. N /\ x \notin T
    OBVIOUS
  <2>2. x # 0
    BY <2>1
  <2> QED
    BY <2>1, <2>2
<1>4. <<x - 1, x>> \in OpToRel(<, Nat)
  <2>1. x - 1 \in Nat /\ x \in Nat
    BY <1>3
  <2> QED
    BY <1>3, <2>1 DEF OpToRel
<1> QED
  BY <1>2, <1>3, <1>4

Recursive(f, N, base, step) == f[0] = base /\ \A n \in 1 .. N : f[n] = step[n][f[n - 1]]

\* A function that follows the steps exists: the one a recursive definition chooses.
LEMMA RecursionUpTo ==
  ASSUME NEW N \in Nat, NEW S, NEW base \in S, NEW step \in [1 .. N -> [S -> S]]
  PROVE  \E f \in [0 .. N -> S] : Recursive(f, N, base, step)
<1> DEFINE Is(f, m) == f \in [0 .. m -> S] /\ Recursive(f, m, base, step)
           T == {m \in 0 .. N : \E f : Is(f, m)}
<1>1. 0 \in T
  <2>1. Is([n \in 0 .. 0 |-> base], 0)
    BY DEF Recursive
  <2> HIDE DEF Is
  <2> QED
    BY <2>1
<1>2. ASSUME NEW m \in 1 .. N, m - 1 \in T
      PROVE  m \in T
  <2>1. PICK g : Is(g, m - 1)
    <3> HIDE DEF Is
    <3> QED
      BY <1>2
  <2>2. m - 1 \in 0 .. (m - 1) /\ g[m - 1] \in S /\ step[m] \in [S -> S]
    BY <2>1 DEF Recursive
  <2>3. step[m][g[m - 1]] \in S
    BY <2>2
  <2> DEFINE f == [n \in 0 .. m |-> IF n < m THEN g[n] ELSE step[m][g[m - 1]]]
  <2>4. f \in [0 .. m -> S]
    <3>1. \A n \in 0 .. m : n < m => n \in 0 .. (m - 1) /\ g[n] \in S
      BY <2>1
    <3> QED
      BY <2>3, <3>1
  <2>5. f[0] = base
    BY <2>1 DEF Recursive
  <2>6. ASSUME NEW n \in 1 .. m
        PROVE  f[n] = step[n][f[n - 1]]
    <3>1. f[n - 1] = g[n - 1]
      OBVIOUS
    <3>2. CASE n = m
      <4>1. f[n] = step[m][g[m - 1]]
        BY <3>2
      <4> QED
        BY <3>1, <3>2, <4>1
    <3>3. CASE n # m
      <4>1. n \in 1 .. (m - 1) /\ f[n] = g[n]
        BY <3>3
      <4>2. g[n] = step[n][g[n - 1]]
        BY <2>1, <4>1 DEF Recursive
      <4> QED
        BY <3>1, <4>1, <4>2
    <3> QED
      BY <3>2, <3>3
  <2>7. Is(f, m)
    <3> HIDE DEF f
    <3> QED
      BY <2>4, <2>5, <2>6 DEF Recursive
  <2> HIDE DEF Is, f
  <2> QED
    BY <2>7
<1>3. N \in T
  <2> HIDE DEF Is, T
  <2>1. 0 .. N \subseteq T
    BY <1>1, <1>2, UpTo
  <2> QED
    BY <2>1
<1> QED
  <2>1. PICK f : Is(f, N)
    <3> HIDE DEF Is
    <3> QED
      BY <1>3
  <2> QED
    BY <2>1

(***************************************************************************)
(* The two recursive functions of Config are what they are defined to be.  *)
(***************************************************************************)
LEMMA SolidsRecursion ==
  ASSUME NEW l \in Line
  PROVE  /\ Solids(l)[0] = <<>>
         /\ \A n \in 1 .. Len(l) :
              Solids(l)[n] = IF l[n] = BLANK THEN Solids(l)[n - 1]
                             ELSE Append(Solids(l)[n - 1], l[n])
<1> DEFINE Is(f) == f = [n \in 0 .. Len(l) |->
                           IF n = 0 THEN <<>>
                           ELSE IF l[n] = BLANK THEN f[n - 1] ELSE Append(f[n - 1], l[n])]
           step == [n \in 1 .. Len(l) |->
                      [t \in Line |-> IF l[n] = BLANK THEN t ELSE Append(t, l[n])]]
<1>1. step \in [1 .. Len(l) -> [Line -> Line]]
  <2>1. ASSUME NEW t \in Line, NEW n \in 1 .. Len(l)
        PROVE  (IF l[n] = BLANK THEN t ELSE Append(t, l[n])) \in Line
    <3>1. l[n] \in Chars
      BY DEF Line
    <3> QED
      BY <3>1, AppendProperties DEF Line
  <2> QED
    BY <2>1
<1>2. \A t \in Line, n \in 1 .. Len(l) :
        step[n][t] = IF l[n] = BLANK THEN t ELSE Append(t, l[n])
  OBVIOUS
<1> HIDE DEF step
<1>3. PICK f \in [0 .. Len(l) -> Line] : Recursive(f, Len(l), <<>>, step)
  <2>1. <<>> \in Line /\ Len(l) \in Nat
    BY DEF Line
  <2> HIDE DEF Is
  <2> QED
    BY <1>1, <2>1, RecursionUpTo
<1>4. Is(f)
  <2>1. ASSUME NEW n \in 0 .. Len(l)
        PROVE  f[n] = IF n = 0 THEN <<>>
                      ELSE IF l[n] = BLANK THEN f[n - 1] ELSE Append(f[n - 1], l[n])
    <3>1. CASE n = 0
      BY <1>3, <3>1 DEF Recursive
    <3>2. CASE n # 0
      <4>1. n \in 1 .. Len(l) /\ n - 1 \in 0 .. Len(l)
        BY <3>2
      <4>2. f[n] = step[n][f[n - 1]] /\ f[n - 1] \in Line
        BY <1>3, <4>1 DEF Recursive
      <4> QED
        BY <1>2, <3>2, <4>1, <4>2
    <3> QED
      BY <3>1, <3>2
  <2>2. f = [n \in 0 .. Len(l) |-> f[n]]
    BY <1>3
  <2>3. [n \in 0 .. Len(l) |-> f[n]] =
          [n \in 0 .. Len(l) |->
             IF n = 0 THEN <<>> ELSE IF l[n] = BLANK THEN f[n - 1] ELSE Append(f[n - 1], l[n])]
    BY <2>1, Zenon
  <2> QED
    BY <2>2, <2>3
<1>5. Solids(l) = CHOOSE h : Is(h)
  BY DEF Solids
<1>6. Is(Solids(l))
  <2> HIDE DEF Is
  <2> QED
    BY <1>4, <1>5
<1>7. Len(l) \in Nat
  BY DEF Line
<1>8. 0 \in 0 .. Len(l) /\ \A n \in 1 .. Len(l) : n \in 0 .. Len(l) /\ n # 0
  BY <1>7
<1> QED
  BY <1>6, <1>8

\* A set of numbers that is not empty has a least one.
LEMMA MinIsLeast ==
  ASSUME NEW I, I \subseteq Nat, I # {}
  PROVE  Min(I) \in I /\ \A y \in I : Min(I) <= y
<1>1. PICK x \in I : \A y \in I : ~ (<<y, x>> \in OpToRel(<, Nat))
  BY NatLessThanWellFounded, WFMin
<1>2. ASSUME NEW y \in I
      PROVE  x <= y
  <2>1. x \in Nat /\ y \in Nat
    OBVIOUS
  <2>2. ~ (y < x)
    BY <1>1, <2>1 DEF OpToRel
  <2> QED
    BY <2>1, <2>2
<1> QED
  BY <1>2 DEF Min

\* atoi gives a number, for every text.
LEMMA AtoiIsNumber ==
  ASSUME NEW t \in Text
  PROVE  atoi(t) \in Nat
<1> DEFINE End == SelectInSeq(t, LAMBDA ch : ~ IsDigit(ch))
           digits == IF End = 0 THEN Len(t) ELSE End - 1
           d(n) == CHOOSE d \in 0 .. 9 : Digits[d + 1] = t[n]
           Is(f) == f = [n \in 0 .. digits |-> IF n = 0 THEN 0 ELSE 10 * f[n - 1] + d(n)]
           step == [n \in 1 .. digits |-> [v \in Nat |-> 10 * v + d(n)]]
<1>1. atoi(t) = (CHOOSE f : Is(f))[digits]
  BY DEF atoi
<1>2. digits \in Nat /\ \A n \in 1 .. digits : IsDigit(t[n])
  <2> DEFINE I == {i \in 1 .. Len(t) : ~ IsDigit(t[i])}
  <2>1. End = IF I # {} THEN Min(I) ELSE 0
    BY DEF SelectInSeq
  <2> HIDE DEF End
  <2>2. Len(t) \in Nat
    BY DEF Text
  <2>3. CASE I = {}
    <3>1. digits = Len(t)
      BY <2>1, <2>3
    <3> QED
      BY <2>2, <2>3, <3>1
  <2>4. CASE I # {}
    <3>1. Min(I) \in I /\ \A y \in I : Min(I) <= y
      <4>1. I \subseteq Nat
        OBVIOUS
      <4> HIDE DEF I
      <4> QED
        BY <2>4, <4>1, MinIsLeast
    <3>2. digits = Min(I) - 1 /\ Min(I) \in 1 .. Len(t)
      BY <2>1, <2>4, <3>1
    <3>3. ASSUME NEW n \in 1 .. digits
          PROVE  IsDigit(t[n])
      <4>1. n \in 1 .. Len(t) /\ ~ (Min(I) <= n)
        BY <2>2, <3>2
      <4> QED
        BY <3>1, <4>1
    <3>4. digits \in Nat
      BY <2>2, <3>2
    <3> HIDE DEF digits
    <3> QED
      BY <3>3, <3>4
  <2> QED
    BY <2>3, <2>4
<1> HIDE DEF digits
<1>3. \A n \in 1 .. digits : d(n) \in 0 .. 9
  BY <1>2 DEF IsDigit
<1> HIDE DEF d
<1>4. step \in [1 .. digits -> [Nat -> Nat]]
  BY <1>3
<1>5. \A v \in Nat, n \in 1 .. digits : step[n][v] = 10 * v + d(n)
  OBVIOUS
<1> HIDE DEF step
<1>6. PICK f \in [0 .. digits -> Nat] : Recursive(f, digits, 0, step)
  <2> HIDE DEF Is
  <2> QED
    BY <1>2, <1>4, RecursionUpTo
<1>7. Is(f)
  <2>1. ASSUME NEW n \in 0 .. digits
        PROVE  f[n] = IF n = 0 THEN 0 ELSE 10 * f[n - 1] + d(n)
    <3>1. CASE n = 0
      BY <1>6, <3>1 DEF Recursive
    <3>2. CASE n # 0
      <4>1. n \in 1 .. digits /\ n - 1 \in 0 .. digits
        BY <1>2, <3>2
      <4>2. f[n] = step[n][f[n - 1]] /\ f[n - 1] \in Nat
        BY <1>6, <4>1 DEF Recursive
      <4> QED
        BY <1>5, <3>2, <4>1, <4>2
    <3> QED
      BY <3>1, <3>2
  <2>2. f = [n \in 0 .. digits |-> f[n]]
    BY <1>6
  <2>3. [n \in 0 .. digits |-> f[n]] =
          [n \in 0 .. digits |-> IF n = 0 THEN 0 ELSE 10 * f[n - 1] + d(n)]
    BY <2>1, Zenon
  <2> QED
    BY <2>2, <2>3
<1>8. Is(CHOOSE h : Is(h))
  <2> HIDE DEF Is
  <2> QED
    BY <1>7
<1> DEFINE value == CHOOSE h : Is(h)
<1>9. value = [n \in 0 .. digits |-> IF n = 0 THEN 0 ELSE 10 * value[n - 1] + d(n)]
  BY <1>8
<1> HIDE DEF value, Is
<1> DEFINE T == {n \in 0 .. digits : value[n] \in Nat}
<1>10. 0 .. digits \subseteq T
  <2>1. 0 \in T
    BY <1>2, <1>9
  <2>2. ASSUME NEW n \in 1 .. digits, n - 1 \in T
        PROVE  n \in T
    <3>1. n \in 0 .. digits /\ n # 0 /\ value[n - 1] \in Nat /\ d(n) \in Nat
      BY <1>3, <2>2
    <3>2. value[n] = 10 * value[n - 1] + d(n)
      BY <1>9, <3>1
    <3> QED
      BY <3>1, <3>2
  <2> HIDE DEF T
  <2> QED
    BY <1>2, <2>1, <2>2, UpTo
<1>11. digits \in T
  BY <1>2, <1>10
<1> QED
  BY <1>1, <1>11 DEF value

-----------------------------------------------------------------------------
(***************************************************************************)
(* Types.                                                                  *)
(***************************************************************************)
LEMMA LinesTyped ==
  ASSUME Typed
  PROVE  /\ lines \in Seq(Line)
         /\ \A i \in DOMAIN lines : lines[i] \in Line
  BY ConfigAssumption DEF Typed, ReadTyped, PositionTyped, Line

\* fgetc takes a character of the line, or the end of it.
LEMMA GetsChar ==
  ASSUME Typed, NEW ch, Gets(ch)
  PROVE  /\ row \in DOMAIN lines /\ ch = Char
         /\ \/ /\ ch # NL /\ InLine /\ ch = lines[row][col] /\ ch \in Chars
               /\ col \in DOMAIN lines[row]
               /\ row' = row /\ col' = col + 1
            \/ /\ ch = NL /\ ~ InLine /\ col = Len(lines[row]) + 1
               /\ row' = row + 1 /\ col' = 1
<1>1. row \in DOMAIN lines /\ lines[row] \in Seq(Chars) /\ lines \in Seq(Line)
  BY LinesTyped DEF Gets, AtEnd, Typed, ReadTyped, PositionTyped, Line
<1>2. col \in Nat \ {0} /\ col <= Len(lines[row]) + 1
  BY <1>1 DEF Typed, ReadTyped, PositionTyped
<1>3. CASE InLine
  <2>1. col \in DOMAIN lines[row] /\ lines[row][col] \in Chars
    BY <1>1, <1>2, <1>3 DEF InLine
  <2> QED
    BY <1>1, <1>3, <2>1, ConfigAssumption DEF Gets, Char
<1>4. CASE ~ InLine
  BY <1>1, <1>2, <1>4 DEF Gets, Char, InLine
<1> QED
  BY <1>3, <1>4

\* fgetc stays within the file.
LEMMA GetsTyped ==
  ASSUME Typed, NEW ch, Gets(ch), UNCHANGED file
  PROVE  PositionTyped'
<1>1. row \in DOMAIN lines /\ lines' = lines /\ newline' = newline /\ lines \in Seq(Line)
  BY GetsChar, LinesTyped DEF file
<1>2. CASE ch # NL
  <2>1. row' = row /\ col' = col + 1 /\ col \in DOMAIN lines[row]
    BY <1>2, GetsChar
  <2>2. lines[row] \in Seq(Chars)
    BY <1>1 DEF Line
  <2> QED
    BY <1>1, <2>1, <2>2 DEF Typed, ReadTyped, PositionTyped
<1>3. CASE ch = NL
  <2>1. row' = row + 1 /\ col' = 1
    BY <1>3, GetsChar
  <2>2. row' <= Len(lines) => lines[row'] \in Seq(Chars)
    BY <1>1, <2>1 DEF Line
  <2> QED
    BY <1>1, <2>1, <2>2 DEF Typed, ReadTyped, PositionTyped
<1> QED
  BY <1>2, <1>3

\* A new section is one.
LEMMA GetSectionTyped ==
  ASSUME Typed, NEW name \in Text, get_section(name)
  PROVE  /\ sections' \in Seq(SectionRecords)
         /\ place' \in {place, "stopped"}
<1>1. [name |-> name, row |-> row, pairs |-> <<>>] \in SectionRecords
  BY DEF SectionRecords, Typed, ReadTyped, PositionTyped
<1> QED
  BY <1>1 DEF get_section, Typed, ReadTyped

\* The fields of a section...
LEMMA SectionFields ==
  ASSUME NEW r \in SectionRecords
  PROVE  r.name \in Text /\ r.row \in Nat /\ r.pairs \in Seq(PairRecords)
  BY DEF SectionRecords

\* ...and of a pair.
LEMMA PairFields ==
  ASSUME NEW r \in PairRecords
  PROVE  r.key \in Text /\ r.value \in Text /\ r.row \in Nat
  BY DEF PairRecords

\* The pairs of one section change.
LEMMA NewPairsTyped ==
  ASSUME NEW q \in Seq(SectionRecords), NEW n \in DOMAIN q, NEW pairs \in Seq(PairRecords)
  PROVE  /\ [q EXCEPT ![n].pairs = pairs] \in Seq(SectionRecords)
         /\ Len([q EXCEPT ![n].pairs = pairs]) = Len(q)
<1>1. q[n] \in SectionRecords
  OBVIOUS
<1>2. [q[n] EXCEPT !.pairs = pairs] \in SectionRecords
  BY <1>1 DEF SectionRecords
<1>3. [q EXCEPT ![n].pairs = pairs] = [q EXCEPT ![n] = [q[n] EXCEPT !.pairs = pairs]]
  OBVIOUS
<1> QED
  BY <1>2, <1>3

\* add_pair changes the pairs of a section, not how many sections there are.
LEMMA AddPairTyped ==
  ASSUME Typed, NEW key \in Text, NEW value \in Text, add_pair(key, value)
  PROVE  /\ sections' \in Seq(SectionRecords)
         /\ Len(sections') = Len(sections)
         /\ place' \in {place, "stopped"}
<1>1. sections \in Seq(SectionRecords)
  BY DEF Typed, ReadTyped
<1>2. CASE sections = <<>>
  BY <1>1, <1>2 DEF add_pair
<1>3. CASE sections # <<>>
  <2> DEFINE pair == [key |-> key, value |-> value, row |-> row]
             n == Len(sections)
             pairs == Append(sections[n].pairs, pair)
  <2>1. row \in Nat
    BY DEF Typed, ReadTyped, PositionTyped
  <2>2. pair \in PairRecords
    BY <2>1 DEF PairRecords
  <2>3. n \in DOMAIN sections /\ sections[n] \in SectionRecords
    BY <1>1, <1>3
  <2>4. sections' = [sections EXCEPT ![n].pairs = pairs] /\ place' \in {place, "stopped"}
    BY <1>3 DEF add_pair
  <2> HIDE DEF pair, n
  <2>5. pairs \in Seq(PairRecords)
    <3>1. sections[n].pairs \in Seq(PairRecords)
      BY <2>3, SectionFields
    <3> QED
      BY <2>2, <3>1
  <2> HIDE DEF pairs
  <2> QED
    BY <1>1, <2>3, <2>4, <2>5, NewPairsTyped
<1> QED
  BY <1>2, <1>3

\* The type invariant of Config is a part of Typed.
LEMMA TypedType ==
  ASSUME Typed
  PROVE  TypeOK
  BY DEF Typed, ReadTyped, TypeOK

\* While the file is read the configurations stay as they are.
LEMMA ReadTypedEnough ==
  ASSUME Typed, ReadTyped', UNCHANGED conf, place # "stopped"
  PROVE  Typed'
<1>1. Fields /\ ConfTyped /\ BuffersInRange /\ conf' = conf
  BY DEF Typed
<1>2. Fields'
  BY <1>1, Zenon DEF Fields
<1>3. ConfTyped'
  BY <1>1, Zenon DEF ConfTyped
<1>4. BuffersInRange'
  BY <1>1, Zenon DEF BuffersInRange
<1> QED
  BY <1>2, <1>3, <1>4 DEF Typed

\* Each step of read_line keeps the types.
LEMMA OpenNameTyped ==
  ASSUME Typed, ReadTyped, OpenName, UNCHANGED file
  PROVE  ReadTyped'
<1>1. PositionTyped'
  BY GetsTyped DEF OpenName
<1> QED
  BY <1>1 DEF OpenName, ReadTyped

LEMMA CloseNameTyped ==
  ASSUME Typed, ReadTyped, CloseName, UNCHANGED file
  PROVE  ReadTyped'
<1>1. PositionTyped'
  BY GetsTyped DEF CloseName
<1>2. sections' \in Seq(SectionRecords) /\ place' \in {place, "stopped"}
  BY GetSectionTyped DEF CloseName, ReadTyped
<1> QED
  BY <1>1, <1>2 DEF CloseName, NewCall, NULL, Text, ReadTyped

LEMMA EqualsTyped ==
  ASSUME Typed, ReadTyped, Equals, UNCHANGED file
  PROVE  ReadTyped'
<1>1. PositionTyped'
  BY GetsTyped DEF Equals
<1> QED
  BY <1>1 DEF Equals, Text, ReadTyped

LEMMA EndOfLineTyped ==
  ASSUME Typed, ReadTyped, EndOfLine, UNCHANGED file
  PROVE  ReadTyped'
<1>1. PositionTyped'
  BY GetsTyped DEF EndOfLine
<1>2. k[1] \in Text
  BY DEF EndOfLine, NULL, ReadTyped
<1>3. sections' \in Seq(SectionRecords) /\ place' \in {place, "stopped"}
  BY <1>2, AddPairTyped DEF EndOfLine, ReadTyped
<1> QED
  BY <1>1, <1>3 DEF EndOfLine, NewCall, NULL, Text, ReadTyped

LEMMA EndOfFileTyped ==
  ASSUME Typed, ReadTyped, EndOfFile, UNCHANGED file
  PROVE  ReadTyped'
<1>1. PositionTyped'
  BY DEF EndOfFile, GetsEOF, ReadTyped, PositionTyped, position, file
<1>2. CASE mode = "line" /\ k # NULL
  <2>1. k[1] \in Text
    BY <1>2 DEF NULL, ReadTyped
  <2>2. sections' \in Seq(SectionRecords) /\ place' \in {place, "stopped"}
    BY <1>2, <2>1, AddPairTyped DEF EndOfFile, ReadTyped
  <2> QED
    BY <1>1, <1>2, <2>2 DEF EndOfFile, NewCall, NULL, Text, ReadTyped
<1>3. CASE ~ (mode = "line" /\ k # NULL)
  BY <1>1, <1>3 DEF EndOfFile, line, ReadTyped
<1> QED
  BY <1>2, <1>3

LEMMA CharTyped ==
  ASSUME Typed, ReadTyped, NEW ch, Collect(ch) \/ Skip(ch) \/ Comment(ch), UNCHANGED file
  PROVE  ReadTyped'
<1>1. Gets(ch)
  BY DEF Collect, Skip, Comment
<1>2. PositionTyped'
  BY <1>1, GetsTyped
<1>3. CASE Collect(ch)
  <2>1. ch \in Chars \cup {NL}
    BY <1>1, GetsChar
  <2>2. Append(s, ch) \in Text
    BY <2>1 DEF ReadTyped, Text
  <2> QED
    BY <1>2, <1>3, <2>2 DEF Collect, ReadTyped
<1>4. CASE Skip(ch)
  BY <1>2, <1>4 DEF Skip, line, ReadTyped
<1>5. CASE Comment(ch)
  BY <1>2, <1>5 DEF Comment, ReadTyped
<1> QED
  BY <1>3, <1>4, <1>5

\* The whole of ini_parse does.
LEMMA ParseTyped ==
  ASSUME Typed, ini_parse
  PROVE  Typed'
<1>1. UNCHANGED file /\ UNCHANGED conf /\ ReadTyped
  BY DEF ini_parse, Typed
<1>2. place = "read"
  BY DEF ini_parse, OpenName, CloseName, Equals, EndOfLine, EndOfFile, Collect, Skip, Comment,
         Gets, GetsEOF
<1>3. ReadTyped'
  BY <1>1, OpenNameTyped, CloseNameTyped, EqualsTyped, EndOfLineTyped, EndOfFileTyped, CharTyped
     DEF ini_parse
<1> QED
  BY <1>1, <1>2, <1>3, ReadTypedEnough

\* The values of one program.
FieldsTyped(name, fields) ==
  /\ DOMAIN fields = Keys[name]
  /\ \A key \in Keys[name] :
       IF key \in Numbers THEN fields[key] \in Nat
       ELSE fields[key] \in Seq(Text) /\ Len(fields[key]) <= 1

\* The two configurations, one after the other.
LEMMA FieldsTypedAll ==
  Fields /\ ConfTyped <=>
    DOMAIN conf = DOMAIN Keys /\ \A name \in DOMAIN Keys : FieldsTyped(name, conf[name])
  BY Zenon DEF Fields, ConfTyped, FieldsTyped

\* The fields the checks at the end are about.
LEMMA KeysFacts ==
  /\ DOMAIN Keys = {"PRODUCER", "CONSUMER"}
  /\ \A name \in DOMAIN Keys : "BUFFERS" \in Keys[name] /\ "port" \in Keys[name]
  /\ "USE_BUFFERS" \in Keys.PRODUCER
  /\ "DO_SEARCH" \in Keys.CONSUMER /\ "PATTERN" \in Keys.CONSUMER
  /\ Numbers = {"BUFFERS", "USE_BUFFERS", "port", "DO_SEARCH"}
  BY DEF Keys, Numbers

\* A number is not negative, and any other value is one string.
LEMMA ValueTyped ==
  ASSUME NEW key, NEW text \in Text
  PROVE  IF key \in Numbers THEN Value(key, text) \in Nat
         ELSE Value(key, text) \in Seq(Text) /\ Len(Value(key, text)) <= 1
  BY AtoiIsNumber DEF Value

\* A field that takes a value keeps its type, and the others keep their values.
LEMMA TakenTyped ==
  ASSUME NEW name \in DOMAIN Keys, NEW fields, FieldsTyped(name, fields),
         NEW key, NEW text \in Text
  PROVE  /\ FieldsTyped(name, Taken(fields, key, text))
         /\ \A other \in Keys[name] : other # key => Taken(fields, key, text)[other] = fields[other]
<1>1. CASE key \in DOMAIN fields /\ fields[key] = Unset(key)
  <2>1. Taken(fields, key, text) = [fields EXCEPT ![key] = Value(key, text)]
    BY <1>1 DEF Taken
  <2>2. IF key \in Numbers THEN Value(key, text) \in Nat
        ELSE Value(key, text) \in Seq(Text) /\ Len(Value(key, text)) <= 1
    BY ValueTyped
  <2> QED
    BY <2>1, <2>2 DEF FieldsTyped
<1>2. CASE ~ (key \in DOMAIN fields /\ fields[key] = Unset(key))
  BY <1>2 DEF Taken
<1> QED
  BY <1>1, <1>2

\* The configurations keep their types; unless the process ends, the buffers are in range.
LEMMA ApplyPairTyped ==
  ASSUME Typed, ApplyPair
  PROVE  Typed'
<1> DEFINE q == Head(sections).pairs
           name == word(Head(sections).name)
           pair == Head(q)
           key == word(pair.key)
<1>1. sections \in Seq(SectionRecords) /\ sections # <<>>
  BY DEF ApplyPair, Typed, ReadTyped
<1>2. 1 \in DOMAIN sections /\ sections[1] \in SectionRecords /\ Head(sections) = sections[1]
  BY <1>1
<1>3. q \in Seq(PairRecords) /\ q # <<>>
  BY <1>2, SectionFields DEF ApplyPair
<1>4. pair \in PairRecords /\ Tail(q) \in Seq(PairRecords)
  <2> HIDE DEF q
  <2> QED
    BY <1>3
<1>5. pair.value \in Text
  BY <1>4, PairFields
<1>6. sections' = [sections EXCEPT ![1].pairs = Tail(q)]
  BY <1>2 DEF ApplyPair
<1>7. sections' \in Seq(SectionRecords)
  <2> HIDE DEF q
  <2> QED
    BY <1>1, <1>2, <1>4, <1>6, NewPairsTyped
<1>8. UNCHANGED <<file, position, line>> /\ place = "apply"
  BY DEF ApplyPair
<1>9. IF name \in DOMAIN Keys
      THEN /\ conf' = [conf EXCEPT ![name] = Taken(@, key, pair.value)]
           /\ place' = IF key = "BUFFERS" /\ exits(conf'[name].BUFFERS) THEN "stopped" ELSE place
      ELSE UNCHANGED <<conf, place>>
  BY DEF ApplyPair
<1> HIDE DEF q, name, pair, key
<1>10. place' \in {"apply", "stopped"}
  BY <1>8, <1>9
<1>11. ReadTyped'
  BY <1>7, <1>8, <1>10 DEF Typed, ReadTyped, PositionTyped, file, position, line
<1>12. CASE name \in DOMAIN Keys
  <2>1. DOMAIN conf = DOMAIN Keys /\ \A n \in DOMAIN Keys : FieldsTyped(n, conf[n])
    BY FieldsTypedAll DEF Typed
  <2>2. conf' = [conf EXCEPT ![name] = Taken(conf[name], key, pair.value)]
    BY <1>9, <1>12
  <2>3. FieldsTyped(name, Taken(conf[name], key, pair.value))
        /\ \A other \in Keys[name] : other # key =>
             Taken(conf[name], key, pair.value)[other] = conf[name][other]
    BY <1>5, <1>12, <2>1, TakenTyped
  <2>4. DOMAIN conf' = DOMAIN Keys /\ \A n \in DOMAIN Keys : FieldsTyped(n, conf'[n])
    BY <1>12, <2>1, <2>2, <2>3
  <2>5. Fields' /\ ConfTyped'
    BY <2>4, Zenon DEF Fields, ConfTyped, FieldsTyped
  <2>6. ASSUME place' # "stopped"
        PROVE  BuffersInRange'
    <3>1. SUFFICES ASSUME NEW n \in DOMAIN Keys
                   PROVE  conf'[n].BUFFERS = 0 \/ Supported(conf'[n].BUFFERS)
      BY DEF BuffersInRange
    <3>2. conf[n].BUFFERS = 0 \/ Supported(conf[n].BUFFERS)
      BY <1>8 DEF Typed, BuffersInRange
    <3>3. CASE n = name /\ key = "BUFFERS"
      <4>1. ~ exits(conf'[n].BUFFERS)
        BY <1>9, <1>12, <2>6, <3>3
      <4>2. conf'[n].BUFFERS \in Nat
        BY <2>4, KeysFacts DEF FieldsTyped
      <4> QED
        BY <4>1, <4>2 DEF exits, Supported
    <3>4. CASE n = name /\ key # "BUFFERS"
      <4>1. conf'[n].BUFFERS = conf[n].BUFFERS
        BY <1>12, <2>1, <2>2, <2>3, <3>4, KeysFacts
      <4> QED
        BY <3>2, <4>1
    <3>5. CASE n # name
      <4>1. conf'[n] = conf[n]
        BY <2>1, <2>2, <3>5
      <4> QED
        BY <3>2, <4>1
    <3> QED
      BY <3>3, <3>4, <3>5
  <2> QED
    BY <1>11, <2>5, <2>6 DEF Typed
<1>13. CASE name \notin DOMAIN Keys
  BY <1>8, <1>9, <1>11, <1>13, ReadTypedEnough
<1> QED
  BY <1>12, <1>13

\* Every step keeps the types...
LEMMA NextTyped ==
  ASSUME Typed, [Next]_vars
  PROVE  Typed'
<1>1. CASE ini_parse
  BY <1>1, ParseTyped
<1>2. CASE ApplyPair
  BY <1>2, ApplyPairTyped
<1>3. CASE NextSection
  <2>1. sections' \in Seq(SectionRecords)
    BY <1>3 DEF NextSection, Typed, ReadTyped
  <2>2. ReadTyped'
    BY <1>3, <2>1 DEF NextSection, Typed, ReadTyped, PositionTyped, file, position, line
  <2> QED
    BY <1>3, <2>2, ReadTypedEnough DEF NextSection
<1>4. CASE Verdict
  <2>1. ReadTyped'
    BY <1>4 DEF Verdict, Typed, ReadTyped, PositionTyped, file, position, line
  <2> QED
    BY <1>4, <2>1, ReadTypedEnough DEF Verdict
<1>5. CASE UNCHANGED vars
  <2>1. ReadTyped' /\ UNCHANGED <<conf, place>>
    BY <1>5 DEF Typed, ReadTyped, PositionTyped, vars, file, position, line
  <2>2. CASE place # "stopped"
    BY <2>1, <2>2, ReadTypedEnough
  <2>3. CASE place = "stopped"
    <3>1. Fields' /\ ConfTyped'
      BY <2>1, FieldsTypedAll, Zenon DEF Typed, Fields, ConfTyped
    <3> QED
      BY <2>1, <2>3, <3>1 DEF Typed
  <2> QED
    BY <2>2, <2>3
<1> QED
  BY <1>1, <1>2, <1>3, <1>4, <1>5 DEF Next, Finished

\* ...and they hold at first.
LEMMA InitTyped ==
  ASSUME Init
  PROVE  Typed
<1>1. Files \subseteq Seq(Seq(Chars))
  BY ConfigAssumption
<1>2. PositionTyped
  BY <1>1 DEF Init, PositionTyped
<1>3. ReadTyped
  BY <1>2 DEF Init, ReadTyped, NULL, Text
<1>4. DOMAIN conf = DOMAIN Keys /\ \A name \in DOMAIN Keys : conf[name] = calloc(name)
  BY DEF Init
<1>5. \A name \in DOMAIN Keys : FieldsTyped(name, conf[name])
  <2>1. SUFFICES ASSUME NEW name \in DOMAIN Keys
                 PROVE  FieldsTyped(name, calloc(name))
    BY <1>4
  <2>2. <<>> \in Seq(Text) /\ Len(<<>>) <= 1 /\ 0 \in Nat
    OBVIOUS
  <2> QED
    BY <2>2 DEF FieldsTyped, calloc, Unset, NULL
<1>6. Fields /\ ConfTyped
  BY <1>4, <1>5, FieldsTypedAll
<1>7. BuffersInRange
  BY <1>4, KeysFacts DEF BuffersInRange, calloc, Unset
<1> QED
  BY <1>3, <1>6, <1>7 DEF Typed

-----------------------------------------------------------------------------
(***************************************************************************)
(* A line without its blanks.                                              *)
(***************************************************************************)
\* It is a line, without blanks.
LEMMA SolidsTyped ==
  ASSUME NEW l \in Line, NEW c \in 0 .. Len(l)
  PROVE  Solids(l)[c] \in Line /\ \A i \in DOMAIN Solids(l)[c] : Solids(l)[c][i] # BLANK
<1> DEFINE Good(t) == t \in Line /\ \A i \in DOMAIN t : t[i] # BLANK
           T == {n \in 0 .. Len(l) : Good(Solids(l)[n])}
<1>1. Len(l) \in Nat
  BY DEF Line
<1>2. 0 \in T
  <2>1. Solids(l)[0] = <<>>
    BY SolidsRecursion
  <2>2. Good(<<>>) /\ 0 \in 0 .. Len(l)
    BY <1>1 DEF Line
  <2> QED
    BY <2>1, <2>2
<1>3. ASSUME NEW n \in 1 .. Len(l), n - 1 \in T
      PROVE  n \in T
  <2> DEFINE t == Solids(l)[n - 1]
  <2>1. Good(t) /\ n \in 0 .. Len(l)
    BY <1>3
  <2>2. Solids(l)[n] = IF l[n] = BLANK THEN t ELSE Append(t, l[n])
    BY SolidsRecursion
  <2>3. l[n] \in Chars
    BY DEF Line
  <2>4. l[n] # BLANK => Good(Append(t, l[n]))
    <3> HIDE DEF t
    <3> QED
      BY <2>1, <2>3 DEF Line
  <2> QED
    BY <2>1, <2>2, <2>4
<1> HIDE DEF T
<1>4. 0 .. Len(l) \subseteq T
  BY <1>1, <1>2, <1>3, UpTo
<1> QED
  BY <1>4 DEF T

\* A part of the line has a part of what is left.
Starts(t, u) == Len(t) <= Len(u) /\ \A i \in 1 .. Len(t) : t[i] = u[i]

\* What is left of a part of the line stands at the beginning of what is left of more of it.
LEMMA SolidsStarts ==
  ASSUME NEW l \in Line, NEW d \in 0 .. Len(l), NEW c \in 0 .. d
  PROVE  Starts(Solids(l)[c], Solids(l)[d])
<1> DEFINE T == {n \in 0 .. Len(l) : \A m \in 0 .. n : Starts(Solids(l)[m], Solids(l)[n])}
<1>1. Len(l) \in Nat
  BY DEF Line
<1>2. \A t \in Line : Starts(t, t)
  BY DEF Starts, Line
<1>3. 0 \in T
  BY <1>1, <1>2, SolidsTyped
<1>4. ASSUME NEW n \in 1 .. Len(l), n - 1 \in T
      PROVE  n \in T
  <2>1. SUFFICES ASSUME NEW m \in 0 .. n
                 PROVE  Starts(Solids(l)[m], Solids(l)[n])
    BY <1>1
  <2>2. CASE m = n
    BY <1>1, <1>2, <2>2, SolidsTyped
  <2>3. CASE m # n
    <3> DEFINE t == Solids(l)[m]
               u == Solids(l)[n - 1]
    <3>1. m \in 0 .. (n - 1) /\ n - 1 \in 0 .. Len(l) /\ m \in 0 .. Len(l)
      BY <1>1, <2>3
    <3>2. Starts(t, u) /\ t \in Line /\ u \in Line /\ l[n] \in Chars
      BY <1>4, <3>1, SolidsTyped DEF Line
    <3>3. Solids(l)[n] = IF l[n] = BLANK THEN u ELSE Append(u, l[n])
      BY SolidsRecursion
    <3> HIDE DEF t, u
    <3>4. Starts(t, Append(u, l[n]))
      BY <3>2 DEF Starts, Line
    <3> QED
      BY <3>2, <3>3, <3>4 DEF t
  <2> QED
    BY <2>2, <2>3
<1> HIDE DEF T
<1>5. 0 .. Len(l) \subseteq T
  BY <1>1, <1>3, <1>4, UpTo
<1> QED
  BY <1>5 DEF T

-----------------------------------------------------------------------------
(***************************************************************************)
(* The lines of the file, without comments.                                *)
(***************************************************************************)
LEMMA SolidTyped ==
  ASSUME Typed, NEW i \in DOMAIN lines
  PROVE  /\ Solid[i] \in Line
         /\ \A n \in 1 .. Len(Solid[i]) : Solid[i][n] \in Chars \ {BLANK, NL}
<1>1. lines[i] \in Line
  BY LinesTyped
<1>2. Solid[i] = Solids(lines[i])[Len(lines[i])] /\ Len(lines[i]) \in 0 .. Len(lines[i])
  BY <1>1 DEF Solid, Line
<1> QED
  BY <1>1, <1>2, SolidsTyped, ConfigAssumption DEF Line

\* What stands before a comment is a beginning of the line, has no blank and no comment
\* mark in it, and ends where the mark is.
LEMMA BareFacts ==
  ASSUME Typed, NEW i \in DOMAIN lines
  PROVE  /\ Bare[i] \in Line
         /\ Starts(Bare[i], Solid[i])
         /\ \A n \in 1 .. Len(Bare[i]) : Bare[i][n] \in Chars \ {BLANK, NL, "#"}
         /\ Len(Bare[i]) < Len(Solid[i]) => Solid[i][Len(Bare[i]) + 1] = "#"
<1> DEFINE whole == Solid[i]
           mark == SelectInSeq(whole, LAMBDA ch : ch = "#")
           I == {n \in 1 .. Len(whole) : whole[n] = "#"}
<1>1. Bare[i] = IF mark = 0 THEN whole ELSE SubSeq(whole, 1, mark - 1)
  BY DEF Bare
<1>2. mark = IF I # {} THEN Min(I) ELSE 0
  BY DEF SelectInSeq
<1> HIDE DEF mark
<1>3. whole \in Line /\ Len(whole) \in Nat /\ \A n \in 1 .. Len(whole) : whole[n] \in Chars \ {BLANK, NL}
  BY SolidTyped DEF Line
<1> HIDE DEF whole
<1>4. CASE I = {}
  <2>1. Bare[i] = whole
    BY <1>1, <1>2, <1>4
  <2>2. \A n \in 1 .. Len(whole) : whole[n] # "#"
    BY <1>4
  <2> QED
    BY <1>3, <2>1, <2>2 DEF Starts, whole
<1>5. CASE I # {}
  <2>1. Min(I) \in I /\ \A y \in I : Min(I) <= y
    <3>1. I \subseteq Nat
      OBVIOUS
    <3> HIDE DEF I
    <3> QED
      BY <1>5, <3>1, MinIsLeast
  <2> DEFINE m == Min(I) - 1
  <2>2. Min(I) \in 1 .. Len(whole) /\ whole[Min(I)] = "#"
    BY <2>1
  <2>3. m \in 0 .. (Len(whole) - 1) /\ whole[m + 1] = "#" /\ m + 1 = Min(I)
    BY <1>3, <2>2
  <2>4. ASSUME NEW n \in 1 .. m
        PROVE  whole[n] # "#"
    <3>1. n \in 1 .. Len(whole) /\ ~ (Min(I) <= n)
      BY <1>3, <2>3
    <3> QED
      BY <2>1, <3>1
  <2>5. Bare[i] = SubSeq(whole, 1, m)
    <3>1. mark = Min(I)
      BY <1>2, <1>5
    <3>2. mark # 0 /\ mark - 1 = m
      BY <2>2, <3>1
    <3> QED
      BY <1>1, <3>2
  <2> HIDE DEF m, I
  <2>6. Bare[i] \in Seq(Chars) /\ Len(Bare[i]) = m /\ \A n \in 1 .. m : Bare[i][n] = whole[n]
    BY <1>3, <2>3, <2>5 DEF Line
  <2>7. \A n \in 1 .. m : whole[n] \in Chars \ {BLANK, NL, "#"}
    BY <1>3, <2>3, <2>4
  <2> QED
    BY <1>3, <2>3, <2>6, <2>7 DEF Starts, Line, whole
<1> QED
  BY <1>4, <1>5

\* What was read is a part of the line, and what comes next is its next
\* character that is not a blank.
LEMMA SofarFacts ==
  ASSUME Typed, row \in DOMAIN lines
  PROVE  /\ Sofar \in Line /\ Starts(Sofar, Solid[row])
         /\ col = 1 => Sofar = <<>>
         /\ col = Len(lines[row]) + 1 => Sofar = Solid[row]
<1>1. lines[row] \in Line /\ lines \in Seq(Line)
  BY LinesTyped
<1>2. col - 1 \in 0 .. Len(lines[row]) /\ Len(lines[row]) \in 0 .. Len(lines[row]) /\ row <= Len(lines)
  BY <1>1 DEF Typed, ReadTyped, PositionTyped, Line
<1>3. Sofar = Solids(lines[row])[col - 1] /\ Solid[row] = Solids(lines[row])[Len(lines[row])]
  BY <1>2 DEF Sofar, Solid
<1>4. Sofar \in Line /\ Starts(Sofar, Solid[row])
  BY <1>1, <1>2, <1>3, SolidsTyped, SolidsStarts
<1>5. Solids(lines[row])[0] = <<>>
  BY <1>1, SolidsRecursion
<1> QED
  BY <1>1, <1>2, <1>3, <1>4, <1>5 DEF Line

\* What fgetc adds to what was read of the line: the line ends, a blank adds nothing, or
\* the character is the next one that counts.
LEMMA SofarStep ==
  ASSUME Typed, NEW ch, Gets(ch), UNCHANGED file
  PROVE  \/ /\ ch = NL /\ row' = row + 1 /\ Sofar = Solid[row] /\ Sofar' = <<>>
         \/ /\ ch = BLANK /\ row' = row /\ Sofar' = Sofar
         \/ /\ ch \notin {NL, BLANK} /\ row' = row
            /\ Sofar' = Append(Sofar, ch)
            /\ Len(Sofar) < Len(Solid[row]) /\ ch = Solid[row][Len(Sofar) + 1]
<1>1. row \in DOMAIN lines /\ lines' = lines /\ lines[row] \in Line /\ lines \in Seq(Line)
  BY GetsChar, LinesTyped DEF file
<1>2. CASE ch = NL
  <2>1. row' = row + 1 /\ col' = 1 /\ col = Len(lines[row]) + 1
    BY <1>2, GetsChar
  <2>2. Sofar' = <<>>
    <3>1. CASE row' <= Len(lines)
      <4>1. row' \in DOMAIN lines /\ lines[row'] \in Line
        BY <1>1, <2>1, <3>1, LinesTyped
      <4>2. Solids(lines[row'])[0] = <<>>
        BY <4>1, SolidsRecursion
      <4> QED
        BY <1>1, <2>1, <3>1, <4>2 DEF Sofar
    <3>2. CASE ~ (row' <= Len(lines))
      BY <1>1, <3>2 DEF Sofar
    <3> QED
      BY <3>1, <3>2
  <2> QED
    BY <1>1, <1>2, <2>1, <2>2, SofarFacts
<1>3. CASE ch # NL
  <2> DEFINE l == lines[row]
             t == Solids(l)[col - 1]
             u == Solids(l)[col]
             whole == Solids(l)[Len(l)]
  <2>1. /\ row' = row /\ col' = col + 1 /\ col \in 1 .. Len(l) /\ ch = l[col] /\ ch \in Chars
        /\ row <= Len(lines)
    BY <1>1, <1>3, GetsChar
  <2>2. Sofar = t /\ Solid[row] = whole /\ Sofar' = u
    <3>1. Sofar' = Solids(lines[row])[(col + 1) - 1]
      BY <1>1, <2>1 DEF Sofar
    <3>2. (col + 1) - 1 = col
      BY <2>1
    <3> QED
      BY <1>1, <2>1, <3>1, <3>2 DEF Sofar, Solid
  <2>3. u = IF ch = BLANK THEN t ELSE Append(t, ch)
    BY <1>1, <2>1, SolidsRecursion
  <2>4. Len(l) \in Nat /\ col - 1 \in 0 .. Len(l) /\ col \in 0 .. Len(l) /\ Len(l) \in 0 .. Len(l)
    BY <1>1, <2>1 DEF Line
  <2>5. t \in Line /\ whole \in Line /\ Starts(u, whole)
    BY <1>1, <2>4, SolidsTyped, SolidsStarts
  <2> HIDE DEF t, u, whole
  <2>6. CASE ch = BLANK
    BY <1>3, <2>1, <2>2, <2>3, <2>6
  <2>7. CASE ch # BLANK
    <3>1. u = Append(t, ch) /\ Len(u) = Len(t) + 1 /\ u[Len(t) + 1] = ch
      BY <2>1, <2>3, <2>5, <2>7 DEF Line
    <3>2. Len(t) < Len(whole) /\ ch = whole[Len(t) + 1]
      BY <2>5, <3>1 DEF Starts, Line
    <3> QED
      BY <1>3, <2>1, <2>2, <2>7, <3>1, <3>2
  <2> QED
    BY <2>6, <2>7
<1> QED
  BY <1>2, <1>3

\* A header is a name in brackets.
LEMMA HeaderFacts ==
  ASSUME Typed, NEW h \in Headers
  PROVE  /\ h \in DOMAIN lines
         /\ Len(Bare[h]) > 2
         /\ Bare[h][1] = "[" /\ Bare[h][Len(Bare[h])] = "]"
         /\ \A n \in 2 .. (Len(Bare[h]) - 1) : Bare[h][n] \notin {"[", "]", "="}
<1> DEFINE B == Bare[h]
<1>1. h \in DOMAIN lines /\ IsHeader(B)
  BY DEF Headers
<1>2. B \in Seq(Chars)
  BY <1>1, BareFacts DEF Line
<1> HIDE DEF B
<1>3. Len(B) > 2 /\ B[1] = "[" /\ B[Len(B)] = "]" /\ IsWord(Tail(Front(B)))
  BY <1>1, <1>2 DEF IsHeader, Last
<1>4. ASSUME NEW n \in 2 .. (Len(B) - 1)
      PROVE  B[n] \notin {"[", "]", "="}
  <2> DEFINE f == SubSeq(B, 1, Len(B) - 1)
  <2>1. f \in Seq(Chars) /\ Len(f) = Len(B) - 1 /\ f[n] = B[n]
    BY <1>2, <1>3
  <2>2. Front(B) = f
    BY DEF Front
  <2> HIDE DEF f
  <2>3. n - 1 \in DOMAIN Tail(f) /\ Tail(f)[n - 1] = f[n]
    BY <1>2, <2>1
  <2> QED
    BY <1>3, <2>1, <2>2, <2>3 DEF IsWord
<1> QED
  BY <1>1, <1>3, <1>4 DEF B

\* A pair has just one equals sign, and no bracket.
LEMMA PairFacts ==
  ASSUME Typed, NEW i \in Pairs
  PROVE  /\ i \in DOMAIN lines
         /\ Mark(i) \in 1 .. Len(Bare[i]) /\ Bare[i][Mark(i)] = "="
         /\ \A n \in 1 .. Len(Bare[i]) : n # Mark(i) => Bare[i][n] \notin {"[", "]", "="}
<1> DEFINE B == Bare[i]
<1>1. i \in DOMAIN lines /\ IsPair(B)
  BY DEF Pairs
<1>2. B \in Seq(Chars)
  BY <1>1, BareFacts DEF Line
<1>3. Mark(i) = CHOOSE n \in DOMAIN B : B[n] = "="
  BY DEF Mark
<1> HIDE DEF B
<1>4. PICK n \in DOMAIN B :
        B[n] = "=" /\ IsWord(SubSeq(B, 1, n - 1) \o SubSeq(B, n + 1, Len(B)))
  BY <1>1 DEF IsPair
<1>5. ASSUME NEW m \in DOMAIN B, m # n
      PROVE  B[m] \notin {"[", "]", "="}
  <2> DEFINE t == SubSeq(B, 1, n - 1)
             u == SubSeq(B, n + 1, Len(B))
  <2>1. n \in 1 .. Len(B) /\ m \in 1 .. Len(B) /\ Len(B) \in Nat
    BY <1>2
  <2>2. t \in Seq(Chars) /\ u \in Seq(Chars) /\ Len(t) = n - 1 /\ Len(u) = Len(B) - n
    BY <1>2, <2>1
  <2>3. CASE m < n
    <3>1. m \in 1 .. Len(t) /\ t[m] = B[m]
      BY <1>2, <2>1, <2>2, <2>3
    <3> HIDE DEF t, u
    <3>2. m \in DOMAIN (t \o u) /\ (t \o u)[m] = t[m]
      BY <2>2, <3>1
    <3> QED
      BY <1>4, <3>1, <3>2 DEF IsWord, t, u
  <2>4. CASE n < m
    <3>1. m - n \in 1 .. Len(u) /\ u[m - n] = B[m]
      BY <1>2, <2>1, <2>2, <2>4
    <3> HIDE DEF t, u
    <3>2. m - 1 \in DOMAIN (t \o u) /\ (t \o u)[m - 1] = u[m - n]
      BY <2>1, <2>2, <3>1
    <3> QED
      BY <1>4, <3>1, <3>2 DEF IsWord, t, u
  <2> QED
    BY <1>5, <2>1, <2>3, <2>4
<1>6. Mark(i) = n
  BY <1>3, <1>4, <1>5
<1> QED
  BY <1>1, <1>2, <1>4, <1>5, <1>6 DEF B

\* A line is never both.
LEMMA HeaderNoPair ==
  ASSUME Typed, NEW i \in Headers
  PROVE  i \notin Pairs
  BY HeaderFacts, PairFacts

\* The same file has the same lines.
LEMMA SameFile ==
  ASSUME lines' = lines
  PROVE  /\ Bare' = Bare /\ Solid' = Solid
         /\ Headers' = Headers /\ Pairs' = Pairs
         /\ Regular' <=> Regular
         /\ CommentsAlone' <=> CommentsAlone
         /\ PairsInSections' <=> PairsInSections
         /\ \A h : Section(h)' = Section(h)
         /\ \A i : Mark(i)' = Mark(i)
<1>1. Solid' = Solid
  BY DEF Solid
<1>2. Bare' = Bare
  BY <1>1 DEF Bare, SelectInSeq
<1>3. Headers' = Headers /\ Pairs' = Pairs
  BY <1>2 DEF Headers, Pairs
<1>4. Regular' <=> Regular
  BY <1>2, <1>3 DEF Regular
<1>5. CommentsAlone' <=> CommentsAlone
  BY <1>1, <1>2, <1>3 DEF CommentsAlone
<1>6. PairsInSections' <=> PairsInSections
  BY <1>3 DEF PairsInSections
<1>8. \A h : Section(h)' = Section(h)
  BY <1>3 DEF Section
<1>9. \A i : Mark(i)' = Mark(i)
  BY <1>2 DEF Mark
<1> QED
  BY <1>1, <1>2, <1>3, <1>4, <1>5, <1>6, <1>8, <1>9

\* What a line means does not change while the file stays the same.
LEMMA SameParts ==
  ASSUME lines' = lines
  PROVE  /\ \A h : NameOf(h)' = NameOf(h)
         /\ \A i : KeyOf(i)' = KeyOf(i) /\ ValueOf(i)' = ValueOf(i)
         /\ \A t, u : Over(t, u)' <=> Over(t, u)
         /\ \A h, key, value : GivenIn(h, key, value)' <=> GivenIn(h, key, value)
         /\ \A name, key : Given(name, key)' = Given(name, key)
         /\ \A name, key : Ending(name, key)' = Ending(name, key)
         /\ \A key, i : Meaning(key, i)' = Meaning(key, i)
<1>1. Bare' = Bare /\ Headers' = Headers
  BY SameFile
<1>2. \A h : Section(h)' = Section(h)
  BY SameFile
<1>3. \A i : Mark(i)' = Mark(i)
  BY SameFile
<1>4. \A h : NameOf(h)' = NameOf(h)
  BY <1>1 DEF NameOf
<1>5. \A i : KeyOf(i)' = KeyOf(i) /\ ValueOf(i)' = ValueOf(i)
  BY <1>1, <1>3 DEF KeyOf, ValueOf
<1>6. \A t, u : Over(t, u)' <=> Over(t, u)
  BY SameFile DEF Over
<1>7. \A h, key, value : GivenIn(h, key, value)' <=> GivenIn(h, key, value)
  BY <1>2, <1>5 DEF GivenIn
<1>8. \A name, key : Given(name, key)' = Given(name, key)
  BY <1>1, <1>2, <1>4, <1>5 DEF Given
<1>9. \A name, key : Ending(name, key)' = Ending(name, key)
  BY <1>1, <1>2, <1>4, <1>5 DEF Ending
<1>10. \A key, i : Meaning(key, i)' = Meaning(key, i)
  BY <1>5 DEF Meaning
<1> QED
  BY <1>4, <1>5, <1>6, <1>7, <1>8, <1>9, <1>10

\* The next character that counts is the next one of the bare line, or its comment mark.
LEMMA NextOfBare ==
  ASSUME Typed, NEW ch, Gets(ch), UNCHANGED file
  PROVE  /\ row \in DOMAIN lines /\ Sofar \in Line /\ Len(Sofar) \in Nat
         /\ ch = NL => Len(Sofar) >= Len(Bare[row])
         /\ ch \notin {NL, BLANK} /\ Len(Sofar) < Len(Bare[row]) => ch = Bare[row][Len(Sofar) + 1]
         /\ ch \notin {NL, BLANK} /\ Len(Sofar) = Len(Bare[row]) => ch = "#"
<1>1. row \in DOMAIN lines
  BY GetsChar
<1>2. Sofar \in Line /\ Len(Sofar) \in Nat /\ Bare[row] \in Line /\ Len(Bare[row]) \in Nat
      /\ Starts(Bare[row], Solid[row])
      /\ (Len(Bare[row]) < Len(Solid[row]) => Solid[row][Len(Bare[row]) + 1] = "#")
  BY <1>1, BareFacts, SofarFacts DEF Line
<1>3. CASE ch = NL
  <2>1. Sofar = Solid[row]
    BY <1>3, SofarStep DEF NL, BLANK
  <2>2. Len(Sofar) >= Len(Bare[row])
    BY <1>2, <2>1 DEF Starts
  <2> QED
    BY <1>1, <1>2, <1>3, <2>2
<1>4. CASE ch # NL
  <2>1. CASE ch = BLANK
    BY <1>1, <1>2, <1>4, <2>1
  <2>2. CASE ch # BLANK
    <3>1. Len(Sofar) < Len(Solid[row]) /\ ch = Solid[row][Len(Sofar) + 1]
      BY <1>4, <2>2, SofarStep
    <3>2. ASSUME Len(Sofar) < Len(Bare[row])
          PROVE  ch = Bare[row][Len(Sofar) + 1]
      <4>1. Len(Sofar) + 1 \in 1 .. Len(Bare[row])
        BY <1>2, <3>2
      <4> QED
        BY <1>2, <3>1, <4>1 DEF Starts
    <3>3. ASSUME Len(Sofar) = Len(Bare[row])
          PROVE  ch = "#"
      BY <1>2, <3>1, <3>3
    <3> QED
      BY <1>1, <1>2, <1>4, <3>2, <3>3
  <2> QED
    BY <2>1, <2>2
<1> QED
  BY <1>3, <1>4

\* There are no blanks in a header.
LEMMA HeaderNoBlank ==
  ASSUME Typed, Regular, NEW ch, Gets(ch), UNCHANGED file, row \in Headers,
         Len(Sofar) < Len(Bare[row])
  PROVE  ch = Bare[row][Len(Sofar) + 1] /\ ch \notin {NL, BLANK}
<1> DEFINE l == lines[row]
           B == Bare[row]
<1>1. row \in DOMAIN lines /\ l \in Seq(Chars) /\ B \in Seq(Chars) /\ Len(B) > 2 /\ B[1] = "["
  BY HeaderFacts, LinesTyped, BareFacts DEF Line
<1>2. \A c \in 1 .. Len(B) : c \in 1 .. Len(l) /\ l[c] = B[c] /\ l[c] \notin {BLANK, NL}
  <2>1. IsPrefix(B, l)
    BY <1>1, HeaderNoPair DEF Regular
  <2> HIDE DEF l, B
  <2>2. Len(B) <= Len(l) /\ SubSeq(B, 1, Len(B)) = SubSeq(l, 1, Len(B))
    BY <2>1 DEF IsPrefix
  <2>3. \A c \in 1 .. Len(B) : c \in 1 .. Len(l) /\ l[c] = B[c]
    <3>1. ASSUME NEW c \in 1 .. Len(B)
          PROVE  c \in 1 .. Len(l) /\ l[c] = B[c]
      <4>1. SubSeq(B, 1, Len(B))[c] = B[c] /\ SubSeq(l, 1, Len(B))[c] = l[c] /\ c \in 1 .. Len(l)
        BY <1>1, <2>2
      <4> QED
        BY <2>2, <4>1
    <3> QED
      BY <3>1
  <2> QED
    BY <1>1, <2>3, BareFacts DEF B
<1> DEFINE T == {c \in 0 .. Len(B) : Len(Solids(l)[c]) = c}
<1>3. 0 .. Len(B) \subseteq T
  <2>1. Len(B) \in Nat /\ Len(l) \in Nat
    BY <1>1
  <2>2. Solids(l)[0] = <<>>
    BY <1>1, SolidsRecursion DEF Line
  <2>3. 0 \in T
    BY <2>1, <2>2
  <2>4. ASSUME NEW c \in 1 .. Len(B), c - 1 \in T
        PROVE  c \in T
    <3>1. c \in 1 .. Len(l) /\ l[c] # BLANK /\ l \in Line /\ c - 1 \in 0 .. Len(l)
      BY <1>1, <1>2 DEF Line
    <3>2. Solids(l)[c] = Append(Solids(l)[c - 1], l[c]) /\ Solids(l)[c - 1] \in Line
      BY <3>1, SolidsRecursion, SolidsTyped
    <3>3. Len(Solids(l)[c - 1]) = c - 1
      BY <2>4
    <3>4. Len(Solids(l)[c]) = c
      <4> HIDE DEF l, B
      <4> QED
        BY <3>1, <3>2, <3>3 DEF Line
    <3> QED
      BY <2>1, <3>4
  <2> HIDE DEF T
  <2> QED
    BY <2>1, <2>3, <2>4, UpTo
<1>4. col \in 1 .. Len(B)
  <2>1. Sofar = Solids(l)[col - 1] /\ col \in 1 .. (Len(l) + 1)
    BY <1>1 DEF Sofar, Typed, ReadTyped, PositionTyped
  <2>2. SUFFICES ASSUME col - 1 >= Len(B)
                 PROVE  FALSE
    BY <1>1, <2>1
  <2>3. Starts(Solids(l)[Len(B)], Solids(l)[col - 1])
    BY <1>1, <2>1, <2>2, SolidsStarts DEF Line
  <2>4. Len(Solids(l)[Len(B)]) = Len(B)
    BY <1>1, <1>3
  <2> QED
    BY <1>1, <2>1, <2>3, <2>4, NextOfBare DEF Starts
<1>5. ch = B[col] /\ ch \notin {NL, BLANK}
  BY <1>1, <1>2, <1>4, GetsChar
<1> QED
  BY <1>5, NextOfBare

-----------------------------------------------------------------------------
(***************************************************************************)
(* What read_line has at each place.                                       *)
(***************************************************************************)
\* What it is for one sequence to be a suffix of another.
LEMMA SuffixPointwise ==
  ASSUME NEW S, NEW u \in Seq(S), NEW t \in Seq(S)
  PROVE  IsSuffix(u, t) <=>
           /\ Len(u) <= Len(t)
           /\ \A i \in 1 .. Len(u) : u[i] = t[Len(t) - Len(u) + i]
<1> DEFINE ru == [i \in 1 .. Len(u) |-> u[Len(u) - i + 1]]
           rt == [i \in 1 .. Len(t) |-> t[Len(t) - i + 1]]
<1>1. /\ ru \in Seq(S) /\ Len(ru) = Len(u)
      /\ rt \in Seq(S) /\ Len(rt) = Len(t)
  OBVIOUS
<1>2. IsSuffix(u, t) <=>
        Len(u) <= Len(t) /\ SubSeq(ru, 1, Len(u)) = SubSeq(rt, 1, Len(u))
  BY <1>1 DEF IsSuffix, IsPrefix, Reverse
<1>3. ASSUME Len(u) <= Len(t)
      PROVE  SubSeq(ru, 1, Len(u)) = SubSeq(rt, 1, Len(u))
               <=> \A j \in 1 .. Len(u) : ru[j] = rt[j]
  <2> HIDE DEF ru, rt
  <2>1. /\ SubSeq(ru, 1, Len(u)) = [j \in 1 .. Len(u) |-> ru[j]]
        /\ SubSeq(rt, 1, Len(u)) = [j \in 1 .. Len(u) |-> rt[j]]
    BY <1>1, <1>3
  <2> QED
    BY <2>1
<1>4. ASSUME Len(u) <= Len(t)
      PROVE  (\A j \in 1 .. Len(u) : ru[j] = rt[j])
               <=> \A i \in 1 .. Len(u) : u[i] = t[Len(t) - Len(u) + i]
  <2>1. \A j \in 1 .. Len(u) : ru[j] = u[Len(u) - j + 1] /\ rt[j] = t[Len(t) - j + 1]
    BY <1>4
  <2>2. ASSUME \A j \in 1 .. Len(u) : ru[j] = rt[j], NEW i \in 1 .. Len(u)
        PROVE  u[i] = t[Len(t) - Len(u) + i]
    <3>1. Len(u) - i + 1 \in 1 .. Len(u)
      OBVIOUS
    <3>2. /\ Len(u) - (Len(u) - i + 1) + 1 = i
          /\ Len(t) - (Len(u) - i + 1) + 1 = Len(t) - Len(u) + i
      OBVIOUS
    <3> QED
      BY <2>1, <2>2, <3>1, <3>2
  <2>3. ASSUME \A i \in 1 .. Len(u) : u[i] = t[Len(t) - Len(u) + i], NEW j \in 1 .. Len(u)
        PROVE  ru[j] = rt[j]
    <3>1. Len(u) - j + 1 \in 1 .. Len(u)
      OBVIOUS
    <3>2. Len(t) - Len(u) + (Len(u) - j + 1) = Len(t) - j + 1
      OBVIOUS
    <3> QED
      BY <2>1, <2>3, <3>1, <3>2
  <2> QED
    BY <2>2, <2>3
<1> QED
  BY <1>2, <1>3, <1>4

\* What is in front stays in front.
LEMMA SuffixAppend ==
  ASSUME NEW S, NEW u \in Seq(S), NEW t \in Seq(S), NEW ch \in S, IsSuffix(u, t)
  PROVE  IsSuffix(Append(u, ch), Append(t, ch))
<1> DEFINE v == Append(u, ch)
           w == Append(t, ch)
<1>1. /\ Len(u) \in Nat /\ Len(t) \in Nat /\ Len(u) <= Len(t)
      /\ \A i \in 1 .. Len(u) : u[i] = t[Len(t) - Len(u) + i]
  BY SuffixPointwise
<1>2. /\ v \in Seq(S) /\ Len(v) = Len(u) + 1
      /\ \A i \in 1 .. Len(u) : v[i] = u[i]
      /\ v[Len(u) + 1] = ch
      /\ w \in Seq(S) /\ Len(w) = Len(t) + 1
      /\ \A i \in 1 .. Len(t) : w[i] = t[i]
      /\ w[Len(t) + 1] = ch
  OBVIOUS
<1> HIDE DEF v, w
<1>3. ASSUME NEW i \in 1 .. Len(u) + 1
      PROVE  v[i] = w[Len(w) - Len(v) + i]
  <2>1. Len(w) - Len(v) + i = Len(t) - Len(u) + i
    BY <1>1, <1>2
  <2>2. CASE i = Len(u) + 1
    <3>1. Len(t) - Len(u) + i = Len(t) + 1
      BY <1>1, <2>2
    <3> QED
      BY <1>2, <2>1, <2>2, <3>1
  <2>3. CASE i \in 1 .. Len(u)
    <3>1. Len(t) - Len(u) + i \in 1 .. Len(t)
      BY <1>1, <2>3
    <3> QED
      BY <1>1, <1>2, <2>1, <2>3, <3>1
  <2> QED
    BY <1>1, <2>2, <2>3
<1>4. Len(v) <= Len(w) /\ \A i \in 1 .. Len(v) : v[i] = w[Len(w) - Len(v) + i]
  BY <1>1, <1>2, <1>3
<1> QED
  BY <1>2, <1>4, SuffixPointwise DEF v, w

\* A text is an end of itself, and so is the empty one.
LEMMA SuffixSelf ==
  ASSUME NEW S, NEW t \in Seq(S)
  PROVE  IsSuffix(t, t) /\ IsSuffix(<<>>, t)
<1>1. Len(t) \in Nat /\ \A i \in 1 .. Len(t) : t[i] = t[Len(t) - Len(t) + i]
  OBVIOUS
<1>2. <<>> \in Seq(S) /\ Len(<<>>) = 0 /\ 0 <= Len(t)
      /\ \A i \in 1 .. Len(<<>>) : <<>>[i] = t[Len(t) - Len(<<>>) + i]
  BY <1>1
<1>3. IsSuffix(t, t)
  BY <1>1, SuffixPointwise
<1>4. IsSuffix(<<>>, t)
  BY <1>1, <1>2, SuffixPointwise
<1> QED
  BY <1>3, <1>4

\* A text is over itself, and any text over the empty one if a comment allows.
LEMMA OverSelf ==
  ASSUME NEW t \in Text
  PROVE  Over(t, t) /\ ((CommentsAlone => t = <<>>) => Over(t, <<>>))
  BY SuffixSelf DEF Over, Text

\* What is appended to both keeps one over the other.
LEMMA OverAppend ==
  ASSUME NEW t \in Text, NEW u \in Line, NEW ch, Over(t, u)
  PROVE  Over(Append(t, ch), Append(u, ch))
<1> DEFINE S == Chars \cup {NL, ch}
<1>1. t \in Seq(S) /\ u \in Seq(S) /\ ch \in S
  BY DEF Text, Line
<1> HIDE DEF S
<1>2. IsSuffix(Append(u, ch), Append(t, ch))
  BY <1>1, SuffixAppend DEF Over
<1> QED
  BY <1>2 DEF Over

\* ini_parse does one thing with each character.
LEMMA OneAction ==
  ASSUME Typed, ini_parse, ~ EndOfFile
  PROVE  /\ Gets(Char) /\ UNCHANGED <<file, conf>>
         /\ mode = "line" /\ Char = "[" => OpenName
         /\ mode = "name" /\ Char = "]" => CloseName
         /\ mode = "line" /\ Char = "=" => Equals
         /\ mode = "line" /\ Char = NL /\ k # NULL => EndOfLine
         /\ mode = "line" /\ Char = NL /\ k = NULL => Skip(Char)
         /\ mode = "line" /\ Char = BLANK => Skip(Char)
         /\ mode = "line" /\ Char = "#" => Comment(Char)
         /\ mode = "line" /\ Char \notin {"[", "#", "=", BLANK, NL} => Collect(Char)
         /\ mode = "name" /\ Char # "]" => Collect(Char)
         /\ mode = "comment" /\ Char # NL => Skip(Char)
         /\ mode = "comment" /\ Char = NL => Comment(Char)
<1> USE DEF NL, BLANK
<1>1. UNCHANGED <<file, conf>>
  BY DEF ini_parse
<1>2. CASE OpenName
  <2>1. Gets(Char) /\ Char = "[" /\ mode = "line"
    BY <1>2 DEF OpenName, Gets
  <2> QED
    BY <1>1, <1>2, <2>1
<1>3. CASE CloseName
  <2>1. Gets(Char) /\ Char = "]" /\ mode = "name"
    BY <1>3 DEF CloseName, Gets
  <2> QED
    BY <1>1, <1>3, <2>1
<1>4. CASE Equals
  <2>1. Gets(Char) /\ Char = "=" /\ mode = "line"
    BY <1>4 DEF Equals, Gets
  <2> QED
    BY <1>1, <1>4, <2>1
<1>5. CASE EndOfLine
  <2>1. Gets(Char) /\ Char = NL /\ mode = "line" /\ k # NULL
    BY <1>5 DEF EndOfLine, Gets
  <2> QED
    BY <1>1, <1>5, <2>1
<1>6. CASE Collect(Char)
  <2>1. /\ Gets(Char)
        /\ \/ mode = "name" /\ Char # "]"
           \/ mode = "line" /\ Char \notin {"[", "#", "=", BLANK, NL}
    BY <1>6 DEF Collect
  <2> QED
    BY <1>1, <1>6, <2>1
<1>7. CASE Skip(Char)
  <2>1. /\ Gets(Char)
        /\ \/ mode = "comment" /\ Char # NL
           \/ mode = "line" /\ (Char = BLANK \/ (Char = NL /\ k = NULL))
    BY <1>7 DEF Skip
  <2> QED
    BY <1>1, <1>7, <2>1
<1>8. CASE Comment(Char)
  <2>1. /\ Gets(Char)
        /\ \/ mode = "line" /\ Char = "#"
           \/ mode = "comment" /\ Char = NL
    BY <1>8 DEF Comment
  <2> QED
    BY <1>1, <1>8, <2>1
<1> QED
  BY <1>2, <1>3, <1>4, <1>5, <1>6, <1>7, <1>8 DEF ini_parse

\* A line is of one kind.
LEMMA LineInvKind ==
  ASSUME Typed, lines' = lines, row' \in DOMAIN lines,
         \/ Bare[row'] = <<>> /\ InEmpty'
         \/ row' \in Headers /\ InHeader'
         \/ row' \in Pairs /\ InPair'
  PROVE  LineInv'
<1>1. Bare' = Bare /\ Headers' = Headers /\ Pairs' = Pairs
  BY SameFile
<1>2. lines \in Seq(Line) /\ row' <= Len(lines')
  BY LinesTyped
<1>3. \A h \in Headers : Len(Bare[h]) > 2
  BY HeaderFacts
<1>4. \A i \in Pairs : Len(Bare[i]) >= 1
  <2>1. SUFFICES ASSUME NEW i \in Pairs
                 PROVE  Len(Bare[i]) >= 1
    OBVIOUS
  <2>2. Mark(i) \in 1 .. Len(Bare[i]) /\ Len(Bare[i]) \in Nat
    BY PairFacts, BareFacts DEF Line
  <2> QED
    BY <2>2
<1>5. \A i \in Headers : i \notin Pairs
  BY HeaderNoPair
<1>6. \A i \in Headers \cup Pairs : Bare[i] # <<>>
  BY <1>3, <1>4
<1>7. ~ (row' > Len(lines'))
  <2>1. row' \in 1 .. Len(lines)
    BY <1>2
  <2> QED
    BY <1>2, <2>1
<1>8. /\ Bare'[row'] = <<>> => InEmpty'
      /\ row' \in Headers' => InHeader'
      /\ row' \in Pairs' => InPair'
  BY <1>1, <1>5, <1>6
<1> QED
  BY <1>7, <1>8 DEF LineInv

\* What has to hold after a step that ends a line.
LEMMA BetweenNext ==
  ASSUME lines' = lines,
         CommentsAlone => k' = NULL,
         k' = NULL => s' = <<>>,
         k' # NULL /\ sections' # <<>> => GivenIn(Last(sections').row, k'[1], s')
  PROVE  Between'
<1>1. CommentsAlone' <=> CommentsAlone
  BY SameFile
<1>2. \A h, key, value : GivenIn(h, key, value)' <=> GivenIn(h, key, value)
  BY SameParts
<1> QED
  BY <1>1, <1>2 DEF Between, NULL, Last

\* At the start of each line of any kind.
LEMMA StartOfLine ==
  ASSUME Typed, Typed', lines' = lines, row' = row + 1, row \in DOMAIN lines,
         Sofar' = <<>>, mode' = "line", Between'
  PROVE  LineInv'
<1>1. Bare' = Bare /\ Headers' = Headers /\ Pairs' = Pairs /\ (CommentsAlone' <=> CommentsAlone)
  BY SameFile
<1>2. \A t, u : Over(t, u)' <=> Over(t, u)
  BY SameParts
<1>3. s' \in Text
  BY DEF Typed, ReadTyped
<1>4. Over(s', <<>>)
  <2>1. CommentsAlone => s' = <<>>
    BY <1>1 DEF Between
  <2> QED
    BY <1>3, <2>1, OverSelf
<1>5. CASE row' \in DOMAIN lines
  <2>1. InEmpty'
    BY DEF InEmpty
  <2>2. row' \in Headers => InHeader'
    <3>1. SUFFICES ASSUME row' \in Headers
                   PROVE  InHeader'
      OBVIOUS
    <3>2. Len(Bare[row']) > 2 /\ Bare[row'] \in Line
      BY <3>1, HeaderFacts, BareFacts
    <3>3. Len(Sofar') = 0 /\ ~ (0 \in 1 .. (Len(Bare[row']) - 1)) /\ ~ (0 >= Len(Bare[row']))
      BY <3>2 DEF Line
    <3> QED
      BY <1>1, <1>2, <1>4, <3>3 DEF InHeader
  <2>3. row' \in Pairs => InPair'
    <3>1. SUFFICES ASSUME row' \in Pairs
                   PROVE  InPair'
      OBVIOUS
    <3>2. Mark(row') \in 1 .. Len(Bare[row'])
      BY <3>1, PairFacts
    <3>3. Len(Sofar') = 0 /\ ~ (0 >= Mark(row'))
      BY <3>2
    <3>4. \A i : Mark(i)' = Mark(i)
      BY SameFile
    <3> QED
      BY <1>1, <1>2, <1>4, <3>3, <3>4 DEF InPair
  <2>4. Regular => Bare[row'] = <<>> \/ row' \in Headers \/ row' \in Pairs
    BY <1>5 DEF Regular
  <2>5. CASE Regular
    BY <1>5, <2>1, <2>2, <2>3, <2>4, <2>5, LineInvKind
  <2>6. CASE ~ Regular
    BY <2>6, SameFile DEF LineInv
  <2> QED
    BY <2>5, <2>6
<1>6. CASE row' \notin DOMAIN lines
  <2>1. /\ row' > Len(lines') /\ ~ (row' <= Len(lines'))
        /\ Headers \subseteq DOMAIN lines /\ Pairs \subseteq DOMAIN lines
    <3>1. lines \in Seq(Line)
      BY LinesTyped
    <3> QED
      BY <1>6, <3>1 DEF Headers, Pairs
  <2> QED
    BY <1>1, <1>6, <2>1 DEF LineInv
<1> QED
  BY <1>5, <1>6

\* The blanks and the text of a line that is empty but for a comment.
LEMMA EmptyStep ==
  ASSUME Typed, Typed', LineInv, Regular, place = "read", ini_parse, ~ EndOfFile, Char # NL,
         Bare[row] = <<>>
  PROVE  LineInv'
<1>1. Gets(Char) /\ UNCHANGED file /\ lines' = lines
  BY OneAction DEF file
<1>2. row \in DOMAIN lines /\ lines \in Seq(Line)
  BY <1>1, GetsChar, LinesTyped
<1>3. InEmpty
  BY <1>2 DEF LineInv
<1>4. UNCHANGED <<s, k, sections>> => Between'
  BY <1>1, <1>3, BetweenNext DEF InEmpty, Between
<1>5. row' = row
  BY <1>1, SofarStep
<1>6. Sofar \in Line /\ Len(Sofar) \in Nat /\ Len(Bare[row]) = 0
  BY <1>1, NextOfBare
<1>7. CASE Char = BLANK
  <2>1. Skip(Char)
    BY <1>3, <1>7, OneAction DEF InEmpty
  <2>2. Sofar' = Sofar /\ UNCHANGED <<s, k, sections, mode>>
    BY <1>1, <1>7, <2>1, SofarStep DEF Skip, line, NL, BLANK
  <2>3. InEmpty'
    BY <1>3, <1>4, <2>2 DEF InEmpty
  <2> QED
    BY <1>1, <1>2, <1>5, <2>3, LineInvKind
<1>8. CASE Char # BLANK
  <2>1. Sofar' = Append(Sofar, Char)
    BY <1>1, <1>8, SofarStep
  <2>2. Sofar' # <<>>
    BY <1>6, <2>1 DEF Line
  <2>3. mode' = "comment" /\ UNCHANGED <<s, k, sections>>
    <3>1. CASE Sofar = <<>>
      <4>1. Len(Sofar) = Len(Bare[row])
        BY <1>6, <3>1
      <4>2. Char = "#"
        BY <1>1, <1>8, <4>1, NextOfBare
      <4>3. Comment(Char)
        BY <1>3, <3>1, <4>2, OneAction DEF InEmpty
      <4> QED
        BY <1>3, <3>1, <4>3 DEF Comment, InEmpty
    <3>2. CASE Sofar # <<>>
      <4>1. mode = "comment" /\ Skip(Char)
        BY <1>3, <3>2, OneAction DEF InEmpty
      <4> QED
        BY <4>1 DEF Skip, line
    <3> QED
      BY <3>1, <3>2
  <2>4. InEmpty'
    BY <1>4, <2>2, <2>3 DEF InEmpty
  <2> QED
    BY <1>1, <1>2, <1>5, <2>4, LineInvKind
<1> QED
  BY <1>7, <1>8

\* A header, read character by character.
LEMMA HeaderStep ==
  ASSUME Typed, Typed', LineInv, Regular, place = "read", ini_parse, ~ EndOfFile, Char # NL,
         row \in Headers
  PROVE  /\ LineInv'
         /\ IF Len(Sofar) = Len(Bare[row]) - 1
            THEN CloseName /\ Over(s, NameOf(row)) /\ Len(Sofar') = Len(Bare[row])
            ELSE /\ UNCHANGED <<sections, place>>
                 /\ Len(Sofar') >= Len(Bare[row]) <=> Len(Sofar) >= Len(Bare[row])
<1> DEFINE B == Bare[row]
           n == Len(Sofar)
<1>1. Gets(Char) /\ UNCHANGED file /\ lines' = lines
  BY OneAction DEF file
<1>2. row \in DOMAIN lines /\ row' = row /\ lines \in Seq(Line) /\ row <= Len(lines)
  BY <1>1, SofarStep, HeaderFacts, LinesTyped
<1>3. InHeader
  BY <1>2 DEF LineInv
<1>4. Sofar \in Line /\ n \in Nat /\ B \in Line /\ Len(B) \in Nat /\ Len(B) > 2
  BY <1>1, <1>2, NextOfBare, HeaderFacts, BareFacts DEF Line
<1>5. Bare' = Bare /\ \A t, u : Over(t, u)' <=> Over(t, u)
  BY <1>1, SameFile, SameParts
<1>6. s \in Text
  BY DEF Typed, ReadTyped
<1>7. SUFFICES /\ InHeader'
               /\ IF n = Len(B) - 1
                  THEN CloseName /\ Over(s, NameOf(row)) /\ Len(Sofar') = Len(B)
                  ELSE UNCHANGED <<sections, place>> /\ (Len(Sofar') >= Len(B) <=> n >= Len(B))
  BY <1>1, <1>2, LineInvKind
<1>8. n < Len(B) => Char = B[n + 1] /\ Char # BLANK
  BY <1>1, HeaderNoBlank
<1>9. Char # BLANK => Sofar' = Append(Sofar, Char) /\ Len(Sofar') = n + 1
  BY <1>1, <1>4, SofarStep DEF Line
<1>10. CASE n = 0
  <2>1. Sofar = <<>> /\ Char = "["
    BY <1>4, <1>8, <1>10, HeaderFacts DEF Line
  <2>2. OpenName /\ Over(s, <<>>)
    BY <1>3, <2>1, OneAction DEF InHeader
  <2>3. mode' = "name" /\ s' = s /\ UNCHANGED <<sections, place>>
    BY <2>2 DEF OpenName
  <2>4. Len(Sofar') = 1 /\ Sofar' # <<>>
    BY <1>4, <1>8, <1>9, <1>10
  <2>5. SubSeq(B, 2, 1) = <<>>
    BY <1>4 DEF Line
  <2>6. Over(s', SubSeq(B, 2, Len(Sofar')))
    BY <2>2, <2>3, <2>4, <2>5
  <2>7. InHeader'
    BY <1>2, <1>4, <1>5, <2>3, <2>4, <2>6 DEF InHeader
  <2>8. ~ (n = Len(B) - 1) /\ ~ (Len(Sofar') >= Len(B)) /\ ~ (n >= Len(B))
    <3> DEFINE m == Len(B)
    <3>1. m \in Nat /\ m > 2 /\ n = 0 /\ Len(Sofar') = 1
      BY <1>4, <1>10, <2>4
    <3> HIDE DEF m, n
    <3>2. ~ (n = m - 1) /\ ~ (Len(Sofar') >= m) /\ ~ (n >= m)
      BY <3>1
    <3> QED
      BY <3>2 DEF m
  <2> QED
    BY <2>3, <2>7, <2>8
<1>11. CASE n \in 1 .. (Len(B) - 2)
  <2>1. mode = "name" /\ Over(s, SubSeq(B, 2, n))
    BY <1>3, <1>4, <1>11 DEF InHeader
  <2>2. Char = B[n + 1] /\ n + 1 \in 2 .. (Len(B) - 1) /\ Char # BLANK
    BY <1>4, <1>8, <1>11
  <2>3. Collect(Char)
    BY <2>1, <2>2, HeaderFacts, OneAction
  <2>4. mode' = "name" /\ s' = Append(s, Char) /\ UNCHANGED <<sections, place>>
    BY <2>1, <2>3 DEF Collect
  <2>5. SubSeq(B, 2, n) \in Line /\ SubSeq(B, 2, n + 1) = Append(SubSeq(B, 2, n), Char)
    <3> HIDE DEF B, n
    <3> QED
      BY <1>4, <1>11, <2>2 DEF Line
  <2>6. Over(s', SubSeq(B, 2, n + 1))
    BY <1>6, <2>1, <2>4, <2>5, OverAppend
  <2>7. Len(Sofar') = n + 1 /\ Sofar' # <<>>
    BY <1>4, <1>9, <2>2
  <2> QED
    BY <1>2, <1>4, <1>5, <1>11, <2>4, <2>6, <2>7 DEF InHeader
<1>12. CASE n = Len(B) - 1
  <2>1. n \in 1 .. (Len(B) - 1) /\ mode = "name" /\ Over(s, SubSeq(B, 2, n))
    BY <1>3, <1>4, <1>12 DEF InHeader
  <2>2. Char = "]" /\ Char # BLANK
    BY <1>4, <1>8, <1>12, HeaderFacts
  <2>3. CloseName /\ Over(s, NameOf(row))
    BY <1>12, <2>1, <2>2, OneAction DEF NameOf
  <2>4. mode' = "line" /\ s' = <<>> /\ k' = NULL
    BY <2>3 DEF CloseName, NewCall
  <2>5. Len(Sofar') = Len(B) /\ Sofar' # <<>>
    BY <1>4, <1>9, <1>12, <2>2
  <2>6. InHeader'
    BY <1>2, <1>4, <1>5, <2>4, <2>5 DEF InHeader, NULL
  <2> QED
    BY <1>12, <2>3, <2>5, <2>6
<1>13. CASE n >= Len(B)
  <2>1. k = NULL /\ s = <<>> /\ mode = IF n = Len(B) THEN "line" ELSE "comment"
    BY <1>3, <1>4, <1>13 DEF InHeader
  <2>2. /\ UNCHANGED <<s, k, sections, place>>
        /\ mode' = IF Char # BLANK THEN "comment" ELSE mode
    <3>1. CASE mode = "line" /\ Char # BLANK
      <4>1. Char = "#"
        BY <1>1, <1>4, <2>1, <3>1, NextOfBare
      <4>2. Comment(Char)
        BY <3>1, <4>1, OneAction
      <4> QED
        BY <3>1, <4>2 DEF Comment
    <3>2. CASE mode = "line" /\ Char = BLANK
      <4>1. Skip(Char)
        BY <3>2, OneAction
      <4> QED
        BY <3>2, <4>1 DEF Skip, line
    <3>3. CASE mode = "comment"
      <4>1. Skip(Char)
        BY <3>3, OneAction
      <4> QED
        BY <3>3, <4>1 DEF Skip, line
    <3> QED
      BY <2>1, <3>1, <3>2, <3>3
  <2>3. IF Char = BLANK THEN Len(Sofar') = n ELSE Len(Sofar') = n + 1
    <3>1. Char = BLANK => Sofar' = Sofar
      BY <1>1, SofarStep
    <3> QED
      BY <1>9, <3>1
  <2>4. Len(Sofar') \in Nat /\ Len(Sofar') >= Len(B) /\ Sofar' # <<>>
    BY <1>4, <1>13, <2>3
  <2>5. mode' = IF Len(Sofar') = Len(B) THEN "line" ELSE "comment"
    BY <1>4, <1>13, <2>1, <2>2, <2>3
  <2>6. InHeader'
    BY <1>2, <1>4, <1>5, <2>1, <2>2, <2>4, <2>5 DEF InHeader, NULL
  <2> QED
    BY <1>4, <1>13, <2>2, <2>4, <2>6
<1>14. n = 0 \/ n \in 1 .. (Len(B) - 2) \/ n = Len(B) - 1 \/ n >= Len(B)
  BY <1>4
<1> HIDE DEF n, B
<1> QED
  BY <1>10, <1>11, <1>12, <1>13, <1>14

\* A pair, read character by character.
LEMMA PairStep ==
  ASSUME Typed, Typed', LineInv, Regular, place = "read", ini_parse, ~ EndOfFile, Char # NL,
         row \in Pairs
  PROVE  /\ LineInv'
         /\ UNCHANGED <<sections, place>>
         /\ Len(Sofar') >= Mark(row) => k' # NULL
<1> DEFINE B == Bare[row]
           n == Len(Sofar)
           m == Mark(row)
<1>1. Gets(Char) /\ UNCHANGED file /\ lines' = lines /\ ~ AtEnd
  BY OneAction DEF file, Gets
<1>2. row \in DOMAIN lines /\ row' = row /\ lines \in Seq(Line) /\ row <= Len(lines)
  BY <1>1, SofarStep, PairFacts, LinesTyped
<1>3. InPair
  BY <1>2 DEF LineInv
<1>4. Sofar \in Line /\ n \in Nat /\ B \in Line /\ Len(B) \in Nat /\ m \in 1 .. Len(B) /\ B[m] = "="
  BY <1>1, <1>2, NextOfBare, PairFacts, BareFacts DEF Line
<1>5. Bare' = Bare /\ (\A t, u : Over(t, u)' <=> Over(t, u)) /\ KeyOf(row)' = KeyOf(row) /\ Mark(row)' = m
  BY <1>1, <1>2, SameFile, SameParts
<1>6. s \in Text
  BY DEF Typed, ReadTyped
<1>7. SUFFICES /\ InPair'
               /\ UNCHANGED <<sections, place>>
               /\ Len(Sofar') >= m => k' # NULL
  BY <1>1, <1>2, LineInvKind
<1>8. Char = BLANK => Sofar' = Sofar
  BY <1>1, SofarStep
<1>9. Char # BLANK => Sofar' = Append(Sofar, Char) /\ Len(Sofar') = n + 1
  BY <1>1, <1>4, SofarStep DEF Line
<1>10. Char # BLANK /\ n < Len(B) => Char = B[n + 1]
  BY <1>1, NextOfBare
<1>11. CASE n < m
  <2>1. mode = "line" /\ Over(s, Sofar)
    BY <1>3, <1>11 DEF InPair
  <2>2. n < Len(B)
    BY <1>4, <1>11
  <2>3. CASE Char = BLANK
    <3>1. Skip(Char)
      BY <2>1, <2>3, OneAction
    <3>2. UNCHANGED <<mode, s, k, sections, place>> /\ Sofar' = Sofar
      BY <1>8, <2>3, <3>1 DEF Skip, line
    <3>3. InPair'
      BY <1>2, <1>4, <1>5, <1>11, <2>1, <3>2 DEF InPair
    <3> QED
      BY <1>4, <1>11, <3>2, <3>3
  <2>4. CASE Char # BLANK /\ n + 1 < m
    <3>1. n + 1 \in 1 .. Len(B) /\ n + 1 # m
      BY <1>4, <2>4
    <3>2. Char \notin {"[", "]", "=", "#", BLANK, NL}
      BY <1>2, <1>10, <2>2, <2>4, <3>1, PairFacts, BareFacts
    <3>3. Collect(Char)
      BY <2>1, <3>2, OneAction
    <3>4. mode' = mode /\ s' = Append(s, Char) /\ UNCHANGED <<k, sections, place>>
      BY <3>3 DEF Collect
    <3>5. Sofar' = Append(Sofar, Char) /\ Len(Sofar') = n + 1
      BY <1>9, <2>4
    <3>6. Over(s', Sofar')
      BY <1>4, <1>6, <2>1, <3>4, <3>5, OverAppend
    <3>7. ~ (Len(Sofar') >= m)
      BY <1>4, <2>4, <3>5
    <3>8. InPair'
      BY <1>2, <1>5, <2>1, <3>4, <3>6, <3>7 DEF InPair
    <3> QED
      BY <3>4, <3>7, <3>8
  <2>5. CASE Char # BLANK /\ n + 1 = m
    <3>1. Char = "="
      BY <1>4, <1>10, <2>2, <2>5
    <3>2. Equals
      BY <2>1, <3>1, OneAction
    <3>3. mode' = "line" /\ k' = <<s>> /\ s' = <<>> /\ UNCHANGED <<sections, place>>
      BY <2>1, <3>2 DEF Equals
    <3>4. Sofar = KeyOf(row)
      <4>1. Starts(Sofar, Solid[row]) /\ Starts(B, Solid[row])
        BY <1>2, SofarFacts, BareFacts
      <4>2. \A c \in 1 .. n : Sofar[c] = B[c]
        BY <1>4, <2>2, <4>1 DEF Starts
      <4>3. KeyOf(row) = SubSeq(B, 1, n)
        BY <1>4, <2>5 DEF KeyOf
      <4> HIDE DEF B, n
      <4>4. n = Len(Sofar)
        BY DEF n
      <4> QED
        BY <1>4, <2>2, <4>2, <4>3, <4>4 DEF Line
    <3>5. Over(k'[1], KeyOf(row)) /\ k' # NULL
      BY <2>1, <3>3, <3>4 DEF NULL
    <3>6. SubSeq(B, m + 1, m) = <<>>
      BY <1>4 DEF Line
    <3>7. Len(Sofar') = m /\ m <= Len(B) /\ ~ (m < m)
      BY <1>4, <1>9, <2>5
    <3>8. InPair'
      BY <1>2, <1>4, <1>5, <3>3, <3>5, <3>6, <3>7 DEF InPair
    <3> QED
      BY <3>3, <3>5, <3>8
  <2> QED
    BY <1>4, <1>11, <2>3, <2>4, <2>5
<1>12. CASE n >= m /\ n < Len(B)
  <2>1. mode = "line" /\ k # NULL /\ Over(k[1], KeyOf(row)) /\ s = SubSeq(B, m + 1, n)
    <3>1. n <= Len(B) /\ ~ LastStored
      BY <1>1, <1>4, <1>12 DEF LastStored
    <3> QED
      BY <1>3, <1>12, <3>1 DEF InPair
  <2>2. CASE Char = BLANK
    <3>1. Skip(Char)
      BY <2>1, <2>2, OneAction
    <3>2. UNCHANGED <<mode, s, k, sections, place>> /\ Sofar' = Sofar
      BY <1>8, <2>2, <3>1 DEF Skip, line
    <3>3. n <= Len(B) /\ ~ (n < m)
      BY <1>4, <1>12
    <3>4. InPair'
      BY <1>2, <1>5, <2>1, <3>2, <3>3 DEF InPair
    <3> QED
      BY <2>1, <3>2, <3>4
  <2>3. CASE Char # BLANK
    <3>1. n + 1 \in 1 .. Len(B) /\ n + 1 # m
      BY <1>4, <1>12
    <3>2. Char = B[n + 1] /\ Char \notin {"[", "]", "=", "#", BLANK, NL}
      BY <1>2, <1>10, <1>12, <2>3, <3>1, PairFacts, BareFacts
    <3>3. Collect(Char)
      BY <2>1, <3>2, OneAction
    <3>4. mode' = mode /\ s' = Append(s, Char) /\ UNCHANGED <<k, sections, place>>
      BY <3>3 DEF Collect
    <3>5. Len(Sofar') = n + 1
      BY <1>9, <2>3
    <3>6. s' = SubSeq(B, m + 1, n + 1)
      <4> HIDE DEF B, n, m
      <4> QED
        BY <1>4, <1>12, <2>1, <3>1, <3>2, <3>4 DEF Line
    <3>7. n + 1 <= Len(B) /\ ~ (n + 1 < m) /\ n + 1 >= m
      BY <1>4, <1>12, <3>1
    <3>8. InPair'
      BY <1>2, <1>5, <2>1, <3>4, <3>5, <3>6, <3>7 DEF InPair
    <3> QED
      BY <2>1, <3>4, <3>8
  <2> QED
    BY <2>2, <2>3
<1>13. CASE n >= Len(B)
  <2>1. /\ mode = IF n <= Len(B) THEN "line" ELSE "comment"
        /\ k # NULL /\ Over(k[1], KeyOf(row))
        /\ s = SubSeq(B, m + 1, Len(B))
    <3>1. n >= m /\ ~ LastStored /\ (n <= Len(B) => n = Len(B))
      BY <1>1, <1>4, <1>13 DEF LastStored
    <3> QED
      BY <1>3, <3>1 DEF InPair
  <2>2. /\ UNCHANGED <<s, k, sections, place>>
        /\ mode' = IF Char # BLANK THEN "comment" ELSE mode
    <3>1. CASE mode = "line" /\ Char # BLANK
      <4>1. n = Len(B)
        BY <1>4, <1>13, <2>1, <3>1
      <4>2. Char = "#"
        BY <1>1, <3>1, <4>1, NextOfBare
      <4>3. Comment(Char)
        BY <3>1, <4>2, OneAction
      <4> QED
        BY <3>1, <4>3 DEF Comment
    <3>2. CASE mode = "line" /\ Char = BLANK
      <4>1. Skip(Char)
        BY <3>2, OneAction
      <4> QED
        BY <3>2, <4>1 DEF Skip, line
    <3>3. CASE mode = "comment"
      <4>1. Skip(Char)
        BY <3>3, OneAction
      <4> QED
        BY <3>3, <4>1 DEF Skip, line
    <3> QED
      BY <2>1, <3>1, <3>2, <3>3
  <2>3. Len(Sofar') = IF Char = BLANK THEN n ELSE n + 1
    BY <1>8, <1>9
  <2>4. mode' = IF Len(Sofar') <= Len(B) THEN "line" ELSE "comment"
    <3> HIDE DEF n, B
    <3> QED
      BY <1>4, <1>13, <2>1, <2>2, <2>3
  <2>5. Len(Sofar') >= Len(B) /\ ~ (Len(Sofar') < m) /\ (Len(Sofar') <= Len(B) => Len(Sofar') = Len(B))
    <3> HIDE DEF n, B, m
    <3> QED
      BY <1>4, <1>13, <2>3
  <2>6. InPair'
    BY <1>2, <1>5, <2>1, <2>2, <2>4, <2>5 DEF InPair
  <2> QED
    BY <2>1, <2>2, <2>6
<1>14. n < m \/ (n >= m /\ n < Len(B)) \/ n >= Len(B)
  BY <1>4
<1> HIDE DEF n, m, B
<1> QED
  BY <1>11, <1>12, <1>13, <1>14

\* A pair belongs to the section stored last.
LEMMA LastHeader ==
  ASSUME Typed, HeadersInv, Regular, place = "read", row \in Pairs, sections # <<>>
  PROVE  row \in Section(Last(sections).row) /\ Last(sections).row \in Headers
<1> DEFINE last == Len(sections)
           h == sections[last].row
<1>1. sections \in Seq(SectionRecords) /\ last \in DOMAIN sections /\ Last(sections) = sections[last]
  BY DEF Typed, ReadTyped, Last
<1>2. h \in Headers
  BY <1>1 DEF HeadersInv
<1>3. HeaderStored(h)
  BY <1>1, <1>2 DEF HeadersInv
<1>4. h \in 1 .. Len(lines) /\ row \in 1 .. Len(lines) /\ h # row
  <2>1. lines \in Seq(Line)
    BY LinesTyped
  <2> QED
    BY <1>2, <2>1, HeaderFacts, PairFacts, HeaderNoPair
<1>5. h < row
  BY <1>3, <1>4 DEF HeaderStored
<1>6. ASSUME NEW j \in Headers, h < j, j < row
      PROVE  FALSE
  <2>1. PICK m \in DOMAIN sections : sections[m].row = j
    BY <1>6 DEF HeadersInv, HeaderStored
  <2>2. m \in 1 .. last /\ m # last
    <3>1. j # h
      BY <1>4, <1>6
    <3> QED
      BY <1>1, <2>1, <3>1
  <2>3. m < last
    BY <1>1, <2>2
  <2>4. sections[m].row < h
    BY <1>1, <2>3 DEF HeadersInv
  <2>5. j \in Nat /\ h \in Nat
    <3>1. lines \in Seq(Line)
      BY LinesTyped
    <3> QED
      BY <1>2, <1>6, <3>1, HeaderFacts
  <2> QED
    BY <1>6, <2>1, <2>4, <2>5
<1> QED
  BY <1>1, <1>2, <1>5, <1>6 DEF Section

\* What is stored at the end of a line, and at the end of the file.
Stores ==
  /\ k # NULL
  /\ sections # <<>> => GivenIn(Last(sections).row, k[1], s)
  /\ CommentsAlone => row \in Pairs /\ k[1] = KeyOf(row) /\ s = ValueOf(row)

\* At the end of a line that is a pair, it is that pair which is stored...
LEMMA PairStores ==
  ASSUME Typed, HeadersInv, Regular, place = "read", row \in Pairs,
         k # NULL, Over(k[1], KeyOf(row)), s = ValueOf(row)
  PROVE  Stores
<1>2. ASSUME sections # <<>>
      PROVE  GivenIn(Last(sections).row, k[1], s)
  <2>1. row \in Section(Last(sections).row)
    BY <1>2, LastHeader
  <2> QED
    BY <2>1 DEF GivenIn, Over
<1>3. CommentsAlone => k[1] = KeyOf(row)
  BY DEF Over
<1> QED
  BY <1>2, <1>3 DEF Stores

\* ...and so it is at the end of the file, whatever the last line is.
LEMMA EndStores ==
  ASSUME Typed, LineInv, HeadersInv, Regular, place = "read", mode = "line", k # NULL,
         row \in DOMAIN lines => Len(Sofar) >= Len(Bare[row])
  PROVE  Stores
<1>1. lines \in Seq(Line) /\ row \in 1 .. (Len(lines) + 1)
  BY LinesTyped DEF Typed, ReadTyped, PositionTyped
<1>2. Between => Stores
  BY DEF Between, Stores
<1>3. CASE row \notin DOMAIN lines
  BY <1>1, <1>2, <1>3 DEF LineInv
<1>4. CASE row \in DOMAIN lines
  <2>1. Sofar \in Line /\ Len(Sofar) \in Nat /\ Bare[row] \in Line /\ Len(Bare[row]) \in Nat
    BY <1>4, SofarFacts, BareFacts DEF Line
  <2>2. CASE Bare[row] = <<>>
    BY <1>1, <1>2, <1>4, <2>2 DEF LineInv, InEmpty
  <2>3. CASE row \in Headers
    BY <1>4, <2>3 DEF LineInv, InHeader
  <2>4. CASE row \in Pairs
    <3>1. Mark(row) \in 1 .. Len(Bare[row])
      BY <2>4, PairFacts
    <3>2. Len(Sofar) >= Mark(row) /\ ~ LastStored
      BY <1>4, <2>1, <3>1 DEF LastStored
    <3>3. Over(k[1], KeyOf(row)) /\ Len(Sofar) = Len(Bare[row])
          /\ s = SubSeq(Bare[row], Mark(row) + 1, Len(Bare[row]))
      BY <1>4, <2>1, <2>4, <3>2 DEF LineInv, InPair
    <3> QED
      BY <2>4, <3>3, PairStores DEF ValueOf
  <2> QED
    BY <1>4, <2>2, <2>3, <2>4 DEF Regular
<1> QED
  BY <1>3, <1>4

\* The end of a line.
LEMMA NewlineStep ==
  ASSUME Typed, Typed', LineInv, HeadersInv, Regular, place = "read", ini_parse, ~ EndOfFile,
         Char = NL
  PROVE  /\ LineInv'
         /\ \/ Stores /\ add_pair(k[1], s)
            \/ UNCHANGED <<sections, place>> /\ (CommentsAlone => row \notin Pairs)
<1>1. Gets(Char) /\ UNCHANGED file /\ lines' = lines /\ ~ AtEnd
  BY OneAction DEF file, Gets
<1>2. row \in DOMAIN lines /\ row' = row + 1 /\ Sofar = Solid[row] /\ Sofar' = <<>>
      /\ Len(Sofar) >= Len(Bare[row])
  <2>1. row \in DOMAIN lines /\ Len(Sofar) >= Len(Bare[row])
    BY <1>1, NextOfBare
  <2> QED
    BY <1>1, <2>1, SofarStep DEF NL, BLANK
<1>3. Sofar \in Line /\ Len(Sofar) \in Nat /\ Bare[row] \in Line /\ Len(Bare[row]) \in Nat
  BY <1>2, SofarFacts, BareFacts DEF Line
<1>4. SUFFICES /\ mode' = "line" /\ Between'
               /\ \/ Stores /\ add_pair(k[1], s)
                  \/ UNCHANGED <<sections, place>> /\ (CommentsAlone => row \notin Pairs)
  BY <1>1, <1>2, StartOfLine
<1>5. lines \in Seq(Line) /\ row <= Len(lines)
  BY <1>2, LinesTyped
<1>6. row \in Pairs => /\ mode = IF Len(Sofar) <= Len(Bare[row]) THEN "line" ELSE "comment"
                       /\ k # NULL /\ Over(k[1], KeyOf(row)) /\ s = ValueOf(row)
  <2>1. SUFFICES ASSUME row \in Pairs
                 PROVE  /\ mode = IF Len(Sofar) <= Len(Bare[row]) THEN "line" ELSE "comment"
                        /\ k # NULL /\ Over(k[1], KeyOf(row)) /\ s = ValueOf(row)
    OBVIOUS
  <2>2. Mark(row) \in 1 .. Len(Bare[row])
    BY <2>1, PairFacts
  <2>3. Len(Sofar) >= Mark(row) /\ ~ LastStored /\ (Len(Sofar) <= Len(Bare[row]) => Len(Sofar) = Len(Bare[row]))
    BY <1>1, <1>2, <1>3, <2>2 DEF LastStored
  <2>4. InPair
    BY <1>2, <2>1 DEF LineInv
  <2> QED
    BY <2>3, <2>4 DEF InPair, ValueOf
<1>7. mode \in {"line", "comment"}
  <2>1. CASE Bare[row] = <<>>
    BY <1>2, <1>5, <2>1 DEF LineInv, InEmpty
  <2>2. CASE row \in Headers
    BY <1>2, <2>2 DEF LineInv, InHeader
  <2>3. CASE row \in Pairs
    BY <1>6, <2>3
  <2> QED
    BY <1>2, <2>1, <2>2, <2>3 DEF Regular
<1>8. CASE mode = "line" /\ k # NULL
  <2>1. EndOfLine /\ Stores
    BY <1>2, <1>8, EndStores, OneAction
  <2>2. mode' = "line" /\ k' = NULL /\ s' = <<>> /\ add_pair(k[1], s)
    BY <2>1 DEF EndOfLine, NewCall
  <2> QED
    BY <1>1, <2>1, <2>2, BetweenNext
<1>9. CASE mode = "line" /\ k = NULL
  <2>1. Skip(Char) /\ row \notin Pairs
    BY <1>6, <1>9, OneAction
  <2>2. UNCHANGED <<mode, s, k, sections, place>>
    BY <2>1 DEF Skip, line
  <2>3. s = <<>>
    <3>1. CASE Bare[row] = <<>>
      BY <1>2, <1>5, <1>9, <3>1 DEF LineInv, InEmpty, Between
    <3>2. CASE row \in Headers
      BY <1>2, <3>2 DEF LineInv, InHeader
    <3> QED
      BY <1>2, <2>1, <3>1, <3>2 DEF Regular
  <2> QED
    BY <1>1, <1>9, <2>1, <2>2, <2>3, BetweenNext
<1>10. CASE mode = "comment"
  <2>1. Comment(Char)
    BY <1>10, OneAction
  <2>2. mode' = "line" /\ UNCHANGED <<s, k, sections, place>>
    BY <1>10, <2>1 DEF Comment
  <2>3. CommentsAlone => row \notin Pairs
    <3>1. ASSUME CommentsAlone, row \in Pairs
          PROVE  FALSE
      <4>1. Len(Sofar) = Len(Bare[row])
        BY <1>2, <3>1 DEF CommentsAlone
      <4> QED
        BY <1>3, <1>6, <1>10, <3>1, <4>1
    <3> QED
      BY <3>1
  <2>4. Between
    <3>1. CASE Bare[row] = <<>>
      BY <1>2, <1>5, <3>1 DEF LineInv, InEmpty
    <3>2. CASE row \in Headers
      BY <1>2, <3>2 DEF LineInv, InHeader, Between
    <3>3. CASE row \in Pairs
      <4>1. Stores
        BY <1>6, <3>3, PairStores
      <4> QED
        BY <2>3, <3>3, <4>1 DEF Stores, Between
    <3> QED
      BY <1>2, <3>1, <3>2, <3>3 DEF Regular
  <2> QED
    BY <1>1, <2>2, <2>3, <2>4, BetweenNext DEF Between
<1> QED
  BY <1>7, <1>8, <1>9, <1>10

\* A pair is not empty.
LEMMA PairNotEmpty ==
  ASSUME Typed, NEW i \in Pairs
  PROVE  Len(lines[i]) >= 1 /\ Len(Bare[i]) >= 1
<1>1. i \in DOMAIN lines /\ Mark(i) \in 1 .. Len(Bare[i]) /\ Bare[i] \in Line /\ lines[i] \in Line
      /\ Starts(Bare[i], Solid[i])
  BY PairFacts, BareFacts, LinesTyped
<1>2. Len(Bare[i]) \in Nat /\ Len(Bare[i]) >= 1 /\ Len(lines[i]) \in Nat
  BY <1>1 DEF Line
<1>3. CASE Len(lines[i]) = 0
  <2>1. Solid[i] = <<>>
    BY <1>1, <1>3, SolidsRecursion DEF Solid
  <2> QED
    BY <1>1, <1>2, <2>1 DEF Starts
<1> QED
  BY <1>2, <1>3

\* The end of the file.
LEMMA AtEndFacts ==
  ASSUME Typed, AtEnd
  PROVE  /\ row \in DOMAIN lines => row = Len(lines) /\ Sofar = Solid[row] /\ Len(Sofar) >= Len(Bare[row])
         /\ \A i \in DOMAIN lines : i < row \/ i = row
<1>1. lines \in Seq(Line) /\ row \in 1 .. (Len(lines) + 1) /\ col \in Nat \ {0}
      /\ (row <= Len(lines) => col <= Len(lines[row]) + 1)
  BY LinesTyped DEF Typed, ReadTyped, PositionTyped
<1>2. CASE row \in DOMAIN lines
  <2>1. lines[row] \in Seq(Chars) /\ row <= Len(lines)
    BY <1>1, <1>2 DEF Line
  <2>2. row = Len(lines) /\ ~ InLine
    BY <1>1, <2>1 DEF AtEnd
  <2>3. col = Len(lines[row]) + 1
    BY <1>1, <2>1, <2>2 DEF InLine
  <2>4. Sofar = Solid[row]
    BY <1>2, <2>3, SofarFacts
  <2>5. Len(Sofar) >= Len(Bare[row])
    BY <1>2, <2>4, BareFacts DEF Starts
  <2> QED
    BY <1>1, <2>2, <2>4, <2>5
<1>3. CASE row \notin DOMAIN lines
  BY <1>1, <1>3
<1> QED
  BY <1>2, <1>3

\* At the end of the file an open pair is stored first; then everything was.
LEMMA EndOfFileStep ==
  ASSUME Typed, LineInv, HeadersInv, Regular, EndOfFile, UNCHANGED file
  PROVE  /\ LineInv'
         /\ \/ /\ Stores /\ add_pair(k[1], s)
               /\ k' = NULL /\ AtEnd /\ UNCHANGED <<file, position>>
            \/ /\ place' = "apply" /\ UNCHANGED sections
               /\ \A h \in Headers : HeaderStored(h)
               /\ CommentsAlone => \A i \in Pairs : PairStored(i)
<1>1. place = "read" /\ AtEnd /\ row' = row /\ col' = col /\ lines' = lines /\ newline' = newline
  BY DEF EndOfFile, GetsEOF, position, file
<1>2. /\ row \in DOMAIN lines => row = Len(lines) /\ Sofar = Solid[row] /\ Len(Sofar) >= Len(Bare[row])
      /\ \A i \in DOMAIN lines : i < row \/ i = row
  BY <1>1, AtEndFacts
<1>3. Sofar' = Sofar /\ AtEnd'
  BY <1>1 DEF Sofar, AtEnd, InLine
<1>4. Bare' = Bare /\ Headers' = Headers /\ Pairs' = Pairs /\ (Regular' <=> Regular)
  BY <1>1, SameFile
<1>5. lines \in Seq(Line) /\ row \in 1 .. (Len(lines) + 1)
  BY LinesTyped DEF Typed, ReadTyped, PositionTyped
<1>6. row \in DOMAIN lines => /\ Bare[row] \in Line /\ Len(Bare[row]) \in Nat
                              /\ Sofar \in Line /\ Len(Sofar) \in Nat
  BY BareFacts, SofarFacts DEF Line
<1>7. CASE mode = "line" /\ k # NULL
  <2>1. Stores
    BY <1>1, <1>2, <1>7, EndStores
  <2>2. add_pair(k[1], s) /\ mode' = "line" /\ k' = NULL /\ s' = <<>>
    BY <1>7 DEF EndOfFile, NewCall
  <2>3. Between'
    BY <1>1, <2>2, BetweenNext
  <2>4. row \in DOMAIN lines /\ Bare[row] = <<>> => InEmpty'
    <3>1. ASSUME row \in DOMAIN lines, Bare[row] = <<>>
          PROVE  InEmpty'
      <4>1. Sofar = <<>>
        BY <1>1, <1>5, <1>7, <3>1 DEF LineInv, InEmpty
      <4> QED
        BY <1>3, <2>2, <2>3, <4>1 DEF InEmpty
    <3> QED
      BY <3>1
  <2>5. row \notin Headers
    <3>1. SUFFICES ASSUME row \in Headers
                   PROVE  FALSE
      OBVIOUS
    <3>2. row \in DOMAIN lines
      BY <3>1, HeaderFacts
    <3> QED
      BY <1>1, <1>2, <1>7, <3>1, <3>2 DEF LineInv, InHeader
  <2>6. row \in Pairs => InPair'
    <3>1. SUFFICES ASSUME row \in Pairs
                   PROVE  InPair'
      OBVIOUS
    <3>2. row \in DOMAIN lines /\ Mark(row) \in 1 .. Len(Bare[row]) /\ \A i : Mark(i)' = Mark(i)
      BY <1>1, <3>1, PairFacts, SameFile
    <3>3. ~ (Len(Sofar) < Mark(row)) /\ LastStored'
      BY <1>2, <1>3, <1>6, <2>2, <3>2 DEF LastStored, NULL
    <3> QED
      BY <1>1, <1>3, <3>2, <3>3 DEF InPair
  <2>7. LineInv'
    <3>1. Headers \subseteq DOMAIN lines /\ Pairs \subseteq DOMAIN lines
      BY DEF Headers, Pairs
    <3> QED
      BY <1>1, <1>4, <1>5, <2>2, <2>3, <2>4, <2>5, <2>6 DEF LineInv
  <2> QED
    BY <1>1, <2>1, <2>2, <2>7 DEF position, file
<1>8. CASE ~ (mode = "line" /\ k # NULL)
  <2>1. place' = "apply" /\ UNCHANGED sections
    BY <1>8 DEF EndOfFile
  <2>2. LineInv'
    BY <2>1 DEF LineInv
  <2>3. ASSUME NEW h \in Headers
        PROVE  HeaderStored(h)
    BY <1>2, HeaderFacts DEF HeaderStored
  <2>4. ASSUME CommentsAlone, NEW i \in Pairs
        PROVE  PairStored(i)
    <3>1. i \in DOMAIN lines /\ Mark(i) \in 1 .. Len(Bare[i])
      BY PairFacts
    <3>2. CASE i = row
      <4>1. Len(Sofar) = Len(Bare[row]) /\ Len(Sofar) >= Mark(row)
        BY <1>2, <1>6, <2>4, <3>1, <3>2 DEF CommentsAlone
      <4>2. Len(Sofar) <= Len(Bare[row])
        BY <1>6, <3>1, <3>2, <4>1
      <4>3. ~ LastStored => mode = "line" /\ k # NULL
        BY <1>1, <3>2, <4>1, <4>2 DEF LineInv, InPair
      <4> QED
        BY <1>8, <3>2, <4>3 DEF PairStored
    <3> QED
      BY <1>2, <3>1, <3>2 DEF PairStored
  <2> QED
    BY <2>1, <2>2, <2>3, <2>4
<1> QED
  BY <1>7, <1>8

\* What ini_parse does to the sections, and how far it is then.
Quiet ==
  /\ UNCHANGED <<sections, place>>
  /\ \A h \in Headers : HeaderStored(h)' <=> HeaderStored(h)
  /\ CommentsAlone => \A i \in Pairs : PairStored(i)' <=> PairStored(i)

NewSection ==
  /\ row \in Headers /\ Over(s, NameOf(row)) /\ get_section(s)
  /\ ~ HeaderStored(row)
  /\ \A h \in Headers : HeaderStored(h)' <=> HeaderStored(h) \/ h = row
  /\ CommentsAlone => \A i \in Pairs : PairStored(i)' <=> PairStored(i)

NewPair ==
  /\ Stores /\ add_pair(k[1], s)
  /\ \A h \in Headers : HeaderStored(h)' <=> HeaderStored(h)
  /\ CommentsAlone => /\ ~ PairStored(row)
                      /\ \A i \in Pairs : PairStored(i)' <=> PairStored(i) \/ i = row

Complete ==
  /\ place' = "apply" /\ UNCHANGED sections
  /\ \A h \in Headers : HeaderStored(h)
  /\ CommentsAlone => \A i \in Pairs : PairStored(i)

\* How far it is after a character in a line.
LEMMA StoredInLine ==
  ASSUME Typed, lines' = lines, row' = row, row \in DOMAIN lines, ~ AtEnd,
         row \in Headers => (Len(Sofar') >= Len(Bare[row]) <=> Len(Sofar) >= Len(Bare[row])),
         row \in Pairs /\ AtEnd' => k' # NULL
  PROVE  /\ \A h \in Headers : HeaderStored(h)' <=> HeaderStored(h)
         /\ \A i \in Pairs : PairStored(i)' <=> PairStored(i)
<1>1. Bare' = Bare
  BY SameFile
<1>2. ASSUME NEW h \in Headers
      PROVE  HeaderStored(h)' <=> HeaderStored(h)
  BY <1>1 DEF HeaderStored
<1>3. ASSUME NEW i \in Pairs
      PROVE  PairStored(i)' <=> PairStored(i)
  BY DEF PairStored, LastStored, NULL
<1> QED
  BY <1>2, <1>3

\* And after the end of a line.
LEMMA StoredNextLine ==
  ASSUME Typed, lines' = lines, row' = row + 1, col' = 1, row \in DOMAIN lines, ~ AtEnd,
         Sofar' = <<>>, Len(Sofar) >= Len(Bare[row])
  PROVE  /\ \A h \in Headers : HeaderStored(h)' <=> HeaderStored(h)
         /\ \A i \in Pairs : PairStored(i)' <=> PairStored(i) \/ i = row
         /\ ~ PairStored(row)
<1>1. Bare' = Bare /\ lines \in Seq(Line) /\ row \in Nat
  BY SameFile, LinesTyped
<1>2. ASSUME NEW h \in Headers
      PROVE  HeaderStored(h)' <=> HeaderStored(h)
  <2>1. h \in Nat /\ Len(Bare[h]) > 2 /\ Len(Bare[h]) \in Nat
    BY <1>1, HeaderFacts, BareFacts DEF Line
  <2>2. HeaderStored(h)' <=> h < row + 1 \/ (h = row + 1 /\ 0 >= Len(Bare[h]))
    BY <1>1 DEF HeaderStored
  <2> QED
    BY <1>1, <2>1, <2>2 DEF HeaderStored
<1>3. ASSUME NEW i \in Pairs
      PROVE  PairStored(i)' <=> PairStored(i) \/ i = row
  <2>1. i \in 1 .. Len(lines) /\ Len(lines[i]) >= 1
    BY <1>1, PairFacts, PairNotEmpty
  <2>2. i = row + 1 => ~ AtEnd'
    BY <1>1, <2>1 DEF AtEnd, InLine
  <2>3. PairStored(i)' <=> i < row + 1
    BY <2>2 DEF PairStored, LastStored
  <2>4. PairStored(i) <=> i < row
    BY DEF PairStored, LastStored
  <2> QED
    BY <1>1, <2>1, <2>3, <2>4
<1>4. ~ PairStored(row)
  BY <1>1 DEF PairStored, LastStored
<1> QED
  BY <1>2, <1>3, <1>4

\* At the end of the file the whole line was read.
LEMMA AtEndNext ==
  ASSUME Typed, lines' = lines, row' = row, row \in DOMAIN lines, Gets(Char), Char # NL, AtEnd',
         UNCHANGED file
  PROVE  Sofar' = Solid[row]
<1>1. col \in DOMAIN lines[row] /\ col' = col + 1 /\ lines[row] \in Seq(Chars) /\ lines \in Seq(Line)
  BY GetsChar, LinesTyped DEF Line
<1>2. row \in 1 .. Len(lines)
  BY <1>1
<1>3. ~ (row <= Len(lines) /\ col + 1 <= Len(lines[row]))
  BY <1>1, <1>2 DEF AtEnd, InLine
<1>4. col = Len(lines[row])
  BY <1>1, <1>2, <1>3
<1>5. Sofar' = Solids(lines[row])[(col + 1) - 1]
  BY <1>1, <1>2 DEF Sofar
<1>6. (col + 1) - 1 = col
  BY <1>1
<1> QED
  BY <1>4, <1>5, <1>6 DEF Solid

\* ini_parse keeps LineInv, and every step of it does one of the four things.
LEMMA ParseStep ==
  ASSUME Typed, Typed', LineInv, HeadersInv, Regular, ini_parse
  PROVE  LineInv' /\ (Quiet \/ NewSection \/ NewPair \/ Complete)
<1>1. UNCHANGED file /\ lines' = lines
  BY DEF ini_parse, file
<1>2. CASE EndOfFile
  <2>1. LineInv'
    BY <1>1, <1>2, EndOfFileStep
  <2>2. CASE /\ Stores /\ add_pair(k[1], s)
             /\ k' = NULL /\ AtEnd /\ UNCHANGED <<file, position>>
    <3>1. Sofar' = Sofar /\ Bare' = Bare /\ row' = row /\ AtEnd'
      BY <1>1, <2>2, SameFile DEF Sofar, file, position, AtEnd, InLine
    <3>2. \A h \in Headers : HeaderStored(h)' <=> HeaderStored(h)
      BY <3>1 DEF HeaderStored
    <3>3. ~ PairStored(row)
      <4>1. row \in Nat
        BY DEF Typed, ReadTyped, PositionTyped
      <4> QED
        BY <2>2, <4>1 DEF PairStored, LastStored, Stores
    <3>4. \A i \in Pairs : PairStored(i)' <=> PairStored(i) \/ i = row
      BY <2>2, <3>1 DEF PairStored, LastStored, NULL
    <3> QED
      BY <2>1, <2>2, <3>2, <3>3, <3>4 DEF NewPair
  <2> QED
    BY <1>1, <1>2, <2>1, <2>2, EndOfFileStep DEF Complete
<1>3. CASE ~ EndOfFile
  <2>1. Gets(Char) /\ place = "read" /\ ~ AtEnd
    BY <1>3, OneAction DEF Gets
  <2>2. row \in DOMAIN lines
    BY <2>1, GetsChar
  <2>3. CASE Char = NL
    <3>1. /\ LineInv'
          /\ \/ Stores /\ add_pair(k[1], s)
             \/ UNCHANGED <<sections, place>> /\ (CommentsAlone => row \notin Pairs)
      BY <1>3, <2>1, <2>3, NewlineStep
    <3>2. row' = row + 1 /\ col' = 1 /\ Sofar' = <<>> /\ Len(Sofar) >= Len(Bare[row])
      BY <1>1, <2>1, <2>3, GetsChar, SofarStep, NextOfBare DEF NL, BLANK
    <3>3. /\ \A h \in Headers : HeaderStored(h)' <=> HeaderStored(h)
          /\ \A i \in Pairs : PairStored(i)' <=> PairStored(i) \/ i = row
          /\ ~ PairStored(row)
      BY <1>1, <2>1, <2>2, <3>2, StoredNextLine
    <3>4. CASE Stores /\ add_pair(k[1], s)
      BY <3>1, <3>3, <3>4 DEF NewPair
    <3>5. CASE UNCHANGED <<sections, place>> /\ (CommentsAlone => row \notin Pairs)
      BY <3>1, <3>3, <3>5 DEF Quiet
    <3> QED
      BY <3>1, <3>4, <3>5
  <2>4. CASE Char # NL
    <3>1. row' = row
      BY <1>1, <2>1, <2>4, GetsChar
    <3>2. CASE Bare[row] = <<>>
      <4>1. row \notin Headers /\ row \notin Pairs
        BY <3>2, HeaderFacts, PairNotEmpty
      <4>2. LineInv'
        BY <1>3, <2>1, <2>4, <3>2, EmptyStep
      <4>3. UNCHANGED <<sections, place>>
        <5>1. mode \in {"line", "comment"} /\ (mode = "line" => Char \in {BLANK, "#"})
          <6>1. InEmpty /\ Len(Sofar) \in Nat /\ Len(Bare[row]) = 0
            <7>1. lines \in Seq(Line)
              BY LinesTyped
            <7> QED
              BY <1>1, <2>1, <2>2, <3>2, <7>1, NextOfBare DEF LineInv
          <6>2. mode = "line" => Len(Sofar) = Len(Bare[row])
            BY <6>1 DEF InEmpty
          <6> QED
            BY <1>1, <2>1, <2>4, <6>1, <6>2, NextOfBare DEF InEmpty
        <5>2. Skip(Char) \/ Comment(Char)
          BY <1>3, <2>4, <5>1, OneAction
        <5> QED
          BY <5>2 DEF Skip, Comment
      <4>4. Quiet
        BY <1>1, <2>1, <2>2, <3>1, <4>1, <4>3, StoredInLine DEF Quiet
      <4> QED
        BY <4>2, <4>4
    <3>3. CASE row \in Headers
      <4>1. /\ LineInv'
            /\ IF Len(Sofar) = Len(Bare[row]) - 1
               THEN CloseName /\ Over(s, NameOf(row)) /\ Len(Sofar') = Len(Bare[row])
               ELSE /\ UNCHANGED <<sections, place>>
                    /\ Len(Sofar') >= Len(Bare[row]) <=> Len(Sofar) >= Len(Bare[row])
        BY <1>3, <2>1, <2>4, <3>3, HeaderStep
      <4>2. row \notin Pairs
        BY <3>3, HeaderNoPair
      <4>3. CASE Len(Sofar) = Len(Bare[row]) - 1
        <5>1. get_section(s) /\ Over(s, NameOf(row)) /\ Len(Sofar') = Len(Bare[row])
          BY <4>1, <4>3 DEF CloseName
        <5>2. Bare' = Bare /\ Len(Bare[row]) \in Nat /\ row \in Nat
          BY <1>1, <2>2, SameFile, BareFacts DEF Line, Typed, ReadTyped, PositionTyped
        <5>3. ~ HeaderStored(row)
          BY <4>3, <5>2 DEF HeaderStored
        <5>4. \A h \in Headers : HeaderStored(h)' <=> HeaderStored(h) \/ h = row
          BY <3>1, <5>1, <5>2 DEF HeaderStored
        <5>5. \A i \in Pairs : PairStored(i)' <=> PairStored(i)
          BY <3>1, <4>2 DEF PairStored
        <5> QED
          BY <3>3, <4>1, <5>1, <5>3, <5>4, <5>5 DEF NewSection
      <4>4. CASE Len(Sofar) # Len(Bare[row]) - 1
        BY <1>1, <2>1, <2>2, <3>1, <4>1, <4>2, <4>4, StoredInLine DEF Quiet
      <4> QED
        BY <4>3, <4>4
    <3>4. CASE row \in Pairs
      <4>1. /\ LineInv' /\ UNCHANGED <<sections, place>>
            /\ Len(Sofar') >= Mark(row) => k' # NULL
        BY <1>3, <2>1, <2>4, <3>4, PairStep
      <4>2. row \notin Headers
        BY <3>4, HeaderNoPair
      <4>3. AtEnd' => k' # NULL
        <5>1. ASSUME AtEnd'
              PROVE  Len(Sofar') >= Mark(row)
          <6>1. Sofar' = Solid[row]
            BY <1>1, <2>1, <2>2, <2>4, <3>1, <5>1, AtEndNext
          <6>2. Len(Solid[row]) \in Nat /\ Len(Bare[row]) \in Nat /\ Len(Bare[row]) <= Len(Solid[row])
                /\ Mark(row) \in 1 .. Len(Bare[row])
            BY <2>2, <3>4, PairFacts, BareFacts, SolidTyped DEF Line, Starts
          <6> QED
            BY <6>1, <6>2
        <5> QED
          BY <4>1, <5>1
      <4> QED
        BY <1>1, <2>1, <2>2, <3>1, <4>1, <4>2, <4>3, StoredInLine DEF Quiet
    <3> QED
      BY <2>2, <3>2, <3>3, <3>4 DEF Regular
  <2> QED
    BY <2>3, <2>4
<1> QED
  BY <1>2, <1>3

-----------------------------------------------------------------------------
(***************************************************************************)
(* The sections and pairs that are stored.                                 *)
(***************************************************************************)
LEMMA NewPairsFields ==
  ASSUME NEW q \in Seq(SectionRecords), NEW n \in DOMAIN q, NEW pairs,
         NEW r, r = [q EXCEPT ![n].pairs = pairs]
  PROVE  /\ DOMAIN r = DOMAIN q
         /\ \A j \in DOMAIN q : /\ r[j].row = q[j].row /\ r[j].name = q[j].name
                                /\ r[j].pairs = IF j = n THEN pairs ELSE q[j].pairs
<1>1. r = [q EXCEPT ![n] = [q[n] EXCEPT !.pairs = pairs]]
  OBVIOUS
<1>2. q[n] \in SectionRecords
  OBVIOUS
<1>3. /\ [q[n] EXCEPT !.pairs = pairs].row = q[n].row
      /\ [q[n] EXCEPT !.pairs = pairs].name = q[n].name
      /\ [q[n] EXCEPT !.pairs = pairs].pairs = pairs
  BY <1>2 DEF SectionRecords
<1> QED
  BY <1>1, <1>3

\* add_pair changes the pairs of the last section only.
LEMMA AddPairFields ==
  ASSUME Typed, NEW key, NEW value, add_pair(key, value), sections # <<>>
  PROVE  /\ Len(sections) \in DOMAIN sections /\ DOMAIN sections' = DOMAIN sections
         /\ \A j \in DOMAIN sections :
              /\ sections'[j].row = sections[j].row /\ sections'[j].name = sections[j].name
              /\ sections'[j].pairs =
                   IF j = Len(sections)
                   THEN Append(sections[j].pairs, [key |-> key, value |-> value, row |-> row])
                   ELSE sections[j].pairs
<1> DEFINE n == Len(sections)
           pairs == Append(sections[n].pairs, [key |-> key, value |-> value, row |-> row])
<1>1. sections \in Seq(SectionRecords) /\ n \in DOMAIN sections
  BY DEF Typed, ReadTyped
<1>2. sections' = [sections EXCEPT ![n].pairs = pairs]
  BY DEF add_pair
<1> HIDE DEF n, pairs
<1>3. /\ DOMAIN sections' = DOMAIN sections
      /\ \A j \in DOMAIN sections :
           /\ sections'[j].row = sections[j].row /\ sections'[j].name = sections[j].name
           /\ sections'[j].pairs = IF j = n THEN pairs ELSE sections[j].pairs
  BY <1>1, <1>2, NewPairsFields
<1> QED
  BY <1>1, <1>3 DEF n, pairs

\* The new section is the last.
LEMMA GetSectionFields ==
  ASSUME Typed, NEW name, get_section(name)
  PROVE  LET n == Len(sections) IN
         /\ n \in Nat /\ DOMAIN sections = 1 .. n /\ DOMAIN sections' = 1 .. (n + 1)
         /\ \A j \in 1 .. n : sections'[j] = sections[j]
         /\ sections'[n + 1].row = row /\ sections'[n + 1].name = name
         /\ sections'[n + 1].pairs = <<>>
<1>1. sections \in Seq(SectionRecords)
  BY DEF Typed, ReadTyped
<1> DEFINE e == [name |-> name, row |-> row, pairs |-> <<>>]
<1>2. sections' = Append(sections, e)
  BY DEF get_section
<1>3. e.row = row /\ e.name = name /\ e.pairs = <<>>
  OBVIOUS
<1> HIDE DEF e
<1>4. /\ Len(sections) \in Nat /\ DOMAIN sections = 1 .. Len(sections)
      /\ DOMAIN sections' = 1 .. (Len(sections) + 1)
      /\ \A j \in 1 .. Len(sections) : sections'[j] = sections[j]
      /\ sections'[Len(sections) + 1] = e
  BY <1>1, <1>2
<1> QED
  BY <1>3, <1>4

\* Each of the four keeps HeadersInv...
LEMMA HeadersNext ==
  ASSUME Typed, HeadersInv, Regular, place = "read", lines' = lines,
         Quiet \/ NewSection \/ NewPair \/ Complete
  PROVE  HeadersInv'
<1>1. Headers' = Headers /\ (\A h : NameOf(h)' = NameOf(h)) /\ (\A t, u : Over(t, u)' <=> Over(t, u))
  BY SameFile, SameParts
<1>2. sections \in Seq(SectionRecords)
  BY DEF Typed, ReadTyped
<1>3. SUFFICES /\ \A j \in DOMAIN sections' :
                    sections'[j].row \in Headers /\ Over(sections'[j].name, NameOf(sections'[j].row))
               /\ \A i, j \in DOMAIN sections' : i < j => sections'[i].row < sections'[j].row
               /\ place' = "read" =>
                    \A h \in Headers :
                      HeaderStored(h)' <=> \E j \in DOMAIN sections' : sections'[j].row = h
  BY <1>1 DEF HeadersInv
<1>4. CASE Quiet
  BY <1>4 DEF Quiet, HeadersInv
<1>5. CASE NewSection
  <2> DEFINE n == Len(sections)
  <2>1. /\ n \in Nat /\ DOMAIN sections = 1 .. n /\ DOMAIN sections' = 1 .. (n + 1)
        /\ \A j \in 1 .. n : sections'[j] = sections[j]
        /\ sections'[n + 1].row = row /\ sections'[n + 1].name = s
    BY <1>5, GetSectionFields DEF NewSection
  <2> HIDE DEF n
  <2>2. \A j \in 1 .. n : sections[j].row < row
    <3>1. ASSUME NEW j \in 1 .. n
          PROVE  sections[j].row < row
      <4>1. sections[j].row \in Headers /\ HeaderStored(sections[j].row)
        BY <2>1 DEF HeadersInv
      <4>2. sections[j].row # row
        BY <1>5, <4>1 DEF NewSection
      <4> QED
        BY <4>1, <4>2 DEF HeaderStored
    <3> QED
      BY <3>1
  <2>3. \A j \in 1 .. (n + 1) :
          sections'[j].row \in Headers /\ Over(sections'[j].name, NameOf(sections'[j].row))
    BY <1>5, <2>1 DEF NewSection, HeadersInv
  <2>4. ASSUME NEW i \in 1 .. (n + 1), NEW j \in 1 .. (n + 1), i < j
        PROVE  sections'[i].row < sections'[j].row
    <3>1. i \in 1 .. n
      BY <2>1, <2>4
    <3>2. CASE j = n + 1
      BY <2>1, <2>2, <3>1, <3>2
    <3>3. CASE j # n + 1
      <4>1. j \in 1 .. n
        BY <2>1, <3>3
      <4> QED
        BY <2>1, <2>4, <3>1, <4>1 DEF HeadersInv
    <3> QED
      BY <3>2, <3>3
  <2>5. ASSUME NEW h \in Headers
        PROVE  HeaderStored(h)' <=> \E j \in 1 .. (n + 1) : sections'[j].row = h
    <3>1. HeaderStored(h)' <=> HeaderStored(h) \/ h = row
      BY <1>5 DEF NewSection
    <3>2. HeaderStored(h) <=> \E j \in 1 .. n : sections[j].row = h
      BY <2>1 DEF HeadersInv
    <3>3. (\E j \in 1 .. (n + 1) : sections'[j].row = h)
            <=> (\E j \in 1 .. n : sections[j].row = h) \/ h = row
      <4>1. \A j \in 1 .. (n + 1) : j \in 1 .. n \/ j = n + 1
        BY <2>1
      <4>2. n + 1 \in 1 .. (n + 1) /\ \A j \in 1 .. n : j \in 1 .. (n + 1)
        BY <2>1
      <4> QED
        BY <2>1, <4>1, <4>2
    <3> QED
      BY <3>1, <3>2, <3>3
  <2> QED
    BY <2>1, <2>3, <2>4, <2>5
<1>6. CASE NewPair
  <2>1. DOMAIN sections' = DOMAIN sections
        /\ \A j \in DOMAIN sections :
             sections'[j].row = sections[j].row /\ sections'[j].name = sections[j].name
    <3>1. CASE sections = <<>>
      BY <1>6, <3>1 DEF NewPair, add_pair
    <3>2. CASE sections # <<>>
      BY <1>6, <3>2, AddPairFields DEF NewPair
    <3> QED
      BY <3>1, <3>2
  <2>2. \A h \in Headers : HeaderStored(h)' <=> HeaderStored(h)
    BY <1>6 DEF NewPair
  <2> QED
    BY <2>1, <2>2 DEF HeadersInv
<1>7. CASE Complete
  BY <1>7 DEF Complete, HeadersInv
<1> QED
  BY <1>4, <1>5, <1>6, <1>7

\* ...and GenuineInv...
LEMMA GenuineNext ==
  ASSUME Typed, GenuineInv, Regular, lines' = lines,
         Quiet \/ NewSection \/ NewPair \/ Complete
  PROVE  GenuineInv'
<1>1. \A h, key, value : GivenIn(h, key, value)' <=> GivenIn(h, key, value)
  BY SameParts
<1>2. sections \in Seq(SectionRecords)
  BY DEF Typed, ReadTyped
<1>3. SUFFICES \A j \in DOMAIN sections' : \A n \in DOMAIN sections'[j].pairs :
                 GivenIn(sections'[j].row, sections'[j].pairs[n].key, sections'[j].pairs[n].value)
  BY <1>1 DEF GenuineInv
<1>4. CASE Quiet \/ Complete
  BY <1>4 DEF Quiet, Complete, GenuineInv
<1>5. CASE NewSection
  <2> DEFINE n == Len(sections)
  <2>1. /\ n \in Nat /\ DOMAIN sections = 1 .. n /\ DOMAIN sections' = 1 .. (n + 1)
        /\ \A j \in 1 .. n : sections'[j] = sections[j]
        /\ sections'[n + 1].pairs = <<>>
    BY <1>5, GetSectionFields DEF NewSection
  <2> HIDE DEF n
  <2>2. \A j \in 1 .. (n + 1) : j \in 1 .. n \/ j = n + 1
    BY <2>1
  <2> QED
    BY <2>1, <2>2 DEF GenuineInv
<1>6. CASE NewPair /\ sections = <<>>
  BY <1>6 DEF NewPair, add_pair, GenuineInv
<1>7. CASE NewPair /\ sections # <<>>
  <2> DEFINE last == Len(sections)
             pair == [key |-> k[1], value |-> s, row |-> row]
  <2>1. /\ last \in DOMAIN sections /\ DOMAIN sections' = DOMAIN sections
        /\ \A j \in DOMAIN sections :
             /\ sections'[j].row = sections[j].row
             /\ sections'[j].pairs = IF j = last THEN Append(sections[j].pairs, pair) ELSE sections[j].pairs
    BY <1>7, AddPairFields DEF NewPair
  <2>2. GivenIn(sections[last].row, pair.key, pair.value)
    BY <1>7 DEF NewPair, Stores, Last
  <2>3. \A j \in DOMAIN sections : sections[j].pairs \in Seq(PairRecords)
    BY <1>2, SectionFields
  <2> HIDE DEF last, pair
  <2>4. SUFFICES ASSUME NEW j \in DOMAIN sections, NEW n \in DOMAIN sections'[j].pairs
                 PROVE  GivenIn(sections[j].row, sections'[j].pairs[n].key, sections'[j].pairs[n].value)
    BY <2>1
  <2>5. CASE j = last
    <3> DEFINE pairs == sections[j].pairs
    <3>1. sections'[j].pairs = Append(pairs, pair) /\ pairs \in Seq(PairRecords)
      BY <2>1, <2>3, <2>5
    <3>2. \A m \in DOMAIN pairs : GivenIn(sections[j].row, pairs[m].key, pairs[m].value)
      BY DEF GenuineInv
    <3> HIDE DEF pairs
    <3>3. (n \in DOMAIN pairs /\ Append(pairs, pair)[n] = pairs[n]) \/ Append(pairs, pair)[n] = pair
      BY <3>1
    <3> QED
      BY <2>2, <2>5, <3>1, <3>2, <3>3
  <2>6. CASE j # last
    BY <2>1, <2>6 DEF GenuineInv
  <2> QED
    BY <2>5, <2>6
<1> QED
  BY <1>4, <1>5, <1>6, <1>7

-----------------------------------------------------------------------------
\* A pair is added behind the others, or the first one is taken away.
LEMMA AppendPairs ==
  ASSUME NEW h, NEW pairs \in Seq(PairRecords), PairsRead(h, pairs), NEW e \in PairRecords,
         e.row \in Section(h), e.key = KeyOf(e.row), e.value = ValueOf(e.row),
         \A i \in Rows(pairs) : i < e.row
  PROVE  /\ PairsRead(h, Append(pairs, e))
         /\ Rows(Append(pairs, e)) = Rows(pairs) \cup {e.row}
<1> DEFINE n == Len(pairs)
           r == Append(pairs, e)
<1>1. /\ n \in Nat /\ DOMAIN pairs = 1 .. n /\ DOMAIN r = 1 .. (n + 1)
      /\ \A m \in 1 .. n : r[m] = pairs[m]
      /\ r[n + 1] = e
  OBVIOUS
<1> HIDE DEF n, r
<1>2. (\A m \in 1 .. (n + 1) : m \in 1 .. n \/ m = n + 1) /\ n + 1 \in 1 .. (n + 1)
      /\ \A m \in 1 .. n : m \in 1 .. (n + 1)
  BY <1>1
<1>3. Rows(r) = Rows(pairs) \cup {e.row}
  BY <1>1, <1>2 DEF Rows
<1>4. ASSUME NEW m \in 1 .. (n + 1)
      PROVE  r[m].row \in Section(h) /\ r[m].key = KeyOf(r[m].row) /\ r[m].value = ValueOf(r[m].row)
  BY <1>1, <1>2 DEF PairsRead
<1>5. ASSUME NEW m \in 1 .. (n + 1), NEW l \in 1 .. (n + 1), m < l
      PROVE  r[m].row < r[l].row
  <2>1. m \in 1 .. n
    BY <1>1, <1>5
  <2>2. CASE l = n + 1
    BY <1>1, <2>1, <2>2 DEF Rows
  <2>3. CASE l \in 1 .. n
    BY <1>1, <1>5, <2>1, <2>3 DEF PairsRead
  <2> QED
    BY <1>2, <2>2, <2>3
<1>6. PairsRead(h, r)
  BY <1>1, <1>4, <1>5 DEF PairsRead
<1> QED
  BY <1>3, <1>6 DEF r

\* The first pair is taken away: it is the one of the first line.
LEMMA TailPairs ==
  ASSUME NEW h, NEW pairs \in Seq(PairRecords), PairsRead(h, pairs), pairs # <<>>
  PROVE  /\ PairsRead(h, Tail(pairs))
         /\ Rows(Tail(pairs)) = Rows(pairs) \ {Head(pairs).row}
         /\ Head(pairs).row \in Rows(pairs) \cap Section(h)
         /\ Head(pairs).key = KeyOf(Head(pairs).row) /\ Head(pairs).value = ValueOf(Head(pairs).row)
         /\ \A i \in Rows(Tail(pairs)) : Head(pairs).row < i
<1> DEFINE n == Len(pairs)
           r == Tail(pairs)
<1>1. /\ n \in Nat \ {0} /\ DOMAIN pairs = 1 .. n /\ DOMAIN r = 1 .. (n - 1)
      /\ \A m \in 1 .. (n - 1) : r[m] = pairs[m + 1]
      /\ Head(pairs) = pairs[1]
      /\ \A m \in 1 .. n : pairs[m] \in PairRecords
  OBVIOUS
<1> HIDE DEF n, r
<1>2. (\A m \in 1 .. (n - 1) : m + 1 \in 1 .. n /\ m + 1 # 1 /\ 1 < m + 1) /\ 1 \in 1 .. n
  BY <1>1
<1>3. \A m \in 1 .. n : pairs[m].row \in Nat
  BY <1>1, PairFields
<1>4. ASSUME NEW m \in 1 .. (n - 1)
      PROVE  pairs[1].row < r[m].row
  BY <1>1, <1>2 DEF PairsRead
<1>5. Rows(r) = Rows(pairs) \ {pairs[1].row}
  <2>1. ASSUME NEW m \in 1 .. (n - 1)
        PROVE  r[m].row \in Rows(pairs) /\ r[m].row # pairs[1].row
    <3>1. r[m].row \in Rows(pairs)
      BY <1>1, <1>2 DEF Rows
    <3>2. pairs[1].row < r[m].row /\ pairs[1].row \in Nat
      BY <1>2, <1>3, <1>4
    <3> QED
      BY <3>1, <3>2
  <2>2. ASSUME NEW m \in 1 .. n, pairs[m].row # pairs[1].row
        PROVE  pairs[m].row \in Rows(r)
    <3>1. m - 1 \in 1 .. (n - 1) /\ (m - 1) + 1 = m
      BY <1>1, <2>2
    <3>2. r[m - 1] = pairs[m]
      BY <1>1, <3>1
    <3> QED
      BY <1>1, <3>1, <3>2 DEF Rows
  <2>3. Rows(r) \subseteq Rows(pairs) \ {pairs[1].row}
    BY <1>1, <2>1 DEF Rows
  <2>4. Rows(pairs) \ {pairs[1].row} \subseteq Rows(r)
    BY <1>1, <2>2 DEF Rows
  <2> QED
    BY <2>3, <2>4
<1>6. ASSUME NEW m \in 1 .. (n - 1)
      PROVE  r[m].row \in Section(h) /\ r[m].key = KeyOf(r[m].row) /\ r[m].value = ValueOf(r[m].row)
  BY <1>1, <1>2 DEF PairsRead
<1>7. ASSUME NEW m \in 1 .. (n - 1), NEW l \in 1 .. (n - 1), m < l
      PROVE  r[m].row < r[l].row
  <2>1. m + 1 \in 1 .. n /\ l + 1 \in 1 .. n /\ m + 1 < l + 1
    BY <1>2, <1>7
  <2> QED
    BY <1>1, <2>1 DEF PairsRead
<1>8. PairsRead(h, r)
  BY <1>1, <1>6, <1>7 DEF PairsRead
<1>9. pairs[1].row \in Rows(pairs) \cap Section(h)
      /\ pairs[1].key = KeyOf(pairs[1].row) /\ pairs[1].value = ValueOf(pairs[1].row)
  BY <1>1, <1>2 DEF PairsRead, Rows
<1>10. \A i \in Rows(r) : pairs[1].row < i
  BY <1>1, <1>4 DEF Rows
<1> QED
  BY <1>1, <1>5, <1>8, <1>9, <1>10 DEF r

\* What was read does not change while the file stays the same.
LEMMA SamePairs ==
  ASSUME lines' = lines
  PROVE  /\ \A h, pairs : PairsRead(h, pairs)' <=> PairsRead(h, pairs)
         /\ Plain' <=> Plain
<1>1. /\ \A h : Section(h)' = Section(h)
      /\ Regular' <=> Regular
      /\ CommentsAlone' <=> CommentsAlone
  BY SameFile
<1>2. \A i : KeyOf(i)' = KeyOf(i) /\ ValueOf(i)' = ValueOf(i)
  BY SameParts
<1> QED
  BY <1>1, <1>2 DEF PairsRead, Plain

\* ...and PairsInv.
LEMMA PairsNext ==
  ASSUME Typed, HeadersInv, PairsInv, Plain, place = "read", lines' = lines,
         Quiet \/ NewSection \/ NewPair \/ Complete
  PROVE  PairsInv'
<1>1. (\A h, pairs : PairsRead(h, pairs)' <=> PairsRead(h, pairs)) /\ (\A h : Section(h)' = Section(h))
  BY SameFile, SamePairs
<1>2. sections \in Seq(SectionRecords) /\ Regular /\ CommentsAlone /\ row \in Nat
  BY DEF Typed, ReadTyped, PositionTyped, Plain
<1>3. \A h : Section(h) \subseteq Pairs
  BY DEF Section
<1>4. SUFFICES ASSUME NEW j \in DOMAIN sections'
               PROVE  /\ PairsRead(sections'[j].row, sections'[j].pairs)
                      /\ place' = "read" =>
                           \A i \in Section(sections'[j].row) :
                             PairStored(i)' <=> i \in Rows(sections'[j].pairs)
  BY <1>1 DEF PairsInv, Rows
<1>5. CASE Quiet
  BY <1>2, <1>3, <1>5 DEF Quiet, PairsInv
<1>6. CASE NewSection
  <2> DEFINE n == Len(sections)
  <2>1. /\ n \in Nat /\ DOMAIN sections = 1 .. n /\ DOMAIN sections' = 1 .. (n + 1)
        /\ \A m \in 1 .. n : sections'[m] = sections[m]
        /\ sections'[n + 1].row = row /\ sections'[n + 1].pairs = <<>>
    BY <1>6, GetSectionFields DEF NewSection
  <2> HIDE DEF n
  <2>2. \A i \in Pairs : PairStored(i)' <=> PairStored(i)
    BY <1>2, <1>6 DEF NewSection
  <2>3. CASE j \in 1 .. n
    BY <1>3, <2>1, <2>2, <2>3 DEF PairsInv
  <2>4. CASE j = n + 1
    <3>1. sections'[j].row = row /\ sections'[j].pairs = <<>>
      BY <2>1, <2>4
    <3>2. PairsRead(row, <<>>) /\ Rows(<<>>) = {}
      BY DEF PairsRead, Rows
    <3>3. \A i \in Section(row) : ~ PairStored(i)'
      <4>1. ASSUME NEW i \in Section(row)
            PROVE  ~ PairStored(i)
        <5>1. row < i /\ i \in Nat
          <6>1. i \in DOMAIN lines /\ lines \in Seq(Line)
            BY <1>3, PairFacts, LinesTyped
          <6> QED
            BY <6>1 DEF Section
        <5> QED
          BY <1>2, <5>1 DEF PairStored
      <4> QED
        BY <1>3, <2>2, <4>1
    <3> QED
      BY <3>1, <3>2, <3>3
  <2> QED
    BY <2>1, <2>3, <2>4
<1>7. CASE NewPair /\ sections = <<>>
  BY <1>2, <1>7 DEF NewPair, add_pair
<1>8. CASE NewPair /\ sections # <<>>
  <2> DEFINE last == Len(sections)
             pair == [key |-> k[1], value |-> s, row |-> row]
  <2>1. /\ last \in DOMAIN sections /\ DOMAIN sections' = DOMAIN sections
        /\ \A m \in DOMAIN sections :
             /\ sections'[m].row = sections[m].row
             /\ sections'[m].pairs = IF m = last THEN Append(sections[m].pairs, pair) ELSE sections[m].pairs
    BY <1>8, AddPairFields DEF NewPair
  <2>2. row \in Pairs /\ k[1] = KeyOf(row) /\ s = ValueOf(row) /\ k[1] \in Text /\ s \in Text
        /\ ~ PairStored(row)
        /\ \A i \in Pairs : PairStored(i)' <=> PairStored(i) \/ i = row
    BY <1>2, <1>8 DEF NewPair, Stores, NULL, Typed, ReadTyped
  <2>3. row \in Section(sections[last].row)
    BY <1>2, <1>8, <2>2, LastHeader DEF Last
  <2>4. pair \in PairRecords /\ pair.row = row /\ pair.key = KeyOf(row) /\ pair.value = ValueOf(row)
    BY <1>2, <2>2 DEF PairRecords
  <2>5. sections[j] \in SectionRecords /\ sections[j].pairs \in Seq(PairRecords)
        /\ PairsRead(sections[j].row, sections[j].pairs)
        /\ \A i \in Section(sections[j].row) : PairStored(i) <=> i \in Rows(sections[j].pairs)
    BY <1>2, <2>1, SectionFields DEF PairsInv
  <2> HIDE DEF last, pair
  <2>6. CASE j = last
    <3> DEFINE h == sections[j].row
               pairs == sections[j].pairs
    <3>1. \A i \in Rows(pairs) : i < row
      <4>1. ASSUME NEW i \in Rows(pairs)
            PROVE  i < row
        <5>1. i \in Section(h)
          BY <2>5 DEF Rows, PairsRead
        <5>2. PairStored(i) /\ i # row
          BY <2>2, <2>5, <5>1
        <5> QED
          BY <5>2 DEF PairStored
      <4> QED
        BY <4>1
    <3> HIDE DEF h, pairs
    <3>2. PairsRead(h, Append(pairs, pair)) /\ Rows(Append(pairs, pair)) = Rows(pairs) \cup {row}
      BY <2>3, <2>4, <2>5, <2>6, <3>1, AppendPairs DEF h, pairs
    <3>3. \A i \in Section(h) : PairStored(i)' <=> i \in Rows(pairs) \cup {row}
      BY <1>3, <2>2, <2>5 DEF h, pairs
    <3> QED
      BY <2>1, <2>6, <3>2, <3>3 DEF h, pairs
  <2>7. CASE j # last
    <3>1. row \notin Section(sections[j].row)
      <4>1. sections[last].row \in Headers /\ sections[j].row < sections[last].row
        <5>1. j < last
          BY <1>2, <2>1, <2>7 DEF last
        <5> QED
          BY <1>2, <2>1, <5>1 DEF HeadersInv
      <4>2. sections[last].row < row
        BY <2>3 DEF Section
      <4> QED
        BY <4>1, <4>2 DEF Section
    <3>2. \A i \in Section(sections[j].row) : PairStored(i)' <=> i \in Rows(sections[j].pairs)
      BY <1>3, <2>2, <2>5, <3>1
    <3> QED
      BY <2>1, <2>5, <2>7, <3>2
  <2> QED
    BY <2>6, <2>7
<1>9. CASE Complete
  BY <1>9 DEF Complete, PairsInv
<1> QED
  BY <1>5, <1>6, <1>7, <1>8, <1>9

-----------------------------------------------------------------------------
(***************************************************************************)
(* How many sections and pairs there are.                                  *)
(***************************************************************************)
LEMMA Covered ==
  ASSUME NEW n \in Nat, NEW T, NEW f \in [1 .. n -> T], \A t \in T : \E m \in 1 .. n : f[m] = t
  PROVE  Cardinality(T) <= n
<1>1. f \in Surjection(1 .. n, T)
  BY DEF Surjection
<1> QED
  BY <1>1, FS_SurjCardinalityBound DEF ExistsSurjection

\* An ascending sequence is not longer than the set of its members is large.
LEMMA Distinct ==
  ASSUME NEW n \in Nat, NEW T, IsFiniteSet(T), NEW f \in [1 .. n -> T],
         \A m, l \in 1 .. n : m < l => f[m] < f[l],
         T \subseteq Nat
  PROVE  n <= Cardinality(T)
<1>1. \A m, l \in 1 .. n : m # l => f[m] # f[l]
  <2>1. ASSUME NEW m \in 1 .. n, NEW l \in 1 .. n, m # l
        PROVE  f[m] # f[l]
    <3>1. f[m] \in Nat /\ f[l] \in Nat
      OBVIOUS
    <3>2. m < l \/ l < m
      BY <2>1
    <3>3. f[m] < f[l] \/ f[l] < f[m]
      BY <3>2
    <3> QED
      BY <3>1, <3>3
  <2> QED
    BY <2>1
<1>2. f \in Injection(1 .. n, T)
  BY <1>1 DEF Injection, IsInjective
<1>3. Cardinality(1 .. n) = n
  <2>1. CASE n = 0
    BY <2>1, FS_Interval
  <2>2. CASE n # 0
    BY <2>2, FS_Interval
  <2> QED
    BY <2>1, <2>2
<1> QED
  BY <1>2, <1>3, FS_Injection

\* The lines of the file and of a section are finite sets of numbers.
LEMMA RowsFinite ==
  ASSUME Typed
  PROVE  /\ Headers \subseteq Nat /\ IsFiniteSet(Headers)
         /\ \A h : Section(h) \subseteq Nat /\ IsFiniteSet(Section(h))
<1> DEFINE n == Len(lines)
<1>1. n \in Nat /\ DOMAIN lines = 1 .. n
  BY LinesTyped
<1> HIDE DEF n
<1>2. IsFiniteSet(1 .. n) /\ 1 .. n \subseteq Nat
  BY <1>1, FS_Interval
<1>3. Headers \in SUBSET (1 .. n)
  BY <1>1 DEF Headers
<1>4. ASSUME NEW h
      PROVE  Section(h) \in SUBSET (1 .. n)
  BY <1>1 DEF Section, Pairs
<1>5. IsFiniteSet(Headers)
  BY <1>2, <1>3, FS_Subset
<1>6. ASSUME NEW h
      PROVE  IsFiniteSet(Section(h))
  BY <1>2, <1>4, FS_Subset
<1> QED
  BY <1>2, <1>3, <1>4, <1>5, <1>6

\* What ini_parse does to the sections, whatever the file is.
LEMMA ParseSections ==
  ASSUME Typed, ini_parse
  PROVE  /\ place = "read"
         /\ \/ UNCHANGED sections /\ place' \in {"read", "apply"}
            \/ get_section(s)
            \/ add_pair(k[1], s)
<1>1. place = "read"
  BY DEF ini_parse, OpenName, CloseName, Equals, EndOfLine, EndOfFile, Collect, Skip, Comment,
         Gets, GetsEOF
<1>2. CASE OpenName \/ Equals \/ Collect(Char) \/ Skip(Char) \/ Comment(Char)
  BY <1>1, <1>2 DEF OpenName, Equals, Collect, Skip, Comment
<1>3. CASE CloseName
  BY <1>1, <1>3 DEF CloseName
<1>4. CASE EndOfLine
  BY <1>1, <1>4 DEF EndOfLine
<1>5. CASE EndOfFile
  BY <1>1, <1>5 DEF EndOfFile
<1> QED
  BY <1>1, <1>2, <1>3, <1>4, <1>5 DEF ini_parse

\* While ini_parse goes on there was room for all it has stored.
LEMMA LimitNext ==
  ASSUME Typed, Typed', ini_parse, Limited(sections), place' = "read"
  PROVE  Limited(sections')
<1>1. sections \in Seq(SectionRecords) /\ MAX_CONFIGS \in Nat \ {0} /\ place = "read"
  BY ParseSections, ConfigAssumption DEF Typed, ReadTyped
<1>2. CASE UNCHANGED sections
  BY <1>2
<1>3. CASE get_section(s)
  <2> DEFINE n == Len(sections)
  <2>1. /\ n \in Nat /\ DOMAIN sections = 1 .. n /\ DOMAIN sections' = 1 .. (n + 1)
        /\ \A m \in 1 .. n : sections'[m] = sections[m]
        /\ sections'[n + 1].pairs = <<>>
    BY <1>3, GetSectionFields
  <2>2. ~ (n >= MAX_CONFIGS) /\ Len(sections') = n + 1
    BY <1>1, <1>3 DEF get_section, full
  <2> HIDE DEF n
  <2>3. \A m \in 1 .. (n + 1) : m \in 1 .. n \/ m = n + 1
    BY <2>1
  <2>4. Len(<<>>) = 0
    OBVIOUS
  <2>5. \A j \in 1 .. (n + 1) : Len(sections'[j].pairs) <= MAX_CONFIGS
    BY <1>1, <2>1, <2>3, <2>4 DEF Limited
  <2> QED
    BY <1>1, <2>1, <2>2, <2>5 DEF Limited
<1>4. CASE add_pair(k[1], s)
  <2>1. CASE sections = <<>>
    BY <1>4, <2>1 DEF add_pair
  <2>2. CASE sections # <<>>
    <3> DEFINE last == Len(sections)
               pair == [key |-> k[1], value |-> s, row |-> row]
    <3>1. /\ last \in DOMAIN sections /\ DOMAIN sections' = DOMAIN sections
          /\ \A j \in DOMAIN sections :
               sections'[j].pairs = IF j = last THEN Append(sections[j].pairs, pair)
                                    ELSE sections[j].pairs
      BY <1>4, <2>2, AddPairFields
    <3>2. ~ (Len(sections[last].pairs) >= MAX_CONFIGS) /\ Len(sections') = Len(sections)
      <4>1. ~ full(Len(Last(sections).pairs))
        BY <1>1, <1>4, <2>2 DEF add_pair
      <4>2. sections' \in Seq(SectionRecords)
        BY DEF Typed, ReadTyped
      <4>3. Len(sections') = Len(sections)
        BY <1>1, <3>1, <4>2
      <4> QED
        BY <1>1, <4>1, <4>3 DEF full, Last
    <3> HIDE DEF last, pair
    <3>3. ASSUME NEW j \in DOMAIN sections
          PROVE  Len(sections'[j].pairs) <= MAX_CONFIGS
      <4>1. sections[j].pairs \in Seq(PairRecords)
        BY <1>1, SectionFields
      <4>2. CASE j = last
        <5>1. Len(Append(sections[j].pairs, pair)) = Len(sections[j].pairs) + 1
              /\ Len(sections[j].pairs) \in Nat
          BY <4>1
        <5>2. sections'[j].pairs = Append(sections[j].pairs, pair)
          BY <3>1, <4>2
        <5>3. Len(sections'[j].pairs) = Len(sections[j].pairs) + 1 /\ ~ (Len(sections[j].pairs) >= MAX_CONFIGS)
          BY <3>2, <4>2, <5>1, <5>2
        <5> QED
          BY <1>1, <5>1, <5>3
      <4>3. CASE j # last
        BY <3>1, <4>3 DEF Limited
      <4> QED
        BY <4>2, <4>3
    <3> QED
      BY <3>1, <3>2, <3>3 DEF Limited
  <2> QED
    BY <2>1, <2>2
<1> QED
  BY <1>2, <1>3, <1>4, ParseSections

\* A file that was read to its end has no more sections and pairs than that.
LEMMA LimitComplete ==
  ASSUME Typed, HeadersInv, PairsInv, Plain, Limited(sections), place = "read", Complete
  PROVE  FewEnough
<1> DEFINE n == Len(sections)
           f == [m \in 1 .. n |-> sections[m].row]
<1>1. /\ n \in Nat /\ DOMAIN sections = 1 .. n
      /\ \A j \in 1 .. n : sections[j].pairs \in Seq(PairRecords)
      /\ Regular /\ CommentsAlone /\ MAX_CONFIGS \in Nat
  BY SectionFields, ConfigAssumption DEF Typed, ReadTyped, Plain
<1>2. f \in [1 .. n -> Headers] /\ \A h \in Headers : \E m \in 1 .. n : f[m] = h
  <2>1. \A m \in 1 .. n : sections[m].row \in Headers
    BY <1>1 DEF HeadersInv
  <2>2. \A h \in Headers : \E m \in 1 .. n : sections[m].row = h
    BY <1>1 DEF HeadersInv, Complete
  <2> HIDE DEF n
  <2> QED
    BY <2>1, <2>2
<1>3. Cardinality(Headers) <= n
  <2> HIDE DEF f, n
  <2> QED
    BY <1>1, <1>2, Covered
<1>4. Cardinality(Headers) <= MAX_CONFIGS
  <2>1. Cardinality(Headers) \in Nat
    BY RowsFinite, FS_CardinalityType
  <2> QED
    BY <1>1, <1>3, <2>1 DEF Limited
<1>5. ASSUME NEW h \in Headers
      PROVE  Cardinality(Section(h)) <= MAX_CONFIGS
  <2>1. PICK j \in 1 .. n : sections[j].row = h
    BY <1>2
  <2> DEFINE pairs == sections[j].pairs
             g == [m \in 1 .. Len(pairs) |-> pairs[m].row]
  <2>2. pairs \in Seq(PairRecords) /\ Len(pairs) \in Nat /\ DOMAIN pairs = 1 .. Len(pairs)
    BY <1>1
  <2>3. PairsRead(h, pairs) /\ \A i \in Section(h) : PairStored(i) <=> i \in Rows(pairs)
    BY <1>1, <2>1 DEF PairsInv
  <2>4. \A i \in Section(h) : PairStored(i)
    BY <1>1 DEF Complete, Section
  <2>5. Len(pairs) <= MAX_CONFIGS
    BY <1>1 DEF Limited
  <2> HIDE DEF pairs
  <2>6. g \in [1 .. Len(pairs) -> Section(h)] /\ \A i \in Section(h) : \E m \in 1 .. Len(pairs) : g[m] = i
    <3>1. \A m \in 1 .. Len(pairs) : pairs[m].row \in Section(h)
      BY <2>2, <2>3 DEF PairsRead
    <3>2. \A i \in Section(h) : \E m \in 1 .. Len(pairs) : pairs[m].row = i
      BY <2>2, <2>3, <2>4 DEF Rows
    <3> QED
      BY <3>1, <3>2
  <2>7. Cardinality(Section(h)) <= Len(pairs)
    <3> HIDE DEF g
    <3> QED
      BY <2>2, <2>6, Covered
  <2>8. Cardinality(Section(h)) \in Nat
    BY RowsFinite, FS_CardinalityType
  <2> QED
    BY <1>1, <2>2, <2>5, <2>7, <2>8
<1> QED
  BY <1>4, <1>5 DEF FewEnough

\* ini_parse stops only when there are too many of them.
LEMMA StopsReading ==
  ASSUME Typed, Typed', HeadersInv, HeadersInv', PairsInv', Plain, PairsInSections,
         place = "read", place' = "stopped", lines' = lines, NewSection \/ NewPair
  PROVE  ~ FewEnough
<1>1. sections' \in Seq(SectionRecords) /\ sections \in Seq(SectionRecords) /\ MAX_CONFIGS \in Nat
      /\ Regular /\ CommentsAlone
  BY ConfigAssumption DEF Typed, ReadTyped, Plain
<1>2. Regular' /\ Plain' /\ Headers' = Headers /\ (\A h : Section(h)' = Section(h))
      /\ \A h, pairs : PairsRead(h, pairs)' <=> PairsRead(h, pairs)
  BY <1>1, SameFile, SamePairs
<1>3. CASE NewSection
  <2> DEFINE n == Len(sections')
             f == [m \in 1 .. n |-> sections'[m].row]
  <2>1. n \in Nat /\ DOMAIN sections' = 1 .. n /\ n > MAX_CONFIGS
    <3>1. full(Len(sections)) /\ n = Len(sections) + 1
      BY <1>1, <1>3 DEF NewSection, get_section
    <3> QED
      BY <1>1, <3>1 DEF full
  <2>2. \A m \in 1 .. n : sections'[m].row \in Headers
    BY <1>2, <2>1 DEF HeadersInv
  <2>3. \A m, l \in 1 .. n : m < l => sections'[m].row < sections'[l].row
    BY <1>2, <2>1 DEF HeadersInv
  <2> HIDE DEF n
  <2>4. f \in [1 .. n -> Headers] /\ \A m, l \in 1 .. n : m < l => f[m] < f[l]
    BY <2>2, <2>3
  <2>5. n <= Cardinality(Headers)
    <3> HIDE DEF f
    <3> QED
      BY <2>1, <2>4, RowsFinite, Distinct
  <2>6. Cardinality(Headers) \in Nat
    BY RowsFinite, FS_CardinalityType
  <2> QED
    BY <1>1, <2>1, <2>5, <2>6 DEF FewEnough
<1>4. CASE NewPair /\ sections = <<>>
  <2>1. row \in Pairs
    BY <1>1, <1>4 DEF NewPair, Stores
  <2>2. PICK h \in Headers : h < row
    BY <2>1 DEF PairsInSections
  <2> QED
    BY <1>1, <1>4, <2>2 DEF HeadersInv, HeaderStored
<1>5. CASE NewPair /\ sections # <<>>
  <2> DEFINE last == Len(sections)
             h == sections'[last].row
             pairs == sections'[last].pairs
             g == [m \in 1 .. Len(pairs) |-> pairs[m].row]
  <2>1. /\ last \in DOMAIN sections /\ DOMAIN sections' = DOMAIN sections
        /\ pairs = Append(sections[last].pairs, [key |-> k[1], value |-> s, row |-> row])
    BY <1>5, AddPairFields DEF NewPair
  <2>2. Len(sections[last].pairs) >= MAX_CONFIGS
    <3>1. full(Len(Last(sections).pairs))
      BY <1>5 DEF NewPair, add_pair
    <3> QED
      BY <1>1, <3>1 DEF full, Last
  <2>3. h \in Headers /\ PairsRead(h, pairs)
    BY <1>2, <2>1 DEF HeadersInv, PairsInv
  <2>4. sections[last].pairs \in Seq(PairRecords) /\ pairs \in Seq(PairRecords)
    BY <1>1, <2>1, SectionFields
  <2>5. Len(pairs) \in Nat /\ Len(pairs) > MAX_CONFIGS /\ DOMAIN pairs = 1 .. Len(pairs)
    <3> HIDE DEF last
    <3> QED
      BY <1>1, <2>1, <2>2, <2>4
  <2> HIDE DEF last, h, pairs
  <2>6. g \in [1 .. Len(pairs) -> Section(h)] /\ \A m, l \in 1 .. Len(pairs) : m < l => g[m] < g[l]
    BY <2>3, <2>5 DEF PairsRead
  <2>7. Len(pairs) <= Cardinality(Section(h))
    <3> HIDE DEF g
    <3> QED
      BY <2>5, <2>6, RowsFinite, Distinct
  <2>8. Cardinality(Section(h)) \in Nat
    BY RowsFinite, FS_CardinalityType
  <2> QED
    BY <1>1, <2>3, <2>5, <2>7, <2>8 DEF FewEnough
<1> QED
  BY <1>3, <1>4, <1>5

-----------------------------------------------------------------------------
(***************************************************************************)
(* What the file gives.                                                    *)
(***************************************************************************)
\* The words looked for are those of the configurations, and the blank is none.
LEMMA NamesAreWords ==
  /\ BLANK \notin Known
  /\ \A name \in DOMAIN Keys : name \in Known /\ Keys[name] \subseteq Known
<1>1. DOMAIN Keys = {"PRODUCER", "CONSUMER"}
  BY KeysFacts
<1>2. BLANK \notin Keys["PRODUCER"] /\ BLANK \notin Keys["CONSUMER"]
  BY DEF Keys, BLANK
<1> QED
  BY <1>1, <1>2 DEF BLANK, Known

\* strcmp with a word is a comparison with its spelling.
LEMMA WordFacts ==
  ASSUME NEW t, NEW name \in Known
  PROVE  word(t) = name <=> t = Spelling[name]
<1>1. \A v, w \in Known : Spelling[v] = Spelling[w] => v = w
  BY ConfigAssumption
<1>2. CASE \E w \in Known : Spelling[w] = t
  <2>1. word(t) \in Known /\ Spelling[word(t)] = t
    BY <1>2, Zenon DEF word
  <2> QED
    BY <1>1, <2>1
<1>3. CASE ~ \E w \in Known : Spelling[w] = t
  <2>1. word(t) = BLANK
    BY <1>3, Zenon DEF word
  <2> QED
    BY <1>3, <2>1, NamesAreWords
<1> QED
  BY <1>2, <1>3

\* The lines that give a key, by the sections and keys read.
LEMMA GivenFacts ==
  ASSUME Typed, NEW name \in DOMAIN Keys, NEW key \in Keys[name]
  PROVE  /\ \A i : i \in Given(name, key) <=>
                     \E h \in Headers : /\ i \in Section(h)
                                        /\ NameOf(h) = Spelling[name] /\ KeyOf(i) = Spelling[key]
         /\ \A i : Meaning(key, i) = Value(key, ValueOf(i))
         /\ Given(name, key) \subseteq Nat
<1>1. \A h : Section(h) \subseteq Nat
  BY RowsFinite DEF Section
<1>2. \A i : i \in Given(name, key) <=>
               \E h \in Headers : /\ i \in Section(h)
                                  /\ NameOf(h) = Spelling[name] /\ KeyOf(i) = Spelling[key]
  BY Zenon DEF Given
<1> QED
  BY <1>1, <1>2 DEF Meaning

\* The name of a section that is one of a program's ends as it does in the
\* file, and is the same without comments behind values.
LEMMA SectionName ==
  ASSUME Typed, NEW h \in Headers, NEW t \in Text, Over(t, NameOf(h)), NEW name \in DOMAIN Keys
  PROVE  /\ word(t) = name => IsSuffix(NameOf(h), Spelling[name])
         /\ CommentsAlone => (word(t) = name <=> NameOf(h) = Spelling[name])
<1>1. word(t) = name <=> t = Spelling[name]
  BY WordFacts, NamesAreWords
<1> QED
  BY <1>1 DEF Over

\* The sections of two headers do not overlap.
LEMMA SectionsApart ==
  ASSUME Typed, NEW g \in Headers, NEW h \in Headers, g < h
  PROVE  \A i \in Section(g), j \in Section(h) : i < j
<1>1. SUFFICES ASSUME NEW i \in Section(g), NEW j \in Section(h)
               PROVE  i < j
  OBVIOUS
<1>2. g \in Nat /\ h \in Nat /\ i \in Nat /\ j \in Nat
  BY RowsFinite
<1>3. i \in Pairs /\ i # h /\ ~ (h < i) /\ h < j
  BY HeaderNoPair DEF Section
<1> QED
  BY <1>2, <1>3

\* The first of some lines...
LEMMA FirstFacts ==
  ASSUME NEW S \in SUBSET Nat, S # {}
  PROVE  First(S) \in S /\ \A j \in S : First(S) <= j
<1>1. PICK x \in S : \A y \in S : ~ (<<y, x>> \in OpToRel(<, Nat))
  BY NatLessThanWellFounded, WFMin
<1>2. ASSUME NEW j \in S
      PROVE  x <= j
  <2>1. j \in Nat /\ x \in Nat
    BY <1>1
  <2>2. ~ (j < x)
    BY <1>1, <2>1 DEF OpToRel
  <2> QED
    BY <2>1, <2>2
<1> QED
  BY <1>2 DEF First

\* ...is the only one that none of them stands before.
LEMMA FirstIs ==
  ASSUME NEW S \in SUBSET Nat, NEW x \in S, \A j \in S : x <= j
  PROVE  First(S) = x
<1>1. First(S) \in S /\ First(S) <= x
  BY FirstFacts
<1>2. x <= First(S) /\ x \in Nat /\ First(S) \in Nat
  BY <1>1
<1> QED
  BY <1>1, <1>2

-----------------------------------------------------------------------------
(***************************************************************************)
(* One pair after the other is applied.                                    *)
(***************************************************************************)
LEMMA ApplyFields ==
  ASSUME Typed, ApplyPair
  PROVE  /\ place = "apply" /\ place' \in {"apply", "stopped"} /\ UNCHANGED <<file, position, line>>
         /\ 1 \in DOMAIN sections /\ DOMAIN sections' = DOMAIN sections
         /\ sections[1].pairs \in Seq(PairRecords) /\ sections[1].pairs # <<>>
         /\ \A j \in DOMAIN sections :
              /\ sections'[j].row = sections[j].row /\ sections'[j].name = sections[j].name
              /\ sections'[j].pairs = IF j = 1 THEN Tail(sections[1].pairs) ELSE sections[j].pairs
<1> DEFINE pairs == Tail(sections[1].pairs)
<1>1. sections \in Seq(SectionRecords) /\ sections # <<>>
  BY DEF Typed, ReadTyped, ApplyPair
<1>2. 1 \in DOMAIN sections /\ Head(sections) = sections[1]
  BY <1>1
<1>3. sections' = [sections EXCEPT ![1].pairs = pairs]
  BY DEF ApplyPair
<1>4. sections[1].pairs \in Seq(PairRecords) /\ sections[1].pairs # <<>>
  BY <1>1, <1>2, SectionFields DEF ApplyPair
<1>5. place = "apply" /\ place' \in {"apply", "stopped"} /\ UNCHANGED <<file, position, line>>
  <2>1. place = "apply" /\ UNCHANGED <<file, position, line>>
    BY DEF ApplyPair
  <2> DEFINE name == word(Head(sections).name)
             key == word(Head(Head(sections).pairs).key)
  <2>2. IF name \in DOMAIN Keys
        THEN place' = IF key = "BUFFERS" /\ exits(conf'[name].BUFFERS) THEN "stopped" ELSE place
        ELSE place' = place
    BY DEF ApplyPair
  <2> HIDE DEF name, key
  <2> QED
    BY <2>1, <2>2
<1> HIDE DEF pairs
<1>6. /\ DOMAIN sections' = DOMAIN sections
      /\ \A j \in DOMAIN sections :
           /\ sections'[j].row = sections[j].row /\ sections'[j].name = sections[j].name
           /\ sections'[j].pairs = IF j = 1 THEN pairs ELSE sections[j].pairs
  BY <1>1, <1>2, <1>3, NewPairsFields
<1> QED
  BY <1>2, <1>4, <1>5, <1>6 DEF pairs

\* What NextSection does to the sections.
LEMMA NextFields ==
  ASSUME Typed, NextSection
  PROVE  /\ place = "apply" /\ UNCHANGED <<file, position, line, place, conf>>
         /\ 1 \in DOMAIN sections /\ sections[1].pairs = <<>>
         /\ \A j \in DOMAIN sections' : /\ j + 1 \in DOMAIN sections /\ j \in Nat
                                        /\ sections'[j] = sections[j + 1]
         /\ \A j \in DOMAIN sections : j # 1 => \E m \in DOMAIN sections' : j = m + 1
<1>1. sections \in Seq(SectionRecords) /\ sections # <<>> /\ Head(sections).pairs = <<>>
      /\ sections' = Tail(sections) /\ place = "apply" /\ UNCHANGED <<file, position, line, place, conf>>
  BY DEF Typed, ReadTyped, NextSection
<1> DEFINE n == Len(sections)
<1>2. /\ n \in Nat \ {0} /\ DOMAIN sections = 1 .. n /\ DOMAIN sections' = 1 .. (n - 1)
      /\ \A j \in 1 .. (n - 1) : sections'[j] = sections[j + 1]
      /\ Head(sections) = sections[1]
  BY <1>1
<1> HIDE DEF n
<1>3. \A j \in 1 .. (n - 1) : j + 1 \in 1 .. n /\ j \in Nat
  BY <1>2
<1>4. ASSUME NEW j \in 1 .. n, j # 1
      PROVE  \E m \in 1 .. (n - 1) : j = m + 1
  <2>1. j - 1 \in 1 .. (n - 1) /\ j = (j - 1) + 1
    BY <1>2, <1>4
  <2> QED
    BY <2>1
<1>5. 1 \in DOMAIN sections /\ sections[1].pairs = <<>>
  BY <1>1, <1>2
<1>6. \A j \in DOMAIN sections' : /\ j + 1 \in DOMAIN sections /\ j \in Nat
                                  /\ sections'[j] = sections[j + 1]
  BY <1>2, <1>3
<1>7. \A j \in DOMAIN sections : j # 1 => \E m \in DOMAIN sections' : j = m + 1
  BY <1>2, <1>4
<1> QED
  BY <1>1, <1>5, <1>6, <1>7

\* What remains to be applied still is of the file.
LEMMA HeadersApply ==
  ASSUME Typed, HeadersInv, Regular, ApplyPair \/ NextSection
  PROVE  HeadersInv'
<1>1. lines' = lines /\ place' # "read"
  BY ApplyFields, NextFields DEF file
<1>2. Headers' = Headers /\ (\A h : NameOf(h)' = NameOf(h)) /\ (\A t, u : Over(t, u)' <=> Over(t, u))
  BY <1>1, SameFile, SameParts
<1>3. SUFFICES /\ \A j \in DOMAIN sections' :
                    sections'[j].row \in Headers /\ Over(sections'[j].name, NameOf(sections'[j].row))
               /\ \A i, j \in DOMAIN sections' : i < j => sections'[i].row < sections'[j].row
  BY <1>1, <1>2 DEF HeadersInv
<1>4. CASE ApplyPair
  BY <1>4, ApplyFields DEF HeadersInv
<1>5. CASE NextSection
  <2>1. \A j \in DOMAIN sections' : /\ j + 1 \in DOMAIN sections /\ j \in Nat
                                    /\ sections'[j] = sections[j + 1]
    BY <1>5, NextFields
  <2>2. \A i, j \in DOMAIN sections' : i < j => i + 1 < j + 1
    BY <2>1
  <2> QED
    BY <2>1, <2>2 DEF HeadersInv
<1> QED
  BY <1>4, <1>5

\* Applying a pair, or leaving a section, takes away what is in front of the rest.
LEMMA GenuineApply ==
  ASSUME Typed, GenuineInv, Regular, ApplyPair \/ NextSection
  PROVE  GenuineInv'
<1>1. lines' = lines
  BY ApplyFields, NextFields DEF file
<1>2. \A h, key, value : GivenIn(h, key, value)' <=> GivenIn(h, key, value)
  BY <1>1, SameParts
<1>3. SUFFICES ASSUME NEW j \in DOMAIN sections', NEW n \in DOMAIN sections'[j].pairs
               PROVE  GivenIn(sections'[j].row, sections'[j].pairs[n].key, sections'[j].pairs[n].value)
  BY <1>2 DEF GenuineInv
<1>4. CASE NextSection
  BY <1>4, NextFields DEF GenuineInv
<1>5. CASE ApplyPair /\ j # 1
  BY <1>5, ApplyFields DEF GenuineInv
<1>6. CASE ApplyPair /\ j = 1
  <2> DEFINE pairs == sections[1].pairs
  <2>1. 1 \in DOMAIN sections /\ sections'[1].pairs = Tail(pairs) /\ sections'[1].row = sections[1].row
        /\ pairs \in Seq(PairRecords) /\ pairs # <<>>
    BY <1>6, ApplyFields
  <2>2. \A m \in DOMAIN pairs : GivenIn(sections[1].row, pairs[m].key, pairs[m].value)
    BY <2>1 DEF GenuineInv
  <2> HIDE DEF pairs
  <2>3. n + 1 \in DOMAIN pairs /\ Tail(pairs)[n] = pairs[n + 1]
    BY <1>6, <2>1
  <2> QED
    BY <1>6, <2>1, <2>2, <2>3
<1> QED
  BY <1>4, <1>5, <1>6

\* So the pairs that remain are still those of the file, in order.
LEMMA PairsApply ==
  ASSUME Typed, PairsInv, Plain, ApplyPair \/ NextSection
  PROVE  PairsInv'
<1>1. lines' = lines /\ place' # "read"
  BY ApplyFields, NextFields DEF file
<1>2. \A h, pairs : PairsRead(h, pairs)' <=> PairsRead(h, pairs)
  BY <1>1, SamePairs
<1>3. SUFFICES ASSUME NEW j \in DOMAIN sections'
               PROVE  PairsRead(sections'[j].row, sections'[j].pairs)
  BY <1>1, <1>2 DEF PairsInv
<1>4. CASE NextSection
  BY <1>4, NextFields DEF PairsInv
<1>5. CASE ApplyPair /\ j # 1
  BY <1>5, ApplyFields DEF PairsInv
<1>6. CASE ApplyPair /\ j = 1
  <2>1. 1 \in DOMAIN sections /\ sections'[1].pairs = Tail(sections[1].pairs)
        /\ sections'[1].row = sections[1].row
        /\ sections[1].pairs \in Seq(PairRecords) /\ sections[1].pairs # <<>>
    BY <1>6, ApplyFields
  <2>2. PairsRead(sections[1].row, sections[1].pairs)
    BY <2>1 DEF PairsInv
  <2>3. PairsRead(sections[1].row, Tail(sections[1].pairs))
    BY <2>1, <2>2, TailPairs
  <2> QED
    BY <1>6, <2>1, <2>3
<1> QED
  BY <1>4, <1>5, <1>6

-----------------------------------------------------------------------------
\* What a pair does to the configurations.
FirstPair == Head(sections[1].pairs)
FieldTaken(name, key) ==
  IF name = word(sections[1].name) /\ key = word(FirstPair.key) /\ conf[name][key] = Unset(key)
  THEN Value(key, FirstPair.value)
  ELSE conf[name][key]

\* Taken sets one field, if it is not set.
LEMMA TakenFields ==
  ASSUME NEW name \in DOMAIN Keys, NEW fields, DOMAIN fields = Keys[name],
         NEW key, NEW text, NEW other \in Keys[name]
  PROVE  Taken(fields, key, text)[other] =
           IF other = key /\ fields[key] = Unset(key) THEN Value(key, text) ELSE fields[other]
  BY DEF Taken

\* ApplyPair by the fields it sets.
LEMMA ApplyConf ==
  ASSUME Typed, ApplyPair
  PROVE  /\ \A name \in DOMAIN Keys : \A key \in Keys[name] : conf'[name][key] = FieldTaken(name, key)
         /\ LET name == word(sections[1].name)
            IN  IF name \in DOMAIN Keys /\ word(FirstPair.key) = "BUFFERS" /\ exits(conf'[name].BUFFERS)
                THEN place' = "stopped" ELSE place' = "apply"
<1> DEFINE name == word(sections[1].name)
           key == word(FirstPair.key)
           text == FirstPair.value
<1>1. sections \in Seq(SectionRecords) /\ sections # <<>> /\ place = "apply"
  BY DEF Typed, ReadTyped, ApplyPair
<1>2. Head(sections) = sections[1]
  BY <1>1
<1>3. IF name \in DOMAIN Keys
      THEN /\ conf' = [conf EXCEPT ![name] = Taken(conf[name], key, text)]
           /\ place' = IF key = "BUFFERS" /\ exits(conf'[name].BUFFERS) THEN "stopped" ELSE place
      ELSE UNCHANGED <<conf, place>>
  BY <1>2 DEF ApplyPair, FirstPair
<1>4. DOMAIN conf = DOMAIN Keys /\ \A n \in DOMAIN Keys : DOMAIN conf[n] = Keys[n]
  BY DEF Typed, ConfTyped
<1>5. \A n \in DOMAIN Keys : \A l \in Keys[n] :
        FieldTaken(n, l) = IF n = name /\ l = key /\ conf[n][l] = Unset(l)
                           THEN Value(l, text) ELSE conf[n][l]
  BY DEF FieldTaken
<1> HIDE DEF name, key, text
<1>6. ASSUME NEW n \in DOMAIN Keys, NEW l \in Keys[n]
      PROVE  conf'[n][l] = FieldTaken(n, l)
  <2>1. CASE name \in DOMAIN Keys /\ n = name
    <3>1. conf'[n] = Taken(conf[n], key, text)
      BY <1>3, <1>4, <2>1
    <3>2. Taken(conf[n], key, text)[l] =
            IF l = key /\ conf[n][key] = Unset(key) THEN Value(key, text) ELSE conf[n][l]
      BY <1>4, TakenFields
    <3> QED
      BY <1>5, <2>1, <3>1, <3>2
  <2>2. CASE name \in DOMAIN Keys /\ n # name
    <3>1. conf'[n] = conf[n]
      BY <1>3, <1>4, <2>2
    <3> QED
      BY <1>5, <2>2, <3>1
  <2>3. CASE name \notin DOMAIN Keys
    BY <1>3, <1>5, <2>3
  <2> QED
    BY <2>1, <2>2, <2>3
<1>7. IF name \in DOMAIN Keys /\ key = "BUFFERS" /\ exits(conf'[name].BUFFERS)
      THEN place' = "stopped" ELSE place' = "apply"
  BY <1>1, <1>3
<1> QED
  BY <1>6, <1>7 DEF name, key

\* The pair that is taken is one of the file.
LEMMA TakenNext ==
  ASSUME Typed, HeadersInv, GenuineInv, TakenInv, Regular, ApplyPair
  PROVE  TakenInv'
<1>1. lines' = lines
  BY ApplyFields DEF file
<1>2. /\ \A name, key : Ending(name, key)' = Ending(name, key)
      /\ \A key, i : Meaning(key, i)' = Meaning(key, i)
  BY <1>1, SameParts
<1>3. SUFFICES ASSUME NEW name \in DOMAIN Keys, NEW key \in Keys[name],
                      conf'[name][key] # Unset(key)
               PROVE  \E i \in Ending(name, key) : conf'[name][key] = Meaning(key, i)
  BY <1>2 DEF TakenInv
<1>4. conf'[name][key] = FieldTaken(name, key)
  BY ApplyConf
<1>5. CASE name = word(sections[1].name) /\ key = word(FirstPair.key) /\ conf[name][key] = Unset(key)
  <2> DEFINE h == sections[1].row
  <2>1. 1 \in DOMAIN sections /\ sections \in Seq(SectionRecords)
        /\ sections[1].pairs \in Seq(PairRecords) /\ sections[1].pairs # <<>>
    BY ApplyFields DEF Typed, ReadTyped
  <2>2. h \in Headers /\ Over(sections[1].name, NameOf(h)) /\ sections[1].name \in Text
    BY <2>1, SectionFields DEF HeadersInv
  <2>3. IsSuffix(NameOf(h), Spelling[name])
    BY <1>5, <2>2, SectionName
  <2>4. FirstPair = sections[1].pairs[1] /\ 1 \in DOMAIN sections[1].pairs /\ FirstPair.key \in Text
    <3> DEFINE pairs == sections[1].pairs
    <3>1. Head(pairs) = pairs[1] /\ 1 \in DOMAIN pairs /\ pairs[1] \in PairRecords
      <4> HIDE DEF pairs
      <4> QED
        BY <2>1 DEF pairs
    <3> QED
      BY <3>1, PairFields DEF FirstPair
  <2>5. FirstPair.key = Spelling[key]
    BY <1>5, <2>4, NamesAreWords, WordFacts
  <2>6. GivenIn(h, FirstPair.key, FirstPair.value)
    BY <2>1, <2>4 DEF GenuineInv
  <2>7. PICK i \in Section(h) : IsSuffix(KeyOf(i), Spelling[key]) /\ ValueOf(i) = FirstPair.value
    BY <2>5, <2>6 DEF GivenIn
  <2>8. i \in Ending(name, key) /\ Meaning(key, i) = Value(key, FirstPair.value)
    BY <2>2, <2>3, <2>7 DEF Ending, Meaning
  <2> QED
    BY <1>4, <1>5, <2>8 DEF FieldTaken
<1>6. CASE ~ (name = word(sections[1].name) /\ key = word(FirstPair.key) /\ conf[name][key] = Unset(key))
  BY <1>3, <1>4, <1>6 DEF FieldTaken, TakenInv
<1> QED
  BY <1>5, <1>6

-----------------------------------------------------------------------------
\* The first pair is the next line of all that remain.
LEMMA PendingFacts ==
  ASSUME Typed, HeadersInv, PairsInv, Plain, ApplyPair
  PROVE  /\ sections[1].row \in Headers /\ FirstPair.row \in Section(sections[1].row)
         /\ FirstPair.key = KeyOf(FirstPair.row) /\ FirstPair.value = ValueOf(FirstPair.row)
         /\ FirstPair.row \in Pending /\ Pending' = Pending \ {FirstPair.row}
         /\ \A q \in Pending' : FirstPair.row < q
<1> DEFINE h == sections[1].row
           p == FirstPair.row
           pairs == sections[1].pairs
<1>1. /\ 1 \in DOMAIN sections /\ DOMAIN sections' = DOMAIN sections
      /\ pairs \in Seq(PairRecords) /\ pairs # <<>>
      /\ \A j \in DOMAIN sections :
           sections'[j].pairs = IF j = 1 THEN Tail(pairs) ELSE sections[j].pairs
  BY ApplyFields
<1>2. \A j \in DOMAIN sections : j \in Nat /\ (j # 1 => 1 < j)
  <2>1. sections \in Seq(SectionRecords)
    BY DEF Typed, ReadTyped
  <2> QED
    BY <2>1
<1>3. Regular /\ CommentsAlone
  BY DEF Plain
<1>4. PairsRead(h, pairs) /\ h \in Headers
  BY <1>1, <1>3 DEF PairsInv, HeadersInv
<1>5. /\ Rows(Tail(pairs)) = Rows(pairs) \ {p}
      /\ p \in Rows(pairs) \cap Section(h)
      /\ FirstPair.key = KeyOf(p) /\ FirstPair.value = ValueOf(p)
      /\ \A i \in Rows(Tail(pairs)) : p < i
  <2>1. FirstPair = Head(pairs)
    BY DEF FirstPair
  <2> HIDE DEF pairs, h
  <2> QED
    BY <1>1, <1>4, <2>1, TailPairs
<1>6. ASSUME NEW j \in DOMAIN sections, j # 1, NEW x \in Rows(sections[j].pairs)
      PROVE  p < x
  <2>1. sections[j].row \in Headers /\ h < sections[j].row
    BY <1>1, <1>2, <1>3, <1>6 DEF HeadersInv
  <2>2. PairsRead(sections[j].row, sections[j].pairs)
    BY DEF PairsInv
  <2>3. x \in Section(sections[j].row)
    BY <2>2 DEF Rows, PairsRead
  <2>4. p \in Section(h)
    BY <1>5
  <2> HIDE DEF h, p
  <2> QED
    BY <1>4, <2>1, <2>3, <2>4, SectionsApart
<1>7. p \in Nat
  BY <1>5, RowsFinite
<1> HIDE DEF h, p, pairs
<1>8. \A q \in Pending' : p < q /\ q # p /\ q \in Pending
  <2>1. SUFFICES ASSUME NEW j \in DOMAIN sections, NEW q \in Rows(sections'[j].pairs)
                 PROVE  p < q /\ q # p /\ q \in Rows(sections[j].pairs)
    BY <1>1 DEF Pending
  <2>2. CASE j = 1
    <3>1. q \in Rows(Tail(pairs)) /\ sections[j].pairs = pairs
      BY <1>1, <2>2 DEF pairs
    <3> QED
      BY <1>5, <3>1
  <2>3. CASE j # 1
    <3>1. q \in Rows(sections[j].pairs)
      BY <1>1, <2>3
    <3>2. p < q
      BY <1>6, <2>3, <3>1
    <3> QED
      BY <1>7, <3>1, <3>2
  <2> QED
    BY <2>2, <2>3
<1>9. \A q \in Pending : q # p => q \in Pending'
  <2>1. SUFFICES ASSUME NEW j \in DOMAIN sections, NEW q \in Rows(sections[j].pairs), q # p
                 PROVE  q \in Rows(sections'[j].pairs)
    BY <1>1 DEF Pending
  <2>2. CASE j = 1
    BY <1>1, <1>5, <2>1, <2>2 DEF pairs
  <2>3. CASE j # 1
    BY <1>1, <2>3
  <2> QED
    BY <2>2, <2>3
<1>10. p \in Pending
  BY <1>1, <1>5 DEF Pending, pairs
<1>11. Pending' = Pending \ {p}
  BY <1>8, <1>9
<1> QED
  BY <1>4, <1>5, <1>8, <1>10, <1>11 DEF h, p

\* It is given for one field.
LEMMA FirstGiven ==
  ASSUME Typed, HeadersInv, PairsInv, Plain, ApplyPair, NEW name \in DOMAIN Keys, NEW key \in Keys[name]
  PROVE  /\ FirstPair.row \in Given(name, key) <=>
              name = word(sections[1].name) /\ key = word(FirstPair.key)
         /\ FirstPair.row \in Given(name, key) => Meaning(key, FirstPair.row) = Value(key, FirstPair.value)
<1> DEFINE h == sections[1].row
           p == FirstPair.row
<1>1. h \in Headers /\ p \in Section(h) /\ FirstPair.key = KeyOf(p) /\ FirstPair.value = ValueOf(p)
  BY PendingFacts
<1>2. 1 \in DOMAIN sections /\ sections \in Seq(SectionRecords) /\ CommentsAlone /\ Regular
  BY ApplyFields DEF Typed, ReadTyped, Plain
<1>3. sections[1].name \in Text /\ Over(sections[1].name, NameOf(h))
  BY <1>2, SectionFields DEF HeadersInv
<1>4. word(sections[1].name) = name <=> NameOf(h) = Spelling[name]
  BY <1>1, <1>2, <1>3, SectionName
<1>5. word(FirstPair.key) = key <=> KeyOf(p) = Spelling[key]
  BY <1>1, NamesAreWords, WordFacts
<1>6. \A i : i \in Given(name, key) <=>
               \E g \in Headers : /\ i \in Section(g)
                                  /\ NameOf(g) = Spelling[name] /\ KeyOf(i) = Spelling[key]
  BY GivenFacts
<1>7. ASSUME NEW g \in Headers, p \in Section(g)
      PROVE  g = h
  <2>1. g \in Nat /\ h \in Nat /\ p \in Nat
    BY <1>1, RowsFinite
  <2>2. ~ (g < h)
    BY <1>1, <1>7, <2>1, SectionsApart
  <2>3. ~ (h < g)
    BY <1>1, <1>7, <2>1, SectionsApart
  <2> QED
    BY <2>1, <2>2, <2>3
<1>8. p \in Given(name, key) <=> NameOf(h) = Spelling[name] /\ KeyOf(p) = Spelling[key]
  BY <1>1, <1>6, <1>7
<1>9. p \in Given(name, key) => Meaning(key, p) = Value(key, FirstPair.value)
  BY <1>1, GivenFacts
<1> QED
  BY <1>4, <1>5, <1>8, <1>9

\* The line is one more of those applied, if it gives a key of this program at all, and its
\* value counts if the key had none.
LEMMA AppliedFields ==
  ASSUME Typed, HeadersInv, PairsInv, Plain, ApplyPair, NEW name \in DOMAIN Keys, NEW key \in Keys[name]
  PROVE  LET p == FirstPair.row
             told == p \in Given(name, key) /\ Meaning(key, p) # Unset(key) IN
         /\ Applied(name, key)' = IF p \in Given(name, key) THEN Applied(name, key) \cup {p}
                                  ELSE Applied(name, key)
         /\ Telling(name, key)' = IF told THEN Telling(name, key) \cup {p} ELSE Telling(name, key)
         /\ conf'[name][key] = IF p \in Given(name, key) /\ conf[name][key] = Unset(key)
                               THEN Meaning(key, p) ELSE conf[name][key]
<1> DEFINE p == FirstPair.row
<1>1. lines' = lines
  BY ApplyFields DEF file
<1>2. Given(name, key)' = Given(name, key) /\ \A i : Meaning(key, i)' = Meaning(key, i)
  BY <1>1, SameParts
<1>3. p \in Pending /\ Pending' = Pending \ {p}
  BY PendingFacts
<1>4. Applied(name, key) = Given(name, key) \ Pending /\ Applied(name, key)' = Given(name, key)' \ Pending'
  BY DEF Applied
<1> HIDE DEF p
<1>5. Applied(name, key)' = IF p \in Given(name, key) THEN Applied(name, key) \cup {p}
                            ELSE Applied(name, key)
  BY <1>2, <1>3, <1>4
<1>6. /\ \A i : i \in Telling(name, key) <=> i \in Applied(name, key) /\ Meaning(key, i) # Unset(key)
      /\ \A i : i \in Telling(name, key)' <=> i \in Applied(name, key)' /\ Meaning(key, i) # Unset(key)
  BY <1>2 DEF Telling, Unset
<1>7. Telling(name, key)' = IF p \in Given(name, key) /\ Meaning(key, p) # Unset(key)
                            THEN Telling(name, key) \cup {p} ELSE Telling(name, key)
  BY <1>5, <1>6
<1>8. conf'[name][key] = FieldTaken(name, key)
  BY ApplyConf
<1>9. conf'[name][key] = IF p \in Given(name, key) /\ conf[name][key] = Unset(key)
                         THEN Meaning(key, p) ELSE conf[name][key]
  BY <1>8, FirstGiven DEF FieldTaken, p
<1> QED
  BY <1>5, <1>7, <1>9 DEF p

-----------------------------------------------------------------------------
\* What AppliedInv says of one key.
LEMMA AppliedFacts ==
  ASSUME Typed, AppliedInv, place \in {"apply", "accepted"}, Plain,
         NEW name \in DOMAIN Keys, NEW key \in Keys[name]
  PROVE  /\ Applied(name, key) \subseteq Nat /\ Telling(name, key) \subseteq Applied(name, key)
         /\ \A i \in Applied(name, key), p \in Pending : i < p
         /\ IF Telling(name, key) = {} THEN conf[name][key] = Unset(key)
            ELSE /\ First(Telling(name, key)) \in Telling(name, key)
                 /\ \A j \in Telling(name, key) : First(Telling(name, key)) <= j
                 /\ conf[name][key] = Meaning(key, First(Telling(name, key)))
         /\ conf[name][key] = Unset(key) <=> Telling(name, key) = {}
<1>1. Telling(name, key) \subseteq Applied(name, key) /\ Applied(name, key) \subseteq Nat
  BY GivenFacts DEF Telling, Applied
<1>2. /\ \A i \in Applied(name, key), p \in Pending : i < p
      /\ conf[name][key] = IF Telling(name, key) = {} THEN Unset(key)
                           ELSE Meaning(key, First(Telling(name, key)))
  BY DEF AppliedInv
<1>3. Telling(name, key) # {} =>
        /\ First(Telling(name, key)) \in Telling(name, key)
        /\ \A j \in Telling(name, key) : First(Telling(name, key)) <= j
  BY <1>1, FirstFacts
<1>4. \A i \in Telling(name, key) : Meaning(key, i) # Unset(key)
  BY DEF Telling
<1> QED
  BY <1>1, <1>2, <1>3, <1>4

\* A number of buffers is in range when it is applied, so the first one counts.
LEMMA BuffersApplied ==
  ASSUME Typed, AppliedInv, place \in {"apply", "accepted"}, Plain, NEW name \in DOMAIN Keys,
         Applied(name, "BUFFERS") # {}
  PROVE  First(Applied(name, "BUFFERS")) = First(Telling(name, "BUFFERS"))
         /\ Telling(name, "BUFFERS") # {}
<1> DEFINE A == Applied(name, "BUFFERS")
           T == Telling(name, "BUFFERS")
           f == First(A)
<1>1. "BUFFERS" \in Keys[name] /\ Unset("BUFFERS") = 0
  BY KeysFacts DEF Unset
<1>2. A \subseteq Nat /\ T \subseteq A
  BY <1>1, AppliedFacts
<1>3. \A i \in A : Meaning("BUFFERS", i) # 0 \/ \E j \in A : j < i
  BY DEF AppliedInv
<1>4. \A i : i \in T <=> i \in A /\ Meaning("BUFFERS", i) # 0
  BY <1>1 DEF Telling
<1> HIDE DEF A, T
<1>5. f \in A /\ \A j \in A : f <= j
  BY <1>2, FirstFacts DEF A
<1>6. \A j \in A : ~ (j < f)
  <2>1. ASSUME NEW j \in A
        PROVE  ~ (j < f)
    <3>1. f \in Nat /\ j \in Nat /\ f <= j
      BY <1>2, <1>5
    <3> QED
      BY <3>1
  <2> QED
    BY <2>1
<1> HIDE DEF f
<1>7. f \in T
  BY <1>3, <1>4, <1>5, <1>6
<1>8. First(T) = f
  BY <1>2, <1>5, <1>7, FirstIs
<1> QED
  BY <1>7, <1>8 DEF A, T, f

\* The line applied is behind all that were applied before, so the first value stays the first.
LEMMA AppliedNext ==
  ASSUME Typed, Typed', HeadersInv, PairsInv, AppliedInv, Plain, ApplyPair, place' = "apply"
  PROVE  AppliedInv'
<1> DEFINE p == FirstPair.row
<1>1. p \in Pending /\ Pending' = Pending \ {p} /\ p \in Nat /\ \A q \in Pending' : p < q
  BY PendingFacts, RowsFinite
<1>2. lines' = lines /\ place = "apply"
  BY ApplyFields DEF file
<1>3. \A key, i : Meaning(key, i)' = Meaning(key, i)
  BY <1>2, SameParts
<1> HIDE DEF p
<1>4. ASSUME NEW name \in DOMAIN Keys, NEW key \in Keys[name]
      PROVE  /\ \A i \in Applied(name, key)', q \in Pending' : i < q
             /\ conf'[name][key] = IF Telling(name, key)' = {} THEN Unset(key)
                                   ELSE Meaning(key, First(Telling(name, key)'))
             /\ p \in Given(name, key) /\ Telling(name, key) = {} =>
                  conf'[name][key] = Meaning(key, p)
  <2> DEFINE A == Applied(name, key)
             T == Telling(name, key)
             B == Applied(name, key)'
             U == Telling(name, key)'
             given == p \in Given(name, key)
             unset == Unset(key)
             c == conf[name][key]
             d == conf'[name][key]
  <2>1. /\ A \subseteq Nat /\ T \subseteq A /\ \A i \in A, q \in Pending : i < q
        /\ IF T = {} THEN c = unset
           ELSE /\ First(T) \in T /\ \A j \in T : First(T) <= j
                /\ c = Meaning(key, First(T))
        /\ c = unset <=> T = {}
    BY <1>2, AppliedFacts
  <2>2. /\ B = IF given THEN A \cup {p} ELSE A
        /\ U = IF given /\ Meaning(key, p) # unset THEN T \cup {p} ELSE T
        /\ d = IF given /\ c = unset THEN Meaning(key, p) ELSE c
    BY AppliedFields DEF p
  <2> HIDE DEF A, T, B, U, given, unset, c, d
  <2>3. \A i \in B, q \in Pending' : i < q
    BY <1>1, <2>1, <2>2
  <2>4. CASE T = {}
    <3>1. First({p}) = p
      BY <1>1, FirstIs
    <3> QED
      BY <2>1, <2>2, <2>3, <2>4, <3>1 DEF A, T, B, U, given, unset, c, d
  <2>5. CASE T # {}
    <3>1. d = c /\ c = Meaning(key, First(T))
      BY <2>1, <2>2, <2>5
    <3>2. First(U) = First(T) /\ U # {}
      <4>1. First(T) \in Nat /\ First(T) < p
        BY <1>1, <2>1, <2>5
      <4>2. U \subseteq Nat /\ First(T) \in U /\ \A j \in U : First(T) <= j
        <5>1. \A j \in U : j \in T \/ j = p
          BY <2>2
        <5>2. First(T) \in U
          BY <2>1, <2>2, <2>5
        <5>3. \A j \in U : j \in Nat /\ First(T) <= j
          <6>1. First(T) <= p
            BY <1>1, <4>1
          <6>2. \A j \in T : j \in Nat
            BY <2>1
          <6> QED
            BY <1>1, <2>1, <2>5, <5>1, <6>1, <6>2
        <5> QED
          BY <5>2, <5>3
      <4> QED
        BY <4>2, FirstIs
    <3> QED
      BY <2>3, <2>5, <3>1, <3>2 DEF A, T, B, U, given, unset, c, d
  <2> QED
    BY <2>4, <2>5
<1>5. ASSUME NEW name \in DOMAIN Keys, NEW i \in Applied(name, "BUFFERS")'
      PROVE  Meaning("BUFFERS", i) # 0 \/ \E j \in Applied(name, "BUFFERS")' : j < i
  <2> DEFINE A == Applied(name, "BUFFERS")
             B == Applied(name, "BUFFERS")'
             T == Telling(name, "BUFFERS")
  <2>1. "BUFFERS" \in Keys[name] /\ Unset("BUFFERS") = 0
    BY KeysFacts DEF Unset
  <2>2. B = IF p \in Given(name, "BUFFERS") THEN A \cup {p} ELSE A
    BY <2>1, AppliedFields DEF p
  <2>3. CASE i \in A
    <3>1. Meaning("BUFFERS", i) # 0 \/ \E j \in A : j < i
      BY <1>2, <2>3 DEF AppliedInv
    <3> QED
      BY <2>2, <3>1
  <2>4. CASE i \notin A
    <3>1. i = p /\ p \in Given(name, "BUFFERS")
      BY <2>2, <2>4
    <3>2. CASE T # {}
      <4>1. First(T) \in A /\ First(T) < p
        BY <1>1, <1>2, <2>1, <3>2, AppliedFacts
      <4> QED
        BY <2>2, <3>1, <4>1
    <3>3. CASE T = {}
      <4>1. conf'[name]["BUFFERS"] = Meaning("BUFFERS", p)
        BY <1>4, <2>1, <3>1, <3>3
      <4>2. name = word(sections[1].name) /\ word(FirstPair.key) = "BUFFERS"
        BY <2>1, <3>1, FirstGiven DEF p
      <4>3. ~ exits(conf'[name].BUFFERS)
        BY <4>2, ApplyConf
      <4>4. conf'[name].BUFFERS # 0
        BY <4>3 DEF exits
      <4> QED
        BY <3>1, <4>1, <4>4
    <3> QED
      BY <3>2, <3>3
  <2> QED
    BY <2>3, <2>4
<1>6. SUFFICES ASSUME NEW name \in DOMAIN Keys
               PROVE  /\ \A key \in Keys[name] :
                           /\ \A i \in Applied(name, key)', q \in Pending' : i < q
                           /\ conf'[name][key] = IF Telling(name, key)' = {} THEN Unset(key)
                                                 ELSE Meaning(key, First(Telling(name, key)))'
                      /\ \A i \in Applied(name, "BUFFERS")' :
                           Meaning("BUFFERS", i)' # 0 \/ \E j \in Applied(name, "BUFFERS")' : j < i
  BY DEF AppliedInv, Unset
<1>7. \A key \in Keys[name] : Meaning(key, First(Telling(name, key)))' = Meaning(key, First(Telling(name, key)'))
  BY <1>3 DEF First
<1> QED
  BY <1>3, <1>4, <1>5, <1>7

\* The process ends at a number of buffers that is the first given.
LEMMA ApplyStops ==
  ASSUME Typed, Typed', HeadersInv, PairsInv, AppliedInv, Plain, ApplyPair, place' = "stopped"
  PROVE  ~ SectionsAgree
<1> DEFINE name == word(sections[1].name)
           p == FirstPair.row
           G == Given(name, "BUFFERS")
           b == conf[name]["BUFFERS"]
           c == conf'[name]["BUFFERS"]
<1>1. name \in DOMAIN Keys /\ word(FirstPair.key) = "BUFFERS" /\ exits(c)
  BY ApplyConf
<1>2. place = "apply"
  BY ApplyFields
<1> HIDE DEF name
<1>3. "BUFFERS" \in Keys[name] /\ Unset("BUFFERS") = 0
  BY <1>1, KeysFacts DEF Unset
<1>4. p \in G
  BY <1>1, <1>3, FirstGiven DEF name
<1>5. c = IF b = 0 THEN Meaning("BUFFERS", p) ELSE b
  BY <1>1, <1>3, <1>4, AppliedFields
<1>6. b = 0
  <2>1. b = 0 \/ Supported(b)
    BY <1>1, <1>2 DEF Typed, BuffersInRange
  <2>2. b \in Nat
    BY <1>1, <1>3, KeysFacts DEF Typed, Fields
  <2> HIDE DEF b, c
  <2> QED
    BY <1>1, <1>5, <2>1, <2>2 DEF Supported, exits
<1>7. Applied(name, "BUFFERS") = {}
  <2>1. Telling(name, "BUFFERS") = {}
    BY <1>1, <1>2, <1>3, <1>6, AppliedFacts
  <2> QED
    BY <1>1, <1>2, <2>1, BuffersApplied
<1>8. G \subseteq Pending /\ G \in SUBSET Nat
  BY <1>1, <1>3, <1>7, GivenFacts DEF Applied
<1>9. Pending' = Pending \ {p} /\ (\A q \in Pending' : p < q) /\ p \in Nat
  BY PendingFacts, RowsFinite
<1>10. \A i \in G : p <= i
  <2>1. ASSUME NEW i \in G
        PROVE  p <= i
    <3>1. i \in Nat /\ (i = p \/ p < i)
      BY <1>8, <1>9
    <3> HIDE DEF G, p
    <3> QED
      BY <1>9, <3>1
  <2> QED
    BY <2>1
<1>11. FirstBuffers(name) = c
  <2>1. First(G) = p
    BY <1>4, <1>8, <1>10, FirstIs
  <2> QED
    BY <1>4, <1>5, <1>6, <2>1 DEF FirstBuffers
<1>12. ~ Supported(FirstBuffers(name))
  <2>1. c \in Nat
    BY <1>1, <1>3, KeysFacts DEF Typed, Fields
  <2> QED
    BY <1>1, <1>11, <2>1 DEF exits, Supported
<1>13. name = "PRODUCER" \/ name = "CONSUMER"
  BY <1>1, KeysFacts
<1> QED
  BY <1>12, <1>13 DEF SectionsAgree

-----------------------------------------------------------------------------
\* When the file was read, nothing is applied yet; a section without pairs adds nothing.
LEMMA NothingApplied ==
  ASSUME Typed, HeadersInv, PairsInv, ConfInv, Plain, place = "read", lines' = lines, conf' = conf, Complete
  PROVE  AppliedInv'
<1>1. \A name, key : Given(name, key)' = Given(name, key)
  BY SameParts
<1>2. Pending' = Pending
  BY DEF Pending, Complete
<1>3. ASSUME NEW name \in DOMAIN Keys, NEW key \in Keys[name], NEW i \in Given(name, key)
      PROVE  i \in Pending
  <2>1. PICK h \in Headers : i \in Section(h)
    BY GivenFacts
  <2>2. Regular /\ CommentsAlone
    BY DEF Plain
  <2>3. PICK j \in DOMAIN sections : sections[j].row = h
    BY <2>2 DEF HeadersInv, Complete
  <2>4. PairStored(i)
    BY <2>1, <2>2 DEF Complete, Section
  <2>5. i \in Rows(sections[j].pairs)
    BY <2>1, <2>3, <2>4 DEF PairsInv
  <2> QED
    BY <2>5 DEF Pending
<1>4. \A name \in DOMAIN Keys : \A key \in Keys[name] : Applied(name, key)' = {}
  <2>1. \A name, key : Applied(name, key)' = Given(name, key) \ Pending
    BY <1>1, <1>2 DEF Applied
  <2> QED
    BY <1>3, <2>1
<1>5. \A name \in DOMAIN Keys : \A key \in Keys[name] : Telling(name, key)' = {}
  BY <1>4 DEF Telling
<1>6. \A name \in DOMAIN Keys : \A key \in Keys[name] : conf'[name][key] = Unset(key)
  <2>1. \A name \in DOMAIN Keys : conf'[name] = calloc(name)
    BY DEF ConfInv
  <2> QED
    BY <2>1 DEF calloc
<1>7. \A name \in DOMAIN Keys : "BUFFERS" \in Keys[name]
  BY KeysFacts
<1> QED
  BY <1>4, <1>5, <1>6, <1>7 DEF AppliedInv, Unset

\* AppliedInv is about the file, the configurations and the pairs that remain.
LEMMA SameApplied ==
  ASSUME AppliedInv, place \in {"apply", "accepted"}, lines' = lines, conf' = conf, Pending' = Pending
  PROVE  AppliedInv'
<1>1. /\ \A name, key : Given(name, key)' = Given(name, key)
      /\ \A key, i : Meaning(key, i)' = Meaning(key, i)
      /\ Plain' <=> Plain
  BY SameParts, SamePairs
<1>2. \A name, key : Applied(name, key)' = Applied(name, key)
  BY <1>1 DEF Applied
<1>3. \A name, key : Telling(name, key)' = Telling(name, key)
  BY <1>1, <1>2 DEF Telling, Unset
<1>4. \A name, key : Meaning(key, First(Telling(name, key)))' = Meaning(key, First(Telling(name, key)))
  BY <1>1, <1>3 DEF First
<1>5. CASE Plain
  <2>1. SUFFICES ASSUME NEW name \in DOMAIN Keys
                 PROVE  /\ \A key \in Keys[name] :
                             /\ \A i \in Applied(name, key), p \in Pending : i < p
                             /\ conf[name][key] = IF Telling(name, key) = {} THEN Unset(key)
                                                  ELSE Meaning(key, First(Telling(name, key)))
                        /\ \A i \in Applied(name, "BUFFERS") :
                             Meaning("BUFFERS", i) # 0 \/ \E j \in Applied(name, "BUFFERS") : j < i
    BY <1>1, <1>2, <1>3, <1>4 DEF AppliedInv, Unset
  <2> QED
    BY <1>5 DEF AppliedInv
<1>6. CASE ~ Plain
  BY <1>1, <1>6 DEF AppliedInv
<1> QED
  BY <1>5, <1>6

\* A section that is left has no pairs any more.
LEMMA NextSectionPending ==
  ASSUME Typed, NextSection
  PROVE  Pending' = Pending
<1>1. /\ sections[1].pairs = <<>>
      /\ \A j \in DOMAIN sections' : j + 1 \in DOMAIN sections /\ sections'[j] = sections[j + 1]
      /\ \A j \in DOMAIN sections : j # 1 => \E m \in DOMAIN sections' : j = m + 1
  BY NextFields
<1>2. Rows(<<>>) = {}
  BY DEF Rows
<1>3. ASSUME NEW q \in Pending
      PROVE  q \in Pending'
  <2>1. PICK j \in DOMAIN sections : q \in Rows(sections[j].pairs)
    BY DEF Pending
  <2>2. PICK m \in DOMAIN sections' : j = m + 1
    BY <1>1, <1>2, <2>1
  <2>3. q \in Rows(sections'[m].pairs)
    BY <1>1, <2>1, <2>2
  <2> QED
    BY <2>3 DEF Pending
<1>4. ASSUME NEW q \in Pending'
      PROVE  q \in Pending
  <2>1. PICK j \in DOMAIN sections' : q \in Rows(sections'[j].pairs)
    BY DEF Pending
  <2>2. j + 1 \in DOMAIN sections /\ q \in Rows(sections[j + 1].pairs)
    BY <1>1, <2>1
  <2> QED
    BY <2>2 DEF Pending
<1> QED
  BY <1>3, <1>4

\* In the end the configurations are what the file means.
LEMMA AllApplied ==
  ASSUME Typed, AppliedInv, place \in {"apply", "accepted"}, Plain, sections = <<>>
  PROVE  \A name \in DOMAIN Keys :
           /\ \A key \in Keys[name] : conf[name][key] = FirstMeaning(name, key)
           /\ conf[name].BUFFERS = FirstBuffers(name)
<1>1. Pending = {}
  BY DEF Pending
<1>2. \A name, key : Applied(name, key) = Given(name, key)
  BY <1>1 DEF Applied
<1>3. ASSUME NEW name \in DOMAIN Keys, NEW key \in Keys[name]
      PROVE  conf[name][key] = FirstMeaning(name, key)
  <2>1. Telling(name, key) = {i \in Given(name, key) : Meaning(key, i) # Unset(key)}
    BY <1>2 DEF Telling
  <2>2. conf[name][key] = IF Telling(name, key) = {} THEN Unset(key)
                          ELSE Meaning(key, First(Telling(name, key)))
    BY DEF AppliedInv
  <2> QED
    BY <2>1, <2>2 DEF FirstMeaning
<1>4. ASSUME NEW name \in DOMAIN Keys
      PROVE  conf[name].BUFFERS = FirstBuffers(name)
  <2>1. "BUFFERS" \in Keys[name] /\ Unset("BUFFERS") = 0
    BY KeysFacts DEF Unset
  <2>2. CASE Given(name, "BUFFERS") = {}
    <3>1. Telling(name, "BUFFERS") = {}
      BY <1>2, <2>2 DEF Telling
    <3>2. conf[name]["BUFFERS"] = 0
      BY <2>1, <3>1, AppliedFacts
    <3> QED
      BY <2>2, <3>2 DEF FirstBuffers
  <2>3. CASE Given(name, "BUFFERS") # {}
    <3>1. First(Given(name, "BUFFERS")) = First(Telling(name, "BUFFERS")) /\ Telling(name, "BUFFERS") # {}
      BY <1>2, <2>3, BuffersApplied
    <3>2. conf[name]["BUFFERS"] = Meaning("BUFFERS", First(Telling(name, "BUFFERS")))
      BY <2>1, <3>1, AppliedFacts
    <3> QED
      BY <2>3, <3>1, <3>2 DEF FirstBuffers
  <2> QED
    BY <2>2, <2>3
<1> QED
  BY <1>3, <1>4

\* When all pairs are applied, the checks of asgard_config_read ask for what SectionsAgree says.
LEMMA AgreedMeans ==
  ASSUME Typed, AppliedInv, place \in {"apply", "accepted"}, Plain, sections = <<>>, FewEnough
  PROVE  Agreed(conf.PRODUCER, conf.CONSUMER) <=> SectionsAgree
<1> DEFINE jane == conf["PRODUCER"]
           thor == conf["CONSUMER"]
<1>1. /\ "PRODUCER" \in DOMAIN Keys /\ "CONSUMER" \in DOMAIN Keys
      /\ "BUFFERS" \in Keys["PRODUCER"] /\ "port" \in Keys["PRODUCER"] /\ "USE_BUFFERS" \in Keys["PRODUCER"]
      /\ "BUFFERS" \in Keys["CONSUMER"] /\ "port" \in Keys["CONSUMER"]
      /\ "DO_SEARCH" \in Keys["CONSUMER"] /\ "PATTERN" \in Keys["CONSUMER"]
  BY KeysFacts
<1>2. /\ jane.BUFFERS = FirstBuffers("PRODUCER") /\ thor.BUFFERS = FirstBuffers("CONSUMER")
      /\ jane.port = FirstMeaning("PRODUCER", "port") /\ thor.port = FirstMeaning("CONSUMER", "port")
      /\ thor.DO_SEARCH = FirstMeaning("CONSUMER", "DO_SEARCH")
      /\ thor.PATTERN = FirstMeaning("CONSUMER", "PATTERN")
  BY <1>1, AllApplied
<1>3. jane.BUFFERS \in Nat /\ jane.USE_BUFFERS \in Nat
  BY <1>1, KeysFacts, Zenon DEF Typed, Fields, Numbers
<1>4. jane.BUFFERS = 0 \/ Supported(jane.BUFFERS)
  BY <1>1 DEF Typed, BuffersInRange
<1>5. thor.PATTERN # NULL <=> Given("CONSUMER", "PATTERN") # {}
  <2>1. Unset("PATTERN") = NULL /\ "PATTERN" \notin Numbers
    BY DEF Unset, Numbers
  <2>2. \A i \in Given("CONSUMER", "PATTERN") : Meaning("PATTERN", i) # NULL
    <3>1. \A text : Value("PATTERN", text) = <<text>>
      BY <2>1 DEF Value
    <3>2. \A text : <<text>> # NULL
      BY DEF NULL
    <3> QED
      BY <3>1, <3>2 DEF Meaning
  <2>3. Applied("CONSUMER", "PATTERN") = Given("CONSUMER", "PATTERN")
    BY DEF Applied, Pending
  <2>4. Telling("CONSUMER", "PATTERN") = Given("CONSUMER", "PATTERN")
    BY <2>1, <2>2, <2>3 DEF Telling
  <2> QED
    BY <1>1, <2>1, <2>4, AppliedFacts
<1>6. 0 < jane.BUFFERS /\ ~ (0 >= jane.USE_BUFFERS /\ jane.USE_BUFFERS > jane.BUFFERS)
        <=> Supported(jane.BUFFERS)
  <2> DEFINE b == jane.BUFFERS
             u == jane.USE_BUFFERS
  <2> HIDE DEF b, u
  <2>1. 0 < b /\ ~ (0 >= u /\ u > b) <=> Supported(b)
    BY <1>3, <1>4 DEF b, u, Supported
  <2> QED
    BY <2>1 DEF b, u
<1>7. Agreed(conf.PRODUCER, conf.CONSUMER) <=>
        /\ Supported(jane.BUFFERS) /\ jane.BUFFERS = thor.BUFFERS
        /\ thor.DO_SEARCH \in {0, 1}
        /\ jane.port # 0 /\ jane.port = thor.port
        /\ thor.DO_SEARCH = 1 => Given("CONSUMER", "PATTERN") # {}
  BY <1>5, <1>6 DEF Agreed
<1> HIDE DEF jane, thor
<1> QED
  BY <1>2, <1>7 DEF SectionsAgree

-----------------------------------------------------------------------------
(***************************************************************************)
(* All of it holds at first, and each step keeps it.                       *)
(***************************************************************************)
LEMMA SameMeaning ==
  ASSUME lines' = lines
  PROVE  /\ \A name, key : FirstMeaning(name, key)' = FirstMeaning(name, key)
         /\ \A name : FirstBuffers(name)' = FirstBuffers(name)
         /\ FewEnough' <=> FewEnough
         /\ SectionsAgree' <=> SectionsAgree
<1>1. /\ \A name, key : Given(name, key)' = Given(name, key)
      /\ \A key, i : Meaning(key, i)' = Meaning(key, i)
  BY SameParts
<1>2. Headers' = Headers /\ \A h : Section(h)' = Section(h)
  BY SameFile
<1>3. \A name, key : FirstMeaning(name, key)' = FirstMeaning(name, key)
  <2>1. ASSUME NEW name, NEW key
        PROVE  FirstMeaning(name, key)' = FirstMeaning(name, key)
    <3> DEFINE told == {i \in Given(name, key) : Meaning(key, i) # Unset(key)}
    <3>1. told' = told
      BY <1>1 DEF Unset
    <3>2. Meaning(key, First(told))' = Meaning(key, First(told))
      <4> HIDE DEF told
      <4> QED
        BY <1>1, <3>1 DEF First
    <3> QED
      BY <3>1, <3>2 DEF FirstMeaning, Unset
  <2> QED
    BY <2>1
<1>4. \A name : FirstBuffers(name)' = FirstBuffers(name)
  <2>1. \A name : Meaning("BUFFERS", First(Given(name, "BUFFERS")))'
                  = Meaning("BUFFERS", First(Given(name, "BUFFERS")))
    BY <1>1 DEF First
  <2> QED
    BY <1>1, <2>1 DEF FirstBuffers
<1>5. FewEnough' <=> FewEnough
  BY <1>2 DEF FewEnough
<1>6. Given("CONSUMER", "PATTERN")' = Given("CONSUMER", "PATTERN")
  BY <1>1
<1> QED
  BY <1>3, <1>4, <1>5, <1>6 DEF SectionsAgree, Supported

\* The inductive invariant holds at first.
LEMMA InitInv ==
  ASSUME Init
  PROVE  CInv
<1>1. Typed
  BY InitTyped
<1>2. /\ row = 1 /\ col = 1 /\ mode = "line" /\ s = <<>> /\ k = NULL /\ place = "read" /\ sections = <<>>
      /\ \A name \in DOMAIN Keys : conf[name] = calloc(name)
  BY DEF Init
<1>3. lines \in Seq(Line)
  BY <1>1, LinesTyped
<1>4. Sofar = <<>>
  <2>1. CASE row <= Len(lines)
    <3>1. row \in DOMAIN lines
      BY <1>2, <1>3, <2>1
    <3> QED
      BY <1>1, <1>2, <3>1, SofarFacts
  <2>2. CASE ~ (row <= Len(lines))
    BY <2>2 DEF Sofar
  <2> QED
    BY <2>1, <2>2
<1>5. \A h \in Headers : h >= 1 /\ h \in Nat /\ Len(Bare[h]) > 2 /\ Len(Bare[h]) \in Nat
  <2>1. ASSUME NEW h \in Headers
        PROVE  h >= 1 /\ h \in Nat /\ Len(Bare[h]) > 2 /\ Len(Bare[h]) \in Nat
    <3>1. h \in DOMAIN lines /\ Len(Bare[h]) > 2
      BY <1>1, HeaderFacts
    <3>2. Len(Bare[h]) \in Nat
      BY <1>1, <3>1, BareFacts DEF Line
    <3> QED
      BY <1>3, <3>1, <3>2
  <2> QED
    BY <2>1
<1>6. LineInv
  <2>0. Over(s, <<>>)
    <3>1. <<>> \in Text
      BY DEF Text
    <3> QED
      BY <1>2, <3>1, OverSelf
  <2>1. Between
    BY <1>2 DEF Between
  <2>2. InEmpty
    BY <1>2, <1>4, <2>1 DEF InEmpty
  <2>3. row \in Headers => InHeader
    BY <1>2, <1>4, <1>5, <2>0 DEF InHeader
  <2>4. row \in Pairs => InPair
    <3>1. ASSUME row \in Pairs
          PROVE  Mark(row) >= 1 /\ Mark(row) \in Nat
      BY <1>1, <3>1, PairFacts
    <3>2. Len(Sofar) = 0
      BY <1>4
    <3> QED
      BY <1>2, <1>4, <2>0, <3>1, <3>2 DEF InPair
  <2> QED
    BY <1>2, <2>1, <2>2, <2>3, <2>4 DEF LineInv
<1>7. HeadersInv
  <2>1. \A h \in Headers : ~ HeaderStored(h)
    BY <1>2, <1>4, <1>5 DEF HeaderStored
  <2> QED
    BY <1>2, <2>1 DEF HeadersInv
<1>8. GenuineInv /\ PairsInv
  BY <1>2 DEF GenuineInv, PairsInv
<1>9. LimitInv
  BY <1>2, ConfigAssumption DEF LimitInv, Limited
<1>10. TakenInv
  BY <1>2 DEF TakenInv, calloc
<1>11. AppliedInv /\ ConfInv /\ EndInv
  BY <1>2 DEF AppliedInv, ConfInv, EndInv
<1> QED
  BY <1>1, <1>6, <1>7, <1>8, <1>9, <1>10, <1>11 DEF CInv

\* The fields keep their values while the file is read.
LEMMA SameTaken ==
  ASSUME TakenInv, lines' = lines, conf' = conf
  PROVE  TakenInv'
<1>1. /\ \A name, key : Ending(name, key)' = Ending(name, key)
      /\ \A key, i : Meaning(key, i)' = Meaning(key, i)
      /\ Regular' <=> Regular
  BY SameParts, SameFile
<1> QED
  BY <1>1 DEF TakenInv, Unset

\* ini_parse keeps each part of it...
LEMMA ParseInv ==
  ASSUME CInv, ini_parse
  PROVE  CInv'
<1>1. Typed /\ Typed'
  BY ParseTyped DEF CInv
<1>2. place = "read" /\ lines' = lines /\ conf' = conf
  BY <1>1, ParseSections DEF ini_parse, file
<1>3. place' \in {"read", "apply", "stopped"}
  <2>1. place' \in {place, "stopped"} \/ place' = "apply"
    <3>1. CASE UNCHANGED sections /\ place' \in {"read", "apply"}
      BY <1>2, <3>1
    <3>2. CASE get_section(s)
      BY <3>2 DEF get_section
    <3>3. CASE add_pair(k[1], s)
      BY <3>3 DEF add_pair
    <3> QED
      BY <1>1, <3>1, <3>2, <3>3, ParseSections
  <2> QED
    BY <1>2, <2>1
<1>4. (Regular' <=> Regular) /\ (Plain' <=> Plain)
      /\ (PairsInSections' <=> PairsInSections) /\ (SectionsAgree' <=> SectionsAgree)
      /\ (FewEnough' <=> FewEnough)
  BY <1>2, SameFile, SamePairs, SameMeaning
<1>5. Regular => LineInv' /\ (Quiet \/ NewSection \/ NewPair \/ Complete)
  BY <1>1, ParseStep DEF CInv
<1>6. LineInv'
  BY <1>4, <1>5 DEF LineInv
<1>7. HeadersInv'
  <2>1. CASE Regular
    BY <1>1, <1>2, <1>5, <2>1, HeadersNext DEF CInv
  <2>2. CASE ~ Regular
    BY <1>4, <2>2 DEF HeadersInv
  <2> QED
    BY <2>1, <2>2
<1>8. GenuineInv'
  <2>1. CASE Regular
    BY <1>1, <1>2, <1>5, <2>1, GenuineNext DEF CInv
  <2>2. CASE ~ Regular
    BY <1>4, <2>2 DEF GenuineInv
  <2> QED
    BY <2>1, <2>2
<1>9. PairsInv'
  <2>1. CASE Plain
    BY <1>1, <1>2, <1>5, <2>1, PairsNext DEF CInv, Plain
  <2>2. CASE ~ Plain
    BY <1>4, <2>2 DEF PairsInv
  <2> QED
    BY <2>1, <2>2
<1>10. LimitInv'
  <2>1. place' = "read" => Limited(sections)'
    <3>1. place' = "read" => Limited(sections')
      BY <1>1, <1>2, LimitNext DEF CInv, LimitInv
    <3> QED
      BY <3>1 DEF Limited
  <2>2. ASSUME place' = "apply", Plain
        PROVE  FewEnough
    <3>1. Complete
      <4>1. Regular
        BY <2>2 DEF Plain
      <4>2. (Quiet => place' = place) /\ (NewSection \/ NewPair => place' \in {place, "stopped"})
        BY DEF Quiet, NewSection, NewPair, get_section, add_pair
      <4> QED
        BY <1>2, <1>5, <2>2, <4>1, <4>2
    <3> QED
      BY <1>1, <1>2, <2>2, <3>1, LimitComplete DEF CInv, LimitInv
  <2> QED
    BY <1>3, <1>4, <2>1, <2>2 DEF LimitInv
<1>11. TakenInv'
  BY <1>2, SameTaken DEF CInv
<1>12. AppliedInv'
  <2>1. CASE place' = "apply" /\ Plain
    <3>1. Complete
      <4>1. Regular
        BY <2>1 DEF Plain
      <4>2. (Quiet => place' = place) /\ (NewSection \/ NewPair => place' \in {place, "stopped"})
        BY DEF Quiet, NewSection, NewPair, get_section, add_pair
      <4> QED
        BY <1>2, <1>5, <2>1, <4>1, <4>2
    <3> QED
      BY <1>1, <1>2, <2>1, <3>1, NothingApplied DEF CInv
  <2>2. CASE ~ (place' = "apply" /\ Plain)
    BY <1>3, <1>4, <2>2 DEF AppliedInv
  <2> QED
    BY <2>1, <2>2
<1>13. ConfInv'
  BY <1>2 DEF CInv, ConfInv, calloc, Unset
<1>14. EndInv'
  <2>1. ASSUME place' = "stopped", Plain, PairsInSections
        PROVE  ~ SectionsAgree
    <3>1. NewSection \/ NewPair
      <4>1. Regular
        BY <2>1 DEF Plain
      <4>2. Quiet \/ Complete => place' \in {place, "apply"}
        BY DEF Quiet, Complete
      <4> QED
        BY <1>2, <1>5, <2>1, <4>1, <4>2
    <3> QED
      BY <1>1, <1>2, <1>7, <1>9, <2>1, <3>1, StopsReading DEF CInv, SectionsAgree
  <2> QED
    BY <1>3, <1>4, <2>1 DEF EndInv
<1> QED
  BY <1>1, <1>6, <1>7, <1>8, <1>9, <1>10, <1>11, <1>12, <1>13, <1>14 DEF CInv

\* ...and so does the next pair...
LEMMA ApplyInv ==
  ASSUME CInv, ApplyPair
  PROVE  CInv'
<1>1. Typed /\ Typed' /\ HeadersInv /\ GenuineInv /\ PairsInv /\ AppliedInv
  BY ApplyPairTyped DEF CInv
<1>2. place = "apply" /\ place' \in {"apply", "stopped"} /\ lines' = lines
  BY <1>1, ApplyFields DEF file
<1>3. (Regular' <=> Regular) /\ (Plain' <=> Plain)
      /\ (PairsInSections' <=> PairsInSections) /\ (SectionsAgree' <=> SectionsAgree)
      /\ (FewEnough' <=> FewEnough)
  BY <1>2, SameFile, SamePairs, SameMeaning
<1>4. LineInv' /\ ConfInv'
  BY <1>2 DEF LineInv, ConfInv
<1>5. HeadersInv'
  BY <1>1, <1>3, HeadersApply DEF HeadersInv
<1>6. GenuineInv'
  BY <1>1, <1>3, GenuineApply DEF GenuineInv
<1>7. PairsInv'
  BY <1>1, <1>3, PairsApply DEF PairsInv
<1>8. LimitInv'
  BY <1>2, <1>3 DEF CInv, LimitInv
<1>9. TakenInv'
  <2>1. CASE Regular
    BY <1>1, <2>1, TakenNext DEF CInv
  <2>2. CASE ~ Regular
    BY <1>3, <2>2 DEF TakenInv
  <2> QED
    BY <2>1, <2>2
<1>10. AppliedInv'
  <2>1. CASE place' = "apply" /\ Plain
    BY <1>1, <2>1, AppliedNext
  <2>2. CASE ~ (place' = "apply" /\ Plain)
    BY <1>2, <1>3, <2>2 DEF AppliedInv
  <2> QED
    BY <2>1, <2>2
<1>11. EndInv'
  <2>1. place' = "stopped" /\ Plain => ~ SectionsAgree
    BY <1>1, ApplyStops
  <2> QED
    BY <1>2, <1>3, <2>1 DEF EndInv
<1> QED
  BY <1>1, <1>4, <1>5, <1>6, <1>7, <1>8, <1>9, <1>10, <1>11 DEF CInv

\* ...the next section...
LEMMA SectionInv ==
  ASSUME CInv, NextSection
  PROVE  CInv'
<1>1. Typed /\ Typed' /\ HeadersInv /\ GenuineInv /\ PairsInv /\ AppliedInv
  BY NextTyped DEF CInv, Next
<1>2. place = "apply" /\ place' = "apply" /\ lines' = lines /\ conf' = conf
  BY <1>1, NextFields DEF file
<1>3. (Regular' <=> Regular) /\ (Plain' <=> Plain)
      /\ (FewEnough' <=> FewEnough)
  BY <1>2, SameFile, SamePairs, SameMeaning
<1>4. LineInv' /\ ConfInv' /\ EndInv'
  BY <1>2 DEF LineInv, ConfInv, EndInv
<1>5. HeadersInv'
  BY <1>1, <1>3, HeadersApply DEF HeadersInv
<1>6. GenuineInv'
  BY <1>1, <1>3, GenuineApply DEF GenuineInv
<1>7. PairsInv'
  BY <1>1, <1>3, PairsApply DEF PairsInv
<1>8. LimitInv'
  BY <1>2, <1>3 DEF CInv, LimitInv
<1>9. TakenInv'
  BY <1>2, SameTaken DEF CInv
<1>10. AppliedInv'
  BY <1>1, <1>2, NextSectionPending, SameApplied
<1> QED
  BY <1>1, <1>4, <1>5, <1>6, <1>7, <1>8, <1>9, <1>10 DEF CInv

\* ...the verdict...
LEMMA VerdictInv ==
  ASSUME CInv, Verdict
  PROVE  CInv'
<1>1. Typed /\ Typed' /\ AppliedInv
  BY NextTyped DEF CInv, Next
<1>2. /\ place = "apply" /\ sections = <<>> /\ sections' = <<>> /\ lines' = lines /\ conf' = conf
      /\ place' = IF Agreed(conf.PRODUCER, conf.CONSUMER) THEN "accepted" ELSE "stopped"
  BY DEF Verdict, file
<1>3. (Plain' <=> Plain) /\ (FewEnough' <=> FewEnough) /\ (SectionsAgree' <=> SectionsAgree)
  BY <1>2, SamePairs, SameMeaning
<1>4. LineInv' /\ ConfInv' /\ HeadersInv' /\ GenuineInv' /\ PairsInv'
  BY <1>2 DEF LineInv, ConfInv, HeadersInv, GenuineInv, PairsInv
<1>5. LimitInv'
  BY <1>2, <1>3 DEF CInv, LimitInv
<1>6. TakenInv'
  BY <1>2, SameTaken DEF CInv
<1>7. AppliedInv'
  <2>1. Pending' = Pending
    BY <1>2 DEF Pending
  <2> QED
    BY <1>1, <1>2, <2>1, SameApplied
<1>8. EndInv'
  <2>1. place' = "accepted" => Agreed(conf.PRODUCER, conf.CONSUMER)
    BY <1>2
  <2>2. Agreed(conf.PRODUCER, conf.CONSUMER)' <=> Agreed(conf.PRODUCER, conf.CONSUMER)
    BY <1>2 DEF Agreed, NULL
  <2>3. place' = "stopped" /\ Plain => ~ SectionsAgree
    <3>1. ASSUME place' = "stopped", Plain
          PROVE  ~ SectionsAgree
      <4>1. FewEnough
        BY <1>2, <3>1 DEF CInv, LimitInv
      <4>2. ~ Agreed(conf.PRODUCER, conf.CONSUMER)
        BY <1>2, <3>1
      <4> QED
        BY <1>1, <1>2, <3>1, <4>1, <4>2, AgreedMeans
    <3> QED
      BY <3>1
  <2> QED
    BY <1>2, <1>3, <2>1, <2>2, <2>3 DEF EndInv
<1> QED
  BY <1>1, <1>4, <1>5, <1>6, <1>7, <1>8 DEF CInv

\* ...and a step that changes nothing.
LEMMA SameInv ==
  ASSUME CInv, UNCHANGED vars
  PROVE  CInv'
<1>1. lines' = lines /\ newline' = newline /\ row' = row /\ col' = col
      /\ mode' = mode /\ s' = s /\ k' = k /\ place' = place /\ sections' = sections /\ conf' = conf
  BY DEF vars, file, position, line
<1>2. Typed'
  BY NextTyped DEF CInv
<1>3. /\ Bare' = Bare /\ Headers' = Headers /\ Pairs' = Pairs
      /\ (Regular' <=> Regular) /\ (CommentsAlone' <=> CommentsAlone)
      /\ (PairsInSections' <=> PairsInSections) /\ (Plain' <=> Plain)
      /\ (FewEnough' <=> FewEnough) /\ (SectionsAgree' <=> SectionsAgree)
  BY <1>1, SameFile, SamePairs, SameMeaning
<1>4. /\ \A i : Mark(i)' = Mark(i)
      /\ \A i : KeyOf(i)' = KeyOf(i)
      /\ \A t, u : Over(t, u)' <=> Over(t, u)
      /\ \A h, key, value : GivenIn(h, key, value)' <=> GivenIn(h, key, value)
      /\ \A h : NameOf(h)' = NameOf(h)
      /\ \A h, pairs : PairsRead(h, pairs)' <=> PairsRead(h, pairs)
      /\ \A h : Section(h)' = Section(h)
  BY <1>1, SameFile, SameParts, SamePairs
<1>5. Sofar' = Sofar /\ (LastStored' <=> LastStored)
  BY <1>1 DEF Sofar, LastStored, AtEnd, InLine
<1>6. LineInv'
  <2>1. (Between' <=> Between)
    BY <1>1, <1>3, <1>4 DEF Between
  <2>2. (InEmpty' <=> InEmpty)
    BY <1>1, <1>5, <2>1 DEF InEmpty
  <2>3. (InHeader' <=> InHeader)
    BY <1>1, <1>3, <1>4, <1>5 DEF InHeader
  <2>4. (InPair' <=> InPair)
    BY <1>1, <1>3, <1>4, <1>5 DEF InPair
  <2> QED
    BY <1>1, <1>3, <2>1, <2>2, <2>3, <2>4 DEF CInv, LineInv
<1>7. (\A h : HeaderStored(h)' <=> HeaderStored(h)) /\ (\A i : PairStored(i)' <=> PairStored(i))
  BY <1>1, <1>3, <1>5 DEF HeaderStored, PairStored
<1>8. HeadersInv'
  BY <1>1, <1>3, <1>4, <1>7 DEF CInv, HeadersInv
<1>9. GenuineInv'
  BY <1>1, <1>3, <1>4 DEF CInv, GenuineInv
<1>10. PairsInv'
  BY <1>1, <1>3, <1>4, <1>7 DEF CInv, PairsInv, Rows
<1>11. LimitInv'
  BY <1>1, <1>3 DEF CInv, LimitInv, Limited
<1>12. TakenInv'
  BY <1>1, SameTaken DEF CInv
<1>13. AppliedInv'
  <2>1. Pending' = Pending
    BY <1>1 DEF Pending
  <2>2. CASE place \in {"apply", "accepted"}
    BY <1>1, <2>1, <2>2, SameApplied DEF CInv
  <2>3. CASE place \notin {"apply", "accepted"}
    BY <1>1, <2>3 DEF AppliedInv
  <2> QED
    BY <2>2, <2>3
<1>14. ConfInv' /\ EndInv'
  BY <1>1, <1>3 DEF CInv, ConfInv, EndInv, Agreed, NULL, calloc, Unset
<1> QED
  BY <1>2, <1>6, <1>8, <1>9, <1>10, <1>11, <1>12, <1>13, <1>14 DEF CInv

\* Every step keeps it.
LEMMA NextInv ==
  ASSUME CInv, [Next]_vars
  PROVE  CInv'
  BY ParseInv, ApplyInv, SectionInv, VerdictInv, SameInv DEF Next, Finished
-----------------------------------------------------------------------------
(***************************************************************************)
(* The inductive invariant: read_line has collected what was read of the   *)
(* line, the sections and pairs stored are those of the lines behind, and  *)
(* the values taken are those of the lines applied.                        *)
(***************************************************************************)
THEOREM Reading == Spec => []CInv
<1>1. Init => CInv
  BY InitInv
<1>2. CInv /\ [Next]_vars => CInv'
  BY NextInv
<1> QED
  BY <1>1, <1>2, PTL DEF Spec

(***************************************************************************)
(* Of any file at all, numbers are not negative, and at each step of a     *)
(* process that goes on each of the two sections has 2 to 102399 buffers   *)
(* or has not given a number of them yet: atoi of whatever stands there    *)
(* passes by no other way.                                                 *)
(***************************************************************************)
THEOREM FieldsAreTyped == Spec => []TypeOK
<1>1. CInv => TypeOK
  BY TypedType DEF CInv
<1> QED
  BY <1>1, Reading, PTL

(***************************************************************************)
(* However many comments there are behind values, and whatever texts they  *)
(* join, a field of an accepted file has the whole value of one line whose *)
(* key and section's name end as those of the field do, if it is set.      *)
(***************************************************************************)
THEOREM ValuesKeptWhole == Spec => []ValuesStayWhole
<1>1. CInv => ValuesStayWhole
  BY DEF CInv, TakenInv, ValuesStayWhole
<1> QED
  BY <1>1, Reading, PTL

(***************************************************************************)
(* For every file of headers and pairs with comments on lines of their     *)
(* own, wherever the blanks are and whatever stands before the first       *)
(* section, the configurations are those the file means.                   *)
(***************************************************************************)
THEOREM WhatIsWritten == Spec => []ReadsWhatIsWritten
<1>1. CInv => ReadsWhatIsWritten
  <2>1. SUFFICES ASSUME CInv, place = "accepted", Plain
                 PROVE  \A name \in DOMAIN Keys : \A key \in Keys[name] :
                          conf[name][key] = FirstMeaning(name, key)
    BY DEF ReadsWhatIsWritten, Plain
  <2>2. Typed /\ AppliedInv /\ sections = <<>>
    BY <2>1 DEF CInv, EndInv
  <2> QED
    BY <2>1, <2>2, AllApplied
<1> QED
  BY <1>1, Reading, PTL

(***************************************************************************)
(* The programs go on with such a file if and only if its two sections     *)
(* agree and there are not more sections or pairs than there is room for,  *)
(* whatever MAX_CONFIGS is.                                                *)
(***************************************************************************)
THEOREM AcceptedMeansAgreed == Spec => []AcceptedIffAgreed
<1>1. CInv => AcceptedIffAgreed
  <2>1. SUFFICES ASSUME CInv, place \in {"accepted", "stopped"}, Plain, PairsInSections
                 PROVE  place = "accepted" <=> SectionsAgree
    BY DEF AcceptedIffAgreed, Plain
  <2>2. CASE place = "stopped"
    BY <2>1, <2>2 DEF CInv, EndInv
  <2>3. CASE place = "accepted"
    <3>1. Typed /\ AppliedInv /\ sections = <<>> /\ FewEnough /\ Agreed(conf.PRODUCER, conf.CONSUMER)
      BY <2>1, <2>3 DEF CInv, EndInv, LimitInv
    <3> QED
      BY <2>1, <2>3, <3>1, AgreedMeans
  <2> QED
    BY <2>1, <2>2, <2>3
<1> QED
  BY <1>1, Reading, PTL

=============================================================================
