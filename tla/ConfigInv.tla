------------------------------ MODULE ConfigInv ------------------------------
(***************************************************************************)
(* Why Config reads what is written: at each place of the file, what       *)
(* read_line has collected is what was read of the line, and the sections  *)
(* and pairs that are stored are those of the lines behind.                *)
(***************************************************************************)
EXTENDS Config

\* A name can go over the end of a line.
Line == Seq(Chars)
Text == Seq(Chars \cup {NL})

\* The types that TypeOK leaves out.
PairRecords == [key : Text, value : Text, row : Nat]
SectionRecords == [name : Text, row : Nat, pairs : Seq(PairRecords)]

PositionTyped ==
  /\ lines \in Files /\ newline \in BOOLEAN
  /\ row \in 1 .. (Len(lines) + 1) /\ col \in Nat \ {0}
  /\ IF row <= Len(lines) THEN col <= Len(lines[row]) + 1 ELSE col = 1

ConfTyped ==
  /\ DOMAIN conf = DOMAIN Keys
  /\ \A name \in DOMAIN Keys :
       /\ DOMAIN conf[name] = Keys[name]
       /\ \A key \in Keys[name] : key \notin Numbers => conf[name][key] \in Seq(Text)

\* The part of the state that ini_parse changes.
ReadTyped ==
  /\ PositionTyped
  /\ mode \in {"line", "name", "comment"}
  /\ s \in Text /\ k \in Seq(Text) /\ Len(k) <= 1
  /\ sections \in Seq(SectionRecords)
  /\ place \in {"read", "apply", "accepted", "stopped"}

Typed ==
  /\ ReadTyped
  /\ Fields /\ ConfTyped
  /\ place # "stopped" => BuffersInRange

\* What was read of the line, without the blanks.
Sofar == IF row <= Len(lines) THEN Solids(lines[row])[col - 1] ELSE <<>>

\* The text t is u; or, behind a comment, something stands in front of it.
Over(t, u) == IsSuffix(u, t) /\ (CommentsAlone => t = u)

\* A line of the section has this value, and a key that may have been longer.
GivenIn(h, key, value) ==
  \E i \in Section(h) : IsSuffix(KeyOf(i), key) /\ ValueOf(i) = value

\* Between two lines there is nothing, or a pair whose end a comment has hidden.
Between ==
  /\ CommentsAlone => k = NULL
  /\ k = NULL => s = <<>>
  /\ k # NULL /\ sections # <<>> => GivenIn(Last(sections).row, k[1], s)

\* What read_line has at each place of a line of each kind.
InEmpty ==
  /\ mode = IF Sofar = <<>> THEN "line" ELSE "comment"
  /\ Between

InHeader ==
  /\ Sofar = <<>> => mode = "line" /\ Over(s, <<>>)
  /\ Len(Sofar) \in 1 .. (Len(Bare[row]) - 1) =>
       mode = "name" /\ Over(s, SubSeq(Bare[row], 2, Len(Sofar)))
  /\ Len(Sofar) >= Len(Bare[row]) =>
       /\ mode = IF Len(Sofar) = Len(Bare[row]) THEN "line" ELSE "comment"
       /\ k = NULL /\ s = <<>>

\* The pair of the last line was stored, at the end of the file.
LastStored == AtEnd /\ k = NULL

InPair ==
  /\ Len(Sofar) < Mark(row) => mode = "line" /\ Over(s, Sofar)
  /\ Len(Sofar) >= Mark(row) /\ ~ LastStored =>
       /\ mode = IF Len(Sofar) <= Len(Bare[row]) THEN "line" ELSE "comment"
       /\ k # NULL /\ Over(k[1], KeyOf(row))
       /\ s = SubSeq(Bare[row], Mark(row) + 1,
                     IF Len(Sofar) <= Len(Bare[row]) THEN Len(Sofar) ELSE Len(Bare[row]))

LineInv ==
  place = "read" /\ Regular =>
    /\ row > Len(lines) => mode = "line" /\ Between
    /\ row <= Len(lines) /\ Bare[row] = <<>> => InEmpty
    /\ row \in Headers => InHeader
    /\ row \in Pairs => InPair

\* The headers and the pairs that are stored.
HeaderStored(h) == h < row \/ (h = row /\ Len(Sofar) >= Len(Bare[h]))
PairStored(i) == i < row \/ (i = row /\ LastStored)

\* The sections are those of the file, in order.
HeadersInv ==
  Regular =>
    /\ \A j \in DOMAIN sections :
         sections[j].row \in Headers /\ Over(sections[j].name, NameOf(sections[j].row))
    /\ \A i, j \in DOMAIN sections : i < j => sections[i].row < sections[j].row
    /\ place = "read" =>
         \A h \in Headers :
           HeaderStored(h) <=> \E j \in DOMAIN sections : sections[j].row = h

\* The pairs have the values of lines of the file.
GenuineInv ==
  Regular =>
    \A j \in DOMAIN sections : \A n \in DOMAIN sections[j].pairs :
      GivenIn(sections[j].row, sections[j].pairs[n].key, sections[j].pairs[n].value)

Plain == Regular /\ CommentsAlone
Rows(pairs) == {pairs[n].row : n \in DOMAIN pairs}

\* Without comments behind the values, the pairs are those of the file, in order.
PairsRead(h, pairs) ==
  /\ \A n \in DOMAIN pairs :
       /\ pairs[n].row \in Section(h)
       /\ pairs[n].key = KeyOf(pairs[n].row) /\ pairs[n].value = ValueOf(pairs[n].row)
  /\ \A m, n \in DOMAIN pairs : m < n => pairs[m].row < pairs[n].row
PairsInv ==
  Plain =>
    \A j \in DOMAIN sections :
      /\ PairsRead(sections[j].row, sections[j].pairs)
      /\ place = "read" =>
           \A i \in Section(sections[j].row) : PairStored(i) <=> i \in Rows(sections[j].pairs)

Limited(q) == Len(q) <= MAX_CONFIGS /\ \A j \in DOMAIN q : Len(q[j].pairs) <= MAX_CONFIGS
LimitInv ==
  /\ place = "read" => Limited(sections)
  /\ place \in {"apply", "accepted"} /\ Plain => FewEnough

\* The values taken are those of lines of the file.
TakenInv ==
  Regular =>
    \A name \in DOMAIN Keys : \A key \in Keys[name] :
      conf[name][key] # Unset(key) => \E i \in Ending(name, key) : conf[name][key] = Meaning(key, i)

\* Without comments behind the values they are those of the lines applied.
Pending == UNION {Rows(sections[j].pairs) : j \in DOMAIN sections}
Applied(name, key) == Given(name, key) \ Pending
Telling(name, key) == {i \in Applied(name, key) : Meaning(key, i) # Unset(key)}
AppliedInv ==
  place \in {"apply", "accepted"} /\ Plain =>
    \A name \in DOMAIN Keys :
      /\ \A key \in Keys[name] :
           /\ \A i \in Applied(name, key), p \in Pending : i < p
           /\ conf[name][key] = IF Telling(name, key) = {} THEN Unset(key)
                                ELSE Meaning(key, First(Telling(name, key)))
      /\ \A i \in Applied(name, "BUFFERS") :
           Meaning("BUFFERS", i) # 0 \/ \E j \in Applied(name, "BUFFERS") : j < i

ConfInv == place = "read" => \A name \in DOMAIN Keys : conf[name] = calloc(name)

\* How it ends.
EndInv ==
  /\ place = "accepted" => sections = <<>> /\ Agreed(conf.PRODUCER, conf.CONSUMER)
  /\ place = "stopped" /\ Plain /\ PairsInSections => ~ SectionsAgree

CInv ==
  /\ Typed
  /\ LineInv
  /\ HeadersInv
  /\ GenuineInv
  /\ PairsInv
  /\ LimitInv
  /\ TakenInv
  /\ AppliedInv
  /\ ConfInv
  /\ EndInv
=============================================================================
