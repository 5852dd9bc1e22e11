------------------------------- MODULE Config -------------------------------
(***************************************************************************)
(* ini_parser.c: asgard_config_read, as both programs call it first.  The  *)
(* file is a sequence of characters, and so is a char *.  A word that only *)
(* matters as a whole counts as one; Spelling gives the words the program  *)
(* looks for in as many parts as a file may take them apart.               *)
(***************************************************************************)
EXTENDS Integers, Sequences, FiniteSets, SequencesExt

CONSTANTS
  MAX_CONFIGS,
  Chars,        \* the characters and words of a line
  Files,        \* the files tried, each a sequence of lines
  Spelling      \* the characters of the words the program looks for

\* The blank and the end of a line.
BLANK == "blank"
NL == "newline"

\* The fields of the two configurations by section, and the numbers among them.
Keys == [PRODUCER |-> {"INPUT_TEXT_FILE", "BUFFERS", "USE_BUFFERS", "port"},
         CONSUMER |-> {"OUTPUT_TEXT_FILE", "PATTERN", "BUFFERS", "DO_SEARCH", "port"}]
Numbers == {"BUFFERS", "USE_BUFFERS", "port", "DO_SEARCH"}
Known == DOMAIN Keys \cup UNION {Keys[name] : name \in DOMAIN Keys}

ASSUME ConfigAssumption ==
  /\ MAX_CONFIGS \in Nat \ {0}
  /\ NL \notin Chars
  /\ Files \subseteq Seq(Seq(Chars))
  /\ Spelling \in [Known -> Seq(Chars)]
  /\ \A v, w \in Known : Spelling[v] = Spelling[w] => v = w

VARIABLES
  lines,     \* the file
  newline,   \* the last line ends in one
  row, col,  \* where fgetc is
  mode,      \* read_line: in a line, in a section name, or in a comment
  s, k,      \* read_line: the text collected, and the key or NULL
  place,     \* "read" in ini_parse, "apply" and then the end of asgard_config_read
  sections,  \* config_sections, with their rows; curr_section is the last
  conf       \* jane_config and thor_config

line == <<mode, s, k>>
file == <<lines, newline>>
position == <<row, col>>
vars == <<file, position, line, place, sections, conf>>

NULL == <<>>   \* a string that is there is a sequence of one

Unset(key) == IF key \in Numbers THEN 0 ELSE NULL
calloc(name) == [key \in Keys[name] |-> Unset(key)]

Fields ==
  \A name \in DOMAIN Keys : \A key \in Keys[name] :
    IF key \in Numbers THEN conf[name][key] \in Nat ELSE Len(conf[name][key]) <= 1
Supported(buffers) == 2 <= buffers /\ buffers <= 102399
BuffersInRange ==
  \A name \in DOMAIN Keys : conf[name].BUFFERS = 0 \/ Supported(conf[name].BUFFERS)

\* The types; a field is a number, or a string that is there or not.  Where a
\* process goes on, the buffers are not given yet or in the range it tests.
TypeOK ==
  /\ mode \in {"line", "name", "comment"}
  /\ Len(k) <= 1
  /\ place \in {"read", "apply", "accepted", "stopped"}
  /\ Fields
  /\ place # "stopped" => BuffersInRange

\* The value of the digits in front: a number that is not negative.
Digits == <<"0", "1", "2", "3", "4", "5", "6", "7", "8", "9">>
IsDigit(ch) == \E d \in 0 .. 9 : Digits[d + 1] = ch
atoi(text) ==
  LET end == SelectInSeq(text, LAMBDA ch : ~ IsDigit(ch))
      digits == IF end = 0 THEN Len(text) ELSE end - 1
      value[n \in 0 .. digits] ==
        IF n = 0 THEN 0
        ELSE 10 * value[n - 1] + CHOOSE d \in 0 .. 9 : Digits[d + 1] = text[n]
  IN  value[digits]

Init ==
  /\ lines \in Files /\ newline \in BOOLEAN
  /\ row = 1 /\ col = 1
  /\ mode = "line" /\ s = <<>> /\ k = NULL
  /\ place = "read"
  /\ sections = <<>>
  /\ conf = [name \in DOMAIN Keys |-> calloc(name)]
-----------------------------------------------------------------------------
\* The next character, if there is one.
InLine == row <= Len(lines) /\ col <= Len(lines[row])
AtEnd == row > Len(lines) \/ (row = Len(lines) /\ ~ InLine /\ ~ newline)
Char == IF InLine THEN lines[row][col] ELSE NL

\* fgetc returns ch, or the end of the file.
Gets(ch) ==
  /\ place = "read" /\ ~ AtEnd /\ ch = Char
  /\ IF InLine THEN row' = row /\ col' = col + 1 ELSE row' = row + 1 /\ col' = 1
GetsEOF == place = "read" /\ AtEnd /\ UNCHANGED position

\* read_line is called again.
NewCall == mode' = "line" /\ s' = <<>> /\ k' = NULL

\* Mutant: one more.
full_OneMore(count) == count > MAX_CONFIGS

\* The test of a count, before it goes up.
full(count) == count >= MAX_CONFIGS

\* get_section, and the place for it in ini_parse.
get_section(name) ==
  /\ sections' = Append(sections, [name |-> name, row |-> row, pairs |-> <<>>])
  /\ place' = IF full(Len(sections)) THEN "stopped" ELSE place

\* add_pair stores the pair before it looks whether there is room.  Before the
\* first section curr_section is not initialised: the process dies, or the pair
\* goes to memory nobody reads.
add_pair(key, value) ==
  IF sections = <<>>
  THEN place' \in {place, "stopped"} /\ UNCHANGED sections
  ELSE /\ sections' = [sections EXCEPT ![Len(sections)].pairs =
                         Append(@, [key |-> key, value |-> value, row |-> row])]
       /\ place' = IF full(Len(Last(sections).pairs)) THEN "stopped" ELSE place

OpenName ==
  /\ mode = "line" /\ Gets("[")
  /\ mode' = "name"
  /\ UNCHANGED <<s, k, place, sections>>

\* Text before the bracket on the line, or left over, is in front of the name,
\* and a key that has no value yet is forgotten.
CloseName ==
  /\ mode = "name" /\ Gets("]")
  /\ get_section(s)
  /\ NewCall

\* In a name everything counts, outside only words and digits do.
Collect(ch) ==
  /\ \/ mode = "name" /\ ch # "]"
     \/ mode = "line" /\ ch \notin {"[", "#", "=", BLANK, NL}
  /\ Gets(ch)
  /\ s' = Append(s, ch)
  /\ UNCHANGED <<mode, k, place, sections>>

Skip(ch) ==
  /\ \/ mode = "comment" /\ ch # NL
     \/ mode = "line" /\ (ch = BLANK \/ (ch = NL /\ k = NULL))
  /\ Gets(ch)
  /\ UNCHANGED <<line, place, sections>>

\* Mutant: the text is cleared at the end of a comment.
Comment_ClearsText(ch) ==
  /\ \/ mode = "line" /\ ch = "#" /\ mode' = "comment" /\ UNCHANGED s
     \/ mode = "comment" /\ ch = NL /\ mode' = "line" /\ s' = <<>>
  /\ Gets(ch)
  /\ UNCHANGED <<k, place, sections>>

\* A comment takes the end of its line with it: a value before it stays open.
Comment(ch) ==
  /\ \/ mode = "line" /\ ch = "#" /\ mode' = "comment"
     \/ mode = "comment" /\ ch = NL /\ mode' = "line"
  /\ Gets(ch)
  /\ UNCHANGED <<s, k, place, sections>>

\* What was collected is the key; of several on a line the last one counts.
Equals ==
  /\ mode = "line" /\ Gets("=")
  /\ k' = <<s>> /\ s' = <<>>
  /\ UNCHANGED <<mode, place, sections>>

EndOfLine ==
  /\ mode = "line" /\ k # NULL /\ Gets(NL)
  /\ add_pair(k[1], s)
  /\ NewCall

EndOfFile ==
  /\ GetsEOF
  /\ IF mode = "line" /\ k # NULL
     THEN add_pair(k[1], s) /\ NewCall
     ELSE place' = "apply" /\ UNCHANGED <<line, sections>>

ini_parse ==
  /\ \/ OpenName \/ CloseName \/ Equals \/ EndOfLine \/ EndOfFile
     \/ Collect(Char) \/ Skip(Char) \/ Comment(Char)
  /\ UNCHANGED <<file, conf>>
-----------------------------------------------------------------------------
\* Mutant: a pool of one buffer is taken.
exits_Below1(buffers) == buffers < 1 \/ buffers > 102399

exits(buffers) == buffers < 2 \/ buffers > 102399

Value(key, text) == IF key \in Numbers THEN atoi(text) ELSE <<text>>

\* strcmp with each of the words the program knows: a blank is none of them.
word(text) ==
  IF \E w \in Known : Spelling[w] = text
  THEN CHOOSE w \in Known : Spelling[w] = text
  ELSE BLANK

\* Mutant: the last value counts.
Taken_LastCounts(fields, key, text) ==
  IF key \in DOMAIN fields THEN [fields EXCEPT ![key] = Value(key, text)] ELSE fields

\* A field that is still 0 or NULL takes the value.
Taken(fields, key, text) ==
  IF key \in DOMAIN fields /\ fields[key] = Unset(key)
  THEN [fields EXCEPT ![key] = Value(key, text)]
  ELSE fields

\* The next pair; a number of buffers out of range ends the process.
ApplyPair ==
  /\ place = "apply" /\ sections # <<>> /\ Head(sections).pairs # <<>>
  /\ sections' = [sections EXCEPT ![1].pairs = Tail(@)]
  /\ LET name == word(Head(sections).name)
         pair == Head(Head(sections).pairs)
         key == word(pair.key)
     IN  IF name \in DOMAIN Keys
         THEN /\ conf' = [conf EXCEPT ![name] = Taken(@, key, pair.value)]
              /\ place' = IF key = "BUFFERS" /\ exits(conf'[name].BUFFERS)
                          THEN "stopped" ELSE place
         ELSE UNCHANGED <<conf, place>>
  /\ UNCHANGED <<file, position, line>>

NextSection ==
  /\ place = "apply" /\ sections # <<>> /\ Head(sections).pairs = <<>>
  /\ sections' = Tail(sections)
  /\ UNCHANGED <<file, position, line, place, conf>>

\* The checks at the end, the assertion about the pattern included.
Agreed(jane, thor) ==
  /\ 0 < jane.BUFFERS /\ jane.BUFFERS = thor.BUFFERS
  /\ ~ (0 >= jane.USE_BUFFERS /\ jane.USE_BUFFERS > jane.BUFFERS)
  /\ thor.DO_SEARCH \in {0, 1}
  /\ jane.port # 0 /\ jane.port = thor.port
  /\ thor.DO_SEARCH = 1 => thor.PATTERN # NULL

\* A false result fails an assertion of main.
Verdict ==
  /\ place = "apply" /\ sections = <<>>
  /\ place' = IF Agreed(conf.PRODUCER, conf.CONSUMER) THEN "accepted" ELSE "stopped"
  /\ UNCHANGED <<file, position, line, sections, conf>>

Finished ==
  /\ place \in {"accepted", "stopped"}
  /\ UNCHANGED vars

Next == ini_parse \/ ApplyPair \/ NextSection \/ Verdict \/ Finished

Spec == Init /\ [][Next]_vars
-----------------------------------------------------------------------------
\* The file read line by line, with blanks anywhere outside a name: nothing,
\* section headers, and pairs, each with or without a comment behind it.
Solids(l) ==
  LET upTo[n \in 0 .. Len(l)] ==
        IF n = 0 THEN <<>> ELSE IF l[n] = BLANK THEN upTo[n - 1] ELSE Append(upTo[n - 1], l[n])
  IN  upTo
Solid == [i \in DOMAIN lines |-> Solids(lines[i])[Len(lines[i])]]
Bare == [i \in DOMAIN lines |->
           LET mark == SelectInSeq(Solid[i], LAMBDA ch : ch = "#")
           IN  IF mark = 0 THEN Solid[i] ELSE SubSeq(Solid[i], 1, mark - 1)]
IsWord(text) == \A i \in DOMAIN text : text[i] \notin {"[", "]", "="}
IsHeader(text) == Len(text) > 2 /\ Head(text) = "[" /\ Last(text) = "]"
                  /\ IsWord(Tail(Front(text)))
IsPair(text) == \E n \in DOMAIN text :
                  text[n] = "=" /\ IsWord(SubSeq(text, 1, n - 1) \o SubSeq(text, n + 1, Len(text)))
Headers == {i \in DOMAIN lines : IsHeader(Bare[i])}
Pairs == {i \in DOMAIN lines : IsPair(Bare[i])}

Regular ==
  \A i \in DOMAIN lines :
    \/ Bare[i] = <<>>
    \/ i \in Headers /\ IsPrefix(Bare[i], lines[i])
    \/ i \in Pairs
CommentsAlone == \A i \in Pairs : Bare[i] = Solid[i]
PairsInSections == \A i \in Pairs : \E h \in Headers : h < i

\* The parts of a header and of a pair.
NameOf(h) == SubSeq(Bare[h], 2, Len(Bare[h]) - 1)
Mark(i) == CHOOSE n \in DOMAIN Bare[i] : Bare[i][n] = "="
KeyOf(i) == SubSeq(Bare[i], 1, Mark(i) - 1)
ValueOf(i) == SubSeq(Bare[i], Mark(i) + 1, Len(Bare[i]))

\* The lines of the section opened at line h, and those that give key a value
\* in a section called name.
Section(h) == {i \in Pairs : h < i /\ ~ \E j \in Headers : h < j /\ j < i}
Given(name, key) ==
  {i \in UNION {Section(h) : h \in {j \in Headers : NameOf(j) = Spelling[name]}} :
     KeyOf(i) = Spelling[key]}
Meaning(key, i) == Value(key, ValueOf(i))

\* Those whose key, and whose section's name, may be the end of another line's.
Ending(name, key) ==
  {i \in UNION {Section(h) : h \in {j \in Headers : IsSuffix(NameOf(j), Spelling[name])}} :
     IsSuffix(KeyOf(i), Spelling[key])}
First(S) == CHOOSE i \in S : \A j \in S : i <= j

\* The value of the first line that gives the key one which is not 0, and what
\* the buffers are taken from.
FirstMeaning(name, key) ==
  LET given == {i \in Given(name, key) : Meaning(key, i) # Unset(key)}
  IN  IF given = {} THEN Unset(key) ELSE Meaning(key, First(given))
FirstBuffers(name) ==
  IF Given(name, "BUFFERS") = {} THEN 0 ELSE Meaning("BUFFERS", First(Given(name, "BUFFERS")))

FewEnough ==
  /\ Cardinality(Headers) <= MAX_CONFIGS
  /\ \A h \in Headers : Cardinality(Section(h)) <= MAX_CONFIGS

(***************************************************************************)
(* An accepted file means what it says: whatever blanks and comments stand *)
(* between the words, each field has the value of the first line that      *)
(* gives it one that is not 0, in any section of its program; what stands  *)
(* before the first section counts for nothing.                            *)
(***************************************************************************)
ReadsWhatIsWritten ==
  place = "accepted" /\ Regular /\ CommentsAlone =>
    \A name \in DOMAIN Keys : \A key \in Keys[name] :
      conf[name][key] = FirstMeaning(name, key)

(***************************************************************************)
(* A comment behind a value takes the end of the line with it, and the     *)
(* value goes on: it becomes the front of the next line's key, or of its   *)
(* section's name.  So x = po # and rt = 7 behind it set the port.  What a *)
(* field of an accepted file has is still the whole value of one line,     *)
(* whose key ends the key of the field, in a section whose name ends the   *)
(* name of the program's; no value is cut, or mixed from two lines.        *)
(***************************************************************************)
ValuesStayWhole ==
  place = "accepted" /\ Regular =>
    \A name \in DOMAIN Keys : \A key \in Keys[name] :
      \/ conf[name][key] = Unset(key)
      \/ \E i \in Ending(name, key) : conf[name][key] = Meaning(key, i)

\* The two sections agree, and there are no more sections and pairs than fit.
SectionsAgree ==
  /\ FewEnough
  /\ Supported(FirstBuffers("PRODUCER"))
  /\ FirstBuffers("CONSUMER") = FirstBuffers("PRODUCER")
  /\ FirstMeaning("PRODUCER", "port") # 0
  /\ FirstMeaning("CONSUMER", "port") = FirstMeaning("PRODUCER", "port")
  /\ FirstMeaning("CONSUMER", "DO_SEARCH") \in {0, 1}
  /\ FirstMeaning("CONSUMER", "DO_SEARCH") = 1 => Given("CONSUMER", "PATTERN") # {}

(***************************************************************************)
(* The programs start with exactly the files whose two sections agree: the *)
(* buffers, in range where they are first given, and the ports are the     *)
(* same, a search has a pattern, and there are no more sections and pairs  *)
(* than MAX_CONFIGS.  Nothing is asked of USE_BUFFERS.  The range is that  *)
(* of the code: config.ini says that it ends at 102398, one before.        *)
(***************************************************************************)
AcceptedIffAgreed ==
  place \in {"accepted", "stopped"} /\ Regular /\ CommentsAlone /\ PairsInSections
  => (place = "accepted" <=> SectionsAgree)

(***************************************************************************)
(* config.ini says of USE_BUFFERS that it can be between 1 and BUFFERS; a  *)
(* process that goes on asks the allocator for that many blocks.           *)
(***************************************************************************)
UseBuffersInRange ==
  place = "accepted" => conf.PRODUCER.USE_BUFFERS \in 1 .. conf.PRODUCER.BUFFERS
=============================================================================
