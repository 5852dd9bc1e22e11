------------------------------ MODULE MCConfig ------------------------------
(***************************************************************************)
(* The files for the runs of Config: one with every choice of its values,  *)
(* a good one with the numbers of buffers at the limit, and a good one     *)
(* with two lines, or four equal ones, put in anywhere.                    *)
(***************************************************************************)
EXTENDS Config

\* Two words that a comment may take apart.
Parts ==
  [w \in Known |-> CASE w = "port" -> <<"po", "rt">>
                     [] w = "PRODUCER" -> <<"PROD", "UCER">>
                     [] OTHER -> <<w>>]

Header(name) == <<"[">> \o Parts[name] \o <<"]">>
Pair(key, value) == Parts[key] \o <<"=">> \o value

Producer(b, u, p) ==
  << Header("PRODUCER"), Pair("INPUT_TEXT_FILE", <<"data">>), Pair("BUFFERS", b),
     Pair("USE_BUFFERS", <<u>>), Pair("port", <<p>>) >>
Consumer(b, p, search, pattern) ==
  << Header("CONSUMER"), Pair("DO_SEARCH", <<search>>) >>
    \o pattern \o << Pair("BUFFERS", b), Pair("port", <<p>>) >>

Pattern == << Pair("PATTERN", <<"China">>) >>
Values ==
  {Producer(<<b>>, u, p) \o Consumer(<<c>>, q, search, pattern) :
     b \in {"0", "1", "2", "3"}, c \in {"2", "3"}, u \in {"0", "2", "3"},
     p \in {"0", "7"}, q \in {"0", "7", "8"}, search \in {"0", "1", "2"}, pattern \in {<<>>, Pattern}}

Limits == {<<"1", "0", "2", "3", "9", d>> : d \in {"8", "9"}} \cup {<<"1", "0", "2", "4", "0", "0">>}
Bounds == {Producer(b, "2", "7") \o Consumer(b, "7", "1", Pattern) : b \in Limits}

Odd ==
  {<<>>, <<BLANK, "#", "=", "[">>, <<"#", "BUFFERS", "=", "3">>, <<"BUFFERS", BLANK, "=", "3", "0">>,
   <<"BUFFERS", "=", "0">>, <<"po", "rt", "=", "0">>, <<"PATTERN", "=", "a", BLANK, "b">>,
   <<"OUTPUT_TEXT_FILE", "=", "x">>, Header("PRODUCER"), <<"[", "OTHER", "]">>,
   <<"po", "rt", "=", "7", "#", "end">>, <<"x", "=", "OUTPUT_TEXT_FILE", "#">>, <<"=", "z">>,
   <<"OUTPUT_TEXT_FILE", "=", "y", "#", "[">>, <<"USE_BUFFERS", "=", "#">>,
   <<"BUFFERS", "=", "3", "=", "2">>, <<"word">>, <<"po", BLANK, "rt", "=", "7", "[", "CONSUMER", "]">>,
   <<"x", "=", "po", "#">>, <<"rt", "=", "8">>, <<"x", "=", "PROD", "#">>, <<"[", "UCER", "]">>}
Good == Producer(<<"2">>, "2", "7") \o Consumer(<<"2">>, "7", "1", Pattern)
Variants ==
  {SubSeq(Good, 1, i) \o odd \o SubSeq(Good, i + 1, Len(Good)) :
     i \in 0 .. Len(Good), odd \in [1 .. 2 -> Odd] \cup {[n \in 1 .. 4 |-> l] : l \in Odd}}

Words == STRING \ {NL}
SmallFiles == Values \cup Bounds \cup Variants
=============================================================================
