--------------------------- MODULE SpscCopyProofs ---------------------------
(***************************************************************************)
(* What gets to the output file, for every file length, pool size and      *)
(* number of faults, and that Jane and Thor together implement FileCopy.   *)
(***************************************************************************)
EXTENDS SpscProofs

USE DEF NULL, Torn, NoConn, Done, LokiText

-----------------------------------------------------------------------------
(***************************************************************************)
(* Logs.                                                                   *)
(***************************************************************************)
\* Record leaves the chunk last in the log, and drops it only when the log
\* ends with it already.
LEMMA RecordFacts ==
  ASSUME NEW S, NEW log \in Seq(S), NEW c \in S
  PROVE  /\ Record(log, c) \in Seq(S)
         /\ Record(log, c) # <<>>
         /\ Last(Record(log, c)) = c
         /\ Record(log, c) \in {log, Append(log, c)}
         /\ log = <<>> \/ Last(log) # c => Record(log, c) = Append(log, c)
<1>1. MaxCopies \in Nat /\ MaxCopies >= 1 /\ Len(log) \in Nat
  BY ThorAssumption
<1>2. Append(log, c) \in Seq(S) /\ Append(log, c) # <<>> /\ Last(Append(log, c)) = c
  BY DEF Last
<1>3. ASSUME Len(log) >= MaxCopies,
             \A i \in (Len(log) - MaxCopies + 1) .. Len(log) : log[i] = c
      PROVE  log # <<>> /\ Last(log) = c
  <2>1. Len(log) \in (Len(log) - MaxCopies + 1) .. Len(log) /\ Len(log) >= 1
    BY <1>1, <1>3
  <2> QED
    BY <1>3, <2>1 DEF Last
<1> QED
  BY <1>2, <1>3 DEF Record

\* What it is for one sequence to be a suffix of another.
LEMMA SuffixPointwise ==
  ASSUME NEW S, NEW s \in Seq(S), NEW t \in Seq(S)
  PROVE  IsSuffix(s, t) <=>
           /\ Len(s) <= Len(t)
           /\ \A i \in 1 .. Len(s) : s[i] = t[Len(t) - Len(s) + i]
<1> DEFINE rs == [i \in 1 .. Len(s) |-> s[Len(s) - i + 1]]
           rt == [i \in 1 .. Len(t) |-> t[Len(t) - i + 1]]
<1>1. /\ rs \in Seq(S) /\ Len(rs) = Len(s)
      /\ rt \in Seq(S) /\ Len(rt) = Len(t)
  OBVIOUS
<1>2. IsSuffix(s, t) <=>
        Len(s) <= Len(t) /\ SubSeq(rs, 1, Len(s)) = SubSeq(rt, 1, Len(s))
  BY <1>1 DEF IsSuffix, IsPrefix, Reverse
<1>3. ASSUME Len(s) <= Len(t)
      PROVE  SubSeq(rs, 1, Len(s)) = SubSeq(rt, 1, Len(s))
               <=> \A j \in 1 .. Len(s) : rs[j] = rt[j]
  <2> HIDE DEF rs, rt
  <2>1. /\ SubSeq(rs, 1, Len(s)) = [j \in 1 .. Len(s) |-> rs[j]]
        /\ SubSeq(rt, 1, Len(s)) = [j \in 1 .. Len(s) |-> rt[j]]
    BY <1>1, <1>3
  <2> QED
    BY <2>1
<1>4. ASSUME Len(s) <= Len(t)
      PROVE  (\A j \in 1 .. Len(s) : rs[j] = rt[j])
               <=> \A i \in 1 .. Len(s) : s[i] = t[Len(t) - Len(s) + i]
  <2>1. \A j \in 1 .. Len(s) : rs[j] = s[Len(s) - j + 1] /\ rt[j] = t[Len(t) - j + 1]
    BY <1>4
  <2>2. ASSUME \A j \in 1 .. Len(s) : rs[j] = rt[j], NEW i \in 1 .. Len(s)
        PROVE  s[i] = t[Len(t) - Len(s) + i]
    <3>1. Len(s) - i + 1 \in 1 .. Len(s)
      OBVIOUS
    <3>2. /\ Len(s) - (Len(s) - i + 1) + 1 = i
          /\ Len(t) - (Len(s) - i + 1) + 1 = Len(t) - Len(s) + i
      OBVIOUS
    <3> QED
      BY <2>1, <2>2, <3>1, <3>2
  <2>3. ASSUME \A i \in 1 .. Len(s) : s[i] = t[Len(t) - Len(s) + i], NEW j \in 1 .. Len(s)
        PROVE  rs[j] = rt[j]
    <3>1. Len(s) - j + 1 \in 1 .. Len(s)
      OBVIOUS
    <3>2. Len(t) - Len(s) + (Len(s) - j + 1) = Len(t) - j + 1
      OBVIOUS
    <3> QED
      BY <2>1, <2>3, <3>1, <3>2
  <2> QED
    BY <2>2, <2>3
<1> QED
  BY <1>2, <1>3, <1>4

\* A log and a suffix of it stay that way when both record the same chunk.
LEMMA RecordSuffix ==
  ASSUME NEW S, NEW s \in Seq(S), NEW t \in Seq(S), NEW c \in S, IsSuffix(s, t)
  PROVE  IsSuffix(Record(s, c), Record(t, c))
<1> DEFINE Full(log) == /\ Len(log) >= MaxCopies
                        /\ \A i \in (Len(log) - MaxCopies + 1) .. Len(log) : log[i] = c
<1>1. /\ Len(s) <= Len(t)
      /\ \A i \in 1 .. Len(s) : s[i] = t[Len(t) - Len(s) + i]
  BY SuffixPointwise
<1>2. MaxCopies \in Nat /\ MaxCopies >= 1 /\ Len(s) \in Nat /\ Len(t) \in Nat
  BY ThorAssumption
<1>3. /\ Record(s, c) = IF Full(s) THEN s ELSE Append(s, c)
      /\ Record(t, c) = IF Full(t) THEN t ELSE Append(t, c)
      /\ Append(s, c) \in Seq(S) /\ Append(t, c) \in Seq(S)
  BY DEF Record
<1>4. ASSUME Full(s)
      PROVE  Full(t)
  <2>1. ASSUME NEW i \in (Len(t) - MaxCopies + 1) .. Len(t)
        PROVE  t[i] = c
    <3>1. i - (Len(t) - Len(s)) \in (Len(s) - MaxCopies + 1) .. Len(s)
          /\ i - (Len(t) - Len(s)) \in 1 .. Len(s)
      BY <1>1, <1>2, <1>4
    <3>2. Len(t) - Len(s) + (i - (Len(t) - Len(s))) = i
      BY <1>2
    <3> QED
      BY <1>1, <1>4, <3>1, <3>2
  <2> QED
    BY <1>1, <1>2, <1>4, <2>1
<1>5. CASE Full(s)
  <2> HIDE DEF Full
  <2> QED
    BY <1>3, <1>4, <1>5
<1>6. CASE ~ Full(s) /\ Full(t)
  <2>1. Len(s) < MaxCopies
    <3> SUFFICES ASSUME Len(s) >= MaxCopies
                 PROVE  Full(s)
      BY <1>2, <1>6
    <3>1. ASSUME NEW i \in (Len(s) - MaxCopies + 1) .. Len(s)
          PROVE  s[i] = c
      <4>1. Len(t) - Len(s) + i \in (Len(t) - MaxCopies + 1) .. Len(t) /\ i \in 1 .. Len(s)
        BY <1>1, <1>2
      <4> QED
        BY <1>1, <1>6, <4>1
    <3> QED
      BY <3>1
  <2>2. /\ Len(Append(s, c)) = Len(s) + 1
        /\ \A i \in 1 .. Len(s) : Append(s, c)[i] = s[i]
        /\ Append(s, c)[Len(s) + 1] = c
    OBVIOUS
  <2>3. Len(s) + 1 <= Len(t)
    BY <1>2, <1>6, <2>1
  <2>4. ASSUME NEW i \in 1 .. Len(s) + 1
        PROVE  Append(s, c)[i] = t[Len(t) - (Len(s) + 1) + i]
    <3>1. Len(t) - (Len(s) + 1) + i \in (Len(t) - MaxCopies + 1) .. Len(t)
      BY <1>2, <2>1
    <3>2. t[Len(t) - (Len(s) + 1) + i] = c
      BY <1>6, <3>1
    <3>3. CASE i = Len(s) + 1
      BY <2>2, <3>2, <3>3
    <3>4. CASE i \in 1 .. Len(s)
      <4>1. Len(t) - Len(s) + i \in (Len(t) - MaxCopies + 1) .. Len(t)
        BY <1>2, <2>1, <3>4
      <4> QED
        BY <1>1, <1>6, <2>2, <3>2, <3>4, <4>1
    <3> QED
      BY <1>2, <3>3, <3>4
  <2>5. IsSuffix(Append(s, c), t)
    <3> DEFINE u == Append(s, c)
    <3>1. u \in Seq(S) /\ Len(u) = Len(s) + 1
      BY <1>3, <2>2
    <3>2. \A i \in 1 .. Len(u) : u[i] = t[Len(t) - Len(u) + i]
      BY <2>4, <3>1
    <3> HIDE DEF u
    <3>3. IsSuffix(u, t)
      BY <1>2, <2>3, <3>1, <3>2, SuffixPointwise
    <3> QED
      BY <3>3 DEF u
  <2> HIDE DEF Full
  <2> QED
    BY <1>3, <1>6, <2>5
<1>7. CASE ~ Full(s) /\ ~ Full(t)
  <2> DEFINE u == Append(s, c)
             w == Append(t, c)
  <2>1. /\ u \in Seq(S) /\ Len(u) = Len(s) + 1
        /\ \A i \in 1 .. Len(s) : u[i] = s[i]
        /\ u[Len(s) + 1] = c
        /\ w \in Seq(S) /\ Len(w) = Len(t) + 1
        /\ \A i \in 1 .. Len(t) : w[i] = t[i]
        /\ w[Len(t) + 1] = c
    OBVIOUS
  <2> HIDE DEF u, w
  <2>2. ASSUME NEW i \in 1 .. Len(s) + 1
        PROVE  u[i] = w[Len(w) - Len(u) + i]
    <3>1. Len(w) - Len(u) + i = Len(t) - Len(s) + i
      BY <1>2, <2>1
    <3>2. CASE i = Len(s) + 1
      <4>1. Len(t) - Len(s) + i = Len(t) + 1
        BY <1>2, <3>2
      <4> QED
        BY <2>1, <3>1, <3>2, <4>1
    <3>3. CASE i \in 1 .. Len(s)
      <4>1. Len(t) - Len(s) + i \in 1 .. Len(t)
        BY <1>1, <1>2, <3>3
      <4> QED
        BY <1>1, <2>1, <3>1, <3>3, <4>1
    <3> QED
      BY <1>2, <3>2, <3>3
  <2>3. IsSuffix(u, w)
    <3>1. u \in Seq(S) /\ w \in Seq(S) /\ Len(u) <= Len(w)
      BY <1>1, <1>2, <2>1
    <3>2. \A i \in 1 .. Len(u) : u[i] = w[Len(w) - Len(u) + i]
      BY <2>1, <2>2
    <3> QED
      BY <3>1, <3>2, SuffixPointwise
  <2> HIDE DEF Full
  <2> QED
    BY <1>3, <1>7, <2>3 DEF u, w
<1> HIDE DEF Full
<1> QED
  BY <1>5, <1>6, <1>7

-----------------------------------------------------------------------------
(***************************************************************************)
(* Which steps matter to the output, and what is known when they happen.   *)
(***************************************************************************)
LEMMA OutputStep ==
  [Next]_vars => \/ UNCHANGED output
                 \/ Fflush /\ UNCHANGED <<janeVars, window>>
                 \/ FlushFails /\ UNCHANGED <<janeVars, window>>
                 \/ ThorCrash /\ UNCHANGED <<janeVars, window>>
BY DEF Next, JaneMoves, ThorMoves, ThorStep, ThorStart, Listen, ListenFails,
       OutOfConnections, AcceptFails, Accept, Receive, ReceiveDone, ReceiveFails, Check,
       Fwrite, Search, Reply, ReplyFails, ParseGarbled, Corrupt, Terminated, vars,
       thorVars

\* A fault that strikes is counted.
LEMMA FaultsCounted ==
  ASSUME IInv
  PROVE  /\ JaneCrash => faults'["jane"] # 0
         /\ Corrupt => faults'["corrupt"] # 0
         /\ FlushFails => faults'["disk"] # 0
         /\ ThorCrash => faults'["thor"] # 0
         /\ ParseGarbled => faults'["garble"] # 0
<1>1. faults \in [FaultKinds -> Nat]
  BY DEF IInv, TypeOK, RealmTypeOK
<1>2. \A k \in FaultKinds : Strike(k) => faults'[k] # 0
  BY <1>1 DEF Strike
<1> QED
  BY <1>2 DEF JaneCrash, Corrupt, FlushFails, ThorCrash, ParseGarbled, FaultKinds

\* What Latest is, and what it is after a write.
LEMMA LatestFacts ==
  ASSUME IInv
  PROVE  /\ Latest \in Pieces
         /\ Latest.chunk \in Int
         /\ \A c : Latest = Whole(c) <=> Latest.chunk = c /\ Latest.whole
         /\ \A p \in Pieces : output' \in {Record(output, p), Append(output, p)} =>
              /\ output' # <<>>
              /\ Latest' = p
              /\ output' \in {output, Append(output, p)}
              /\ Latest # p \/ output = <<>> => output' = Append(output, p)
<1>1. output \in Seq(Pieces)
  BY DEF IInv, TypeOK, ThorTypeOK
<1>2. Latest \in Pieces
  <2>1. Whole(0) \in Pieces
    BY ConstantFacts, PieceFacts
  <2>2. output # <<>> => output[Len(output)] \in Pieces
    BY <1>1
  <2> QED
    BY <2>1, <2>2 DEF Latest, Last
<1>3. Latest.chunk \in Int
  BY <1>2, ConstantFacts DEF Pieces
<1>4. ASSUME NEW c
      PROVE  Latest = Whole(c) <=> Latest.chunk = c /\ Latest.whole
  BY <1>2 DEF Pieces, Whole
<1>5. ASSUME NEW p \in Pieces, output' \in {Record(output, p), Append(output, p)}
      PROVE  /\ output' # <<>>
             /\ Latest' = p
             /\ output' \in {output, Append(output, p)}
             /\ Latest # p \/ output = <<>> => output' = Append(output, p)
  <2>1. Append(output, p) # <<>> /\ Last(Append(output, p)) = p
    BY <1>1 DEF Last
  <2>2. /\ Record(output, p) # <<>>
        /\ Last(Record(output, p)) = p
        /\ Record(output, p) \in {output, Append(output, p)}
        /\ output = <<>> \/ Last(output) # p => Record(output, p) = Append(output, p)
    BY <1>1, RecordFacts
  <2>3. output' # <<>> /\ Last(output') = p
    BY <1>5, <2>1, <2>2, Zenon
  <2>4. Latest' = p
    BY <2>3, Zenon DEF Latest, Last
  <2>5. output' \in {output, Append(output, p)}
    BY <1>5, <2>2
  <2>6. ASSUME Latest # p \/ output = <<>>
        PROVE  output' = Append(output, p)
    <3>1. output = <<>> \/ Last(output) # p
      BY <2>6 DEF Latest
    <3> QED
      BY <1>5, <2>2, <3>1
  <2> QED
    BY <2>3, <2>4, <2>5, <2>6
<1> QED
  BY <1>2, <1>3, <1>4, <1>5

\* As long as Jane is not killed, Thor serves the request she waits for.
LEMMA ServingFacts ==
  ASSUME IInv, NoFault({"jane"}), tpc \in Serving
  PROVE  /\ jpc = "rcv"
         /\ tsock = jsock
         /\ jsock \in Conns
         /\ toThor[jsock] = <<>>
         /\ toJane[jsock] = <<>>
         /\ shm_buffer \in Blocks
         /\ tpc # "reply" =>
              /\ data = shm_buffer
              /\ parse_data(req).md5 = md5
<1>1. /\ tsock = jsock
      /\ tpc # "reply" => req = Request(get_offset(shm_buffer), md5)
  BY DEF IInv, RequestInv, Serving
<1>2. jpc = "rcv"
  BY <1>1, JaneWaits DEF NoConcurrentUse
<1>3. shm_buffer \in Blocks /\ md5 \in Content /\ jsock \in Conns
  BY <1>2 DEF IInv, TypeOK, JaneTypeOK, JaneInv, Holding, Connected
<1>4. toThor[jsock] = <<>> /\ toJane[jsock] = <<>>
  BY <1>1, <1>2 DEF IInv, WireInv, Busy
<1>5. tpc # "reply" => data = shm_buffer /\ parse_data(req).md5 = md5
  BY <1>1, <1>3, RequestFields DEF data
<1> QED
  BY <1>1, <1>2, <1>3, <1>4, <1>5

\* Without Loki the area he reads holds the chunk Jane read last.
LEMMA ServedChunk ==
  ASSUME IInv, NoFault({"jane", "corrupt"}),
         tpc \in {"check", "flush", "fflush", "search"}
  PROVE  /\ does_string_intact(data, parse_data(req).md5)
         /\ shm[data] = nread
         /\ nread \in Content
<1>1. NoFault({"jane"}) /\ NoFault({"corrupt"}) /\ tpc \in Serving
  BY DEF NoFault, Serving
<1>2. jpc = "rcv" /\ data = shm_buffer /\ parse_data(req).md5 = md5
  BY <1>1, ServingFacts
<1>3. shm[shm_buffer] = md5 /\ md5 = nread
  BY <1>1, <1>2 DEF IInv, AreaInv
<1>4. md5 \in Content
  BY DEF IInv, TypeOK, JaneTypeOK
<1> QED
  BY <1>2, <1>3, <1>4 DEF does_string_intact, readable_hash

\* Thor receives a request only over Jane's present connection, while she waits.
LEMMA ReceiveFacts ==
  ASSUME IInv, NoFault({"jane"}), Receive
  PROVE  /\ jpc = "rcv"
         /\ tsock = jsock
<1>1. tpc = "rcv" /\ toThor[tsock] # <<>> /\ Head(toThor[tsock]) # Done
  BY DEF Receive
<1>2. /\ RealmTypeOK /\ JaneTypeOK /\ JaneInv /\ ThorInv /\ WireInv
      /\ \A c \in Conns : c # jsock => toThor[c] = <<>>
  BY DEF IInv, TypeOK, RequestInv
<1>3. tsock \in thorOpen /\ tsock \in Conns
  BY <1>1, <1>2 DEF ThorInv, RealmTypeOK
<1>4. tsock = jsock
  BY <1>1, <1>2, <1>3
<1>5. jpc \notin Quiet
  BY <1>1, <1>2, <1>4 DEF WireInv
<1>6. jpc # "closed"
  <2>1. toThor[jsock] \in Seq(Text)
    BY <1>2, <1>3, <1>4 DEF RealmTypeOK
  <2>2. 1 \in DOMAIN toThor[jsock] /\ Head(toThor[jsock]) = toThor[jsock][1]
    BY <1>1, <1>4, <2>1
  <2> QED
    BY <1>1, <1>2, <1>4, <2>2 DEF WireInv
<1>7. jpc \notin {"down", "connect", "starved"}
  BY <1>2, <1>3, <1>4, ConstantFacts DEF JaneInv
<1> QED
  BY <1>2, <1>4, <1>5, <1>6, <1>7 DEF JaneTypeOK, JanePlaces, Quiet

\* And what he writes, or a part of it when he is killed, is that chunk.
LEMMA WrittenChunk ==
  ASSUME IInv, PartInv, NoFault({"jane", "corrupt"}), tpc = "fflush"
  PROVE  /\ part = nread
         /\ nread \in Content
         /\ Fflush => output' = Record(output, Whole(nread))
         /\ ThorCrash => output' = Append(output, PartOf(nread))
<1>1. NoFault({"jane"}) /\ NoFault({"corrupt"})
  BY DEF NoFault
<1>2. part = shm[data]
  BY <1>1 DEF PartInv
<1>3. shm[data] = nread /\ nread \in Content
  BY ServedChunk
<1> QED
  BY <1>2, <1>3 DEF Fflush, ThorCrash

\* A piece that follows the end of the log in order keeps the log in order.
LEMMA InOrderRecord ==
  ASSUME IInv, InOrder(output), NEW p \in Pieces, Follows(Latest, p),
         output' \in {output, Append(output, p)}
  PROVE  InOrder(output)'
<1>1. output \in Seq(Pieces)
  BY DEF IInv, TypeOK, ThorTypeOK
<1>2. CASE output' = output
  BY <1>2 DEF InOrder
<1>3. CASE output' = Append(output, p)
  <2>1. /\ Len(output') = Len(output) + 1
        /\ DOMAIN output' = 1 .. Len(output) + 1
        /\ \A i \in 1 .. Len(output) : output'[i] = output[i]
        /\ output'[Len(output) + 1] = p
    BY <1>1, <1>3
  <2>2. ASSUME NEW i \in 1 .. Len(output) + 1
        PROVE  Follows(IF i = 1 THEN Whole(0) ELSE output'[i - 1], output'[i])
    <3>1. CASE i = Len(output) + 1
      <4>1. CASE output = <<>>
        <5>1. i = 1 /\ Latest = Whole(0)
          BY <3>1, <4>1 DEF Latest
        <5> QED
          BY <2>1, <3>1, <5>1
      <4>2. CASE output # <<>>
        <5>1. i # 1 /\ i - 1 = Len(output) /\ i - 1 \in 1 .. Len(output)
          BY <1>1, <3>1, <4>2
        <5>2. Latest = output[i - 1]
          BY <4>2, <5>1 DEF Latest, Last
        <5> QED
          BY <2>1, <3>1, <5>1, <5>2
      <4> QED
        BY <4>1, <4>2
    <3>2. CASE i \in 1 .. Len(output)
      <4>1. i # 1 => i - 1 \in 1 .. Len(output)
        BY <3>2
      <4>2. Follows(IF i = 1 THEN Whole(0) ELSE output[i - 1], output[i])
        <5>1. DOMAIN output = 1 .. Len(output)
          BY <1>1
        <5> QED
          BY <3>2, <5>1, Zenon DEF InOrder
      <4> QED
        BY <2>1, <3>2, <4>1, <4>2
    <3> QED
      BY <1>1, <3>1, <3>2
  <2> QED
    BY <2>1, <2>2 DEF InOrder
<1> QED
  BY <1>2, <1>3

-----------------------------------------------------------------------------
(***************************************************************************)
(* Each part of the invariant is preserved, by Jane's steps and by Thor's. *)
(***************************************************************************)
LEMMA PlaceInvStep ==
  ASSUME IInv, PlaceInv, [Next]_vars
  PROVE  PlaceInv'
<1>t. nread \in 0 .. NChunks /\ NChunks \in Nat /\ JaneInv
  BY ConstantFacts DEF IInv, TypeOK, JaneTypeOK
<1> USE DEF PlaceInv, Underway
<1>1. CASE JaneStart \/ JaneCrash
  BY <1>1 DEF JaneStart, JaneCrash
<1>2. CASE Connect \/ TakeBuffer \/ OutOfSockets
  BY <1>2 DEF Connect, TakeBuffer, OutOfSockets
<1>3. CASE ReadNothing \/ ReadBegin \/ Hash \/ Send
  BY <1>3 DEF ReadNothing, ReadBegin, Hash, Send
<1>4. CASE ReadEnd
  BY <1>t, <1>4 DEF ReadEnd, JaneInv
<1>5. CASE SendFails \/ RcvFails \/ Finish
  BY <1>5 DEF SendFails, RcvFails, Finish
<1>6. CASE Rcv
  <2>1. /\ jpc = "rcv" /\ jpc' = "top" /\ nread' = nread
        /\ failed' \in {FALSE, failed}
    BY <1>6 DEF Rcv
  <2> QED
    BY <2>1
<1>7. CASE UNCHANGED janeVars
  BY <1>7 DEF janeVars
<1> QED
  BY <1>1, <1>2, <1>3, <1>4, <1>5, <1>6, <1>7
     DEF Next, JaneMoves, JaneStep, ConnectRefused, SocketFails, ThorMoves, Corrupt,
         Terminated, vars

LEMMA OrderInvStep ==
  ASSUME IInv, PlaceInv, PartInv, OrderInv, [Next]_vars
  PROVE  OrderInv'
<1> SUFFICES ASSUME NoFault({"jane", "disk", "corrupt"})'
             PROVE  (/\ InOrder(output)
                     /\ NoFault({"thor"}) => \A i \in DOMAIN output : output[i].whole
                     /\ Latest.chunk = nread \/ Latest = Whole(nread - 1)
                     /\ jpc = "hash" => Latest = Whole(nread - 1)
                     /\ jpc \notin Underway /\ ~ failed => Latest = Whole(nread)
                     /\ jpc = "rcv" /\ toJane[jsock] # <<>> => Latest = Whole(nread)
                     /\ tpc \in {"search", "reply"} => Latest = Whole(nread))'
  BY DEF OrderInv
<1>f. /\ NoFault({"jane", "disk", "corrupt"}) /\ NoFault({"jane", "corrupt"})
      /\ NoFault({"jane"})
      /\ ~ JaneCrash /\ ~ FlushFails /\ ~ Corrupt
  BY FaultsGrow, FaultsCounted DEF NoFault, FaultKinds
<1>o. /\ InOrder(output)
      /\ NoFault({"thor"}) => \A i \in DOMAIN output : output[i].whole
      /\ Latest.chunk = nread \/ Latest = Whole(nread - 1)
      /\ jpc = "hash" => Latest = Whole(nread - 1)
      /\ jpc \notin Underway /\ ~ failed => Latest = Whole(nread)
      /\ jpc = "rcv" /\ toJane[jsock] # <<>> => Latest = Whole(nread)
      /\ tpc \in {"search", "reply"} => Latest = Whole(nread)
  BY <1>f DEF OrderInv
<1>t. /\ nread \in 0 .. NChunks /\ NChunks \in Nat
      /\ JaneTypeOK /\ JaneInv /\ WireInv /\ Latest.chunk \in Int
  BY ConstantFacts, LatestFacts DEF IInv, TypeOK, JaneTypeOK
<1>s. tpc \in {"search", "reply"} => jpc = "rcv"
  BY <1>f, ServingFacts DEF Serving
<1>u. UNCHANGED output =>
        /\ Latest' = Latest
        /\ InOrder(output)'
        /\ NoFault({"thor"})' => (\A i \in DOMAIN output : output[i].whole)'
  <2>1. NoFault({"thor"})' => NoFault({"thor"})
    BY FaultsGrow DEF NoFault, FaultKinds
  <2> QED
    BY <1>o, <2>1 DEF Latest, InOrder
<1>w. \A n : Latest = Whole(n) => Latest.chunk = n /\ Latest.whole
  BY LatestFacts
<1>1. CASE JaneStart /\ UNCHANGED <<thorVars, window>>
  <2>1. /\ jpc = "down" /\ jpc' = "connect" /\ nread' = 0 /\ ~ failed'
        /\ UNCHANGED <<output, tpc>>
    BY <1>1 DEF JaneStart, thorVars
  <2>2. nread = 0 /\ ~ failed
    BY <1>t, <2>1 DEF PlaceInv, JaneInv
  <2> QED
    BY <1>o, <1>u, <1>w, <2>1, <2>2 DEF Underway
<1>2. CASE (Connect \/ TakeBuffer \/ OutOfSockets) /\ UNCHANGED <<thorVars, window>>
  <2>1. /\ jpc \in {"connect", "top"} /\ jpc' \notin {"hash", "rcv"}
        /\ jpc' = "send" => failed
        /\ UNCHANGED <<output, tpc, nread, failed>>
    BY <1>2 DEF Connect, TakeBuffer, OutOfSockets, thorVars
  <2> QED
    BY <1>o, <1>u, <1>w, <2>1 DEF Underway
<1>3. CASE (ReadNothing \/ ReadBegin) /\ UNCHANGED <<thorVars, window>>
  <2>1. /\ jpc = "fread" /\ jpc' \in {"done", "fill"}
        /\ UNCHANGED <<output, tpc, nread, failed>>
    BY <1>3 DEF ReadNothing, ReadBegin, thorVars
  <2> QED
    BY <1>o, <1>u, <1>w, <2>1 DEF Underway
<1>4. CASE ReadEnd /\ UNCHANGED <<thorVars, window>>
  <2>1. /\ jpc = "fill" /\ jpc' = "hash" /\ nread' = nread + 1
        /\ UNCHANGED <<output, tpc, failed>>
    BY <1>4 DEF ReadEnd, thorVars
  <2>2. ~ failed /\ tpc \notin {"search", "reply"}
    BY <1>s, <1>t, <2>1 DEF JaneInv
  <2>3. Latest = Whole(nread)
    BY <1>o, <2>1, <2>2 DEF Underway
  <2> QED
    BY <1>t, <1>u, <2>1, <2>2, <2>3 DEF Underway
<1>5. CASE (Hash \/ SendFails) /\ UNCHANGED <<thorVars, window>>
  <2>1. /\ jpc \in {"hash", "send"} /\ jpc' \in {"send", "connect"}
        /\ jpc' = "connect" => failed'
        /\ UNCHANGED <<output, tpc, nread>>
    BY <1>5 DEF Hash, SendFails, thorVars
  <2> QED
    BY <1>o, <1>u, <1>w, <2>1 DEF Underway
<1>6. CASE Send /\ UNCHANGED <<thorVars, window>>
  <2>1. /\ jpc = "send" /\ jpc' = "rcv"
        /\ UNCHANGED <<output, tpc, nread, toJane, jsock>>
    BY <1>6 DEF Send, thorVars
  <2>2. toJane[jsock] = <<>>
    BY <1>t, <2>1 DEF WireInv, Quiet
  <2> QED
    BY <1>o, <1>u, <1>w, <2>1, <2>2 DEF Underway
<1>7. CASE Rcv /\ UNCHANGED <<thorVars, window>>
  <2>1. /\ jpc = "rcv" /\ jpc' = "top" /\ toJane[jsock] # <<>>
        /\ UNCHANGED <<output, tpc, nread>>
    BY <1>7 DEF Rcv, thorVars
  <2> QED
    BY <1>o, <1>u, <1>w, <2>1 DEF Underway
<1>8. CASE RcvFails /\ UNCHANGED <<thorVars, window>>
  <2>1. /\ jpc = "rcv" /\ jpc' = "connect" /\ failed'
        /\ UNCHANGED <<output, tpc, nread>>
    BY <1>8 DEF RcvFails, thorVars
  <2> QED
    BY <1>o, <1>u, <1>w, <2>1 DEF Underway
<1>9. CASE Finish /\ UNCHANGED <<thorVars, window>>
  <2>1. /\ jpc = "done" /\ jpc' = "closed"
        /\ UNCHANGED <<output, tpc, nread, failed>>
    BY <1>9 DEF Finish, thorVars
  <2> QED
    BY <1>o, <1>u, <1>w, <2>1 DEF Underway
<1>10. CASE Fflush /\ UNCHANGED <<janeVars, window>>
  <2>1. tpc = "fflush" /\ UNCHANGED <<jpc, nread, failed, jsock>>
    BY <1>10 DEF Fflush, janeVars
  <2>2. output' = Record(output, Whole(nread)) /\ nread \in Content
    BY <1>f, <1>10, <2>1, WrittenChunk
  <2>3. /\ Whole(nread) \in Pieces /\ Whole(nread).chunk = nread /\ Whole(nread).whole
        /\ Latest' = Whole(nread)
        /\ output' \in {output, Append(output, Whole(nread))}
    BY <2>2, PieceFacts, FieldsOfPieces, LatestFacts
  <2>4. jpc = "rcv"
    BY <1>f, <2>1, ServingFacts DEF Serving
  <2>5. Follows(Latest, Whole(nread))
    BY <1>o, <1>t, <1>w, <2>3 DEF Follows
  <2>6. InOrder(output)'
    BY <1>o, <2>3, <2>5, InOrderRecord
  <2>7. NoFault({"thor"})' => (\A i \in DOMAIN output : output[i].whole)'
    <3>1. NoFault({"thor"})' => \A i \in DOMAIN output : output[i].whole
      BY <1>o, FaultsGrow DEF NoFault, FaultKinds
    <3>2. output \in Seq(Pieces)
      BY DEF IInv, TypeOK, ThorTypeOK
    <3> QED
      BY <2>3, <3>1, <3>2
  <2> QED
    BY <2>1, <2>3, <2>4, <2>6, <2>7 DEF Underway
<1>16. CASE ThorCrash /\ tpc = "fflush" /\ UNCHANGED <<janeVars, window>>
  <2>1. tpc' = "down" /\ UNCHANGED <<jpc, nread, failed, jsock, toJane>>
    BY <1>16 DEF ThorCrash, ThorEnds, janeVars
  <2>2. output' = Append(output, PartOf(nread)) /\ nread \in Content
    BY <1>f, <1>16, WrittenChunk
  <2>3. /\ PartOf(nread) \in Pieces /\ PartOf(nread).chunk = nread
        /\ Latest' = PartOf(nread)
    BY <2>2, PieceFacts, FieldsOfPieces, LatestFacts
  <2>4. jpc = "rcv" /\ toJane[jsock] = <<>>
    BY <1>f, <1>16, ServingFacts DEF Serving
  <2>5. Follows(Latest, PartOf(nread))
    BY <1>o, <1>t, <1>w, <2>3 DEF Follows
  <2>6. InOrder(output)'
    BY <1>o, <2>2, <2>3, <2>5, InOrderRecord
  <2>7. ~ NoFault({"thor"})'
    BY <1>16, FaultsCounted DEF NoFault
  <2> QED
    BY <2>1, <2>3, <2>4, <2>6, <2>7 DEF Underway
<1>11. CASE Check /\ UNCHANGED <<janeVars, window>>
  <2>1. tpc = "check" /\ does_string_intact(data, parse_data(req).md5)
    BY <1>f, <1>11, ServedChunk DEF Check
  <2>2. tpc' = "flush"
    BY <1>11, <2>1 DEF Check
  <2>3. UNCHANGED <<output, jpc, nread, failed, jsock, toJane>>
    BY <1>11 DEF Check, janeVars, realmVars, netVars
  <2> QED
    BY <1>o, <1>u, <2>2, <2>3
<1>12. CASE Reply /\ UNCHANGED <<janeVars, window>>
  <2>1. /\ tpc = "reply" /\ tpc' \notin {"search", "reply"}
        /\ UNCHANGED <<output, jpc, nread, failed, jsock>>
    BY <1>12 DEF Reply, janeVars
  <2> QED
    BY <1>o, <1>u, <1>w, <2>1
<1>13. CASE /\ UNCHANGED <<output, jpc, nread, failed, jsock, toJane>>
            /\ tpc' \in {"search", "reply"} => tpc \in {"search", "reply"}
  BY <1>o, <1>u, <1>13
<1>14. /\ ThorStart \/ Listen \/ ListenFails \/ OutOfConnections \/ AcceptFails
          \/ Accept \/ Receive \/ ReceiveDone \/ ReceiveFails \/ Fwrite \/ Search
          \/ ReplyFails \/ (ThorCrash /\ tpc # "fflush") \/ ParseGarbled
       /\ UNCHANGED <<janeVars, window>>
       => /\ UNCHANGED <<output, jpc, nread, failed, jsock, toJane>>
          /\ tpc' \in {"search", "reply"} => tpc \in {"search", "reply"}
  BY DEF ThorStart, Listen, ListenFails, OutOfConnections, AcceptFails, Accept, Receive,
         ReceiveDone, ReceiveFails, Fwrite, Search, ReplyFails, ThorCrash, ParseGarbled, ThorEnds,
         janeVars, thorVars, realmVars, netVars
<1>15. UNCHANGED vars \/ (UNCHANGED <<janeVars, realmVars>> /\ UNCHANGED <<thorVars, window>>)
       => /\ UNCHANGED <<output, jpc, nread, failed, jsock, toJane>>
          /\ tpc' \in {"search", "reply"} => tpc \in {"search", "reply"}
  BY DEF vars, janeVars, thorVars, realmVars, netVars
<1> QED
  BY <1>f, <1>1, <1>2, <1>3, <1>4, <1>5, <1>6, <1>7, <1>8, <1>9, <1>10, <1>11, <1>12,
     <1>13, <1>14, <1>15, <1>16
     DEF Next, JaneMoves, JaneStep, ConnectRefused, SocketFails, ThorMoves, ThorStep,
         Terminated

LEMMA OneConnInvStep ==
  ASSUME IInv, OneConnInv, [Next]_vars
  PROVE  OneConnInv'
<1> SUFFICES ASSUME NoFault({"jane", "thor", "garble"})'
             PROVE  (/\ ~ failed
                     /\ jpc \in {"down", "connect", "starved"} => nconn = 0
                     /\ jpc \in Connected => jsock \in thorOpen
                     /\ nconn = 0 => backlog = <<>> /\ tsock = NoConn
                     /\ Len(backlog) <= 1
                     /\ tsock # NoConn => backlog = <<>>
                     /\ faults["disk"] > 0 =>
                          /\ tsock # NoConn
                          /\ \/ tpc \in {"accept", "deaf"}
                             \/ tpc \in {"search", "reply"} /\ thor_errno)'
  BY DEF OneConnInv
<1>f. /\ NoFault({"jane", "thor", "garble"})
      /\ ~ JaneCrash /\ ~ ThorCrash /\ ~ ParseGarbled
  BY FaultsGrow, FaultsCounted DEF NoFault, FaultKinds
<1>o. /\ ~ failed
      /\ jpc \in {"down", "connect", "starved"} => nconn = 0
      /\ jpc \in Connected => jsock \in thorOpen
      /\ nconn = 0 => backlog = <<>> /\ tsock = NoConn
      /\ Len(backlog) <= 1
      /\ tsock # NoConn => backlog = <<>>
      /\ faults["disk"] > 0 =>
           /\ tsock # NoConn
           /\ \/ tpc \in {"accept", "deaf"}
              \/ tpc \in {"search", "reply"} /\ thor_errno
  BY <1>f DEF OneConnInv
<1>t. /\ ThorInv
      /\ nconn \in Nat /\ backlog \in Seq(Conns)
      /\ thorOpen \subseteq Conns /\ NoConn \notin Conns
      /\ faults \in [FaultKinds -> Nat]
  BY ConstantFacts DEF IInv, TypeOK, RealmTypeOK
<1>c. /\ Connected = {"top", "fread", "fill", "hash", "send", "rcv", "done", "closed"}
      /\ Serving = {"check", "flush", "fflush", "search", "reply"}
  BY DEF Connected, Holding, Serving
<1>1. CASE Connect /\ UNCHANGED <<thorVars, window>>
  <2>1. /\ jpc = "connect" /\ jpc' = "top" /\ nconn' = nconn + 1
        /\ jsock' \in thorOpen' /\ backlog' = Append(backlog, nconn + 1)
        /\ UNCHANGED <<failed, faults, tpc, tsock, thor_errno>>
    BY <1>1 DEF Connect, thorVars
  <2>2. nconn = 0 /\ backlog = <<>> /\ tsock = NoConn
    BY <1>o, <2>1
  <2>3. Len(backlog') = 1 /\ nconn' = 1
    BY <2>1, <2>2
  <2> QED
    BY <1>c, <1>o, <2>1, <2>2, <2>3
<1>2. CASE /\ JaneStart \/ OutOfSockets \/ TakeBuffer \/ ReadNothing \/ ReadBegin
              \/ ReadEnd \/ Hash \/ Send \/ Rcv \/ Finish
           /\ UNCHANGED <<thorVars, window>>
  <2>1. /\ UNCHANGED <<nconn, backlog, thorOpen, tpc, tsock, thor_errno>>
        /\ ~ failed'
        /\ faults'["disk"] = faults["disk"]
    <3>1. UNCHANGED <<nconn, backlog, thorOpen, tpc, tsock, thor_errno>>
      BY <1>2 DEF JaneStart, OutOfSockets, TakeBuffer, ReadNothing, ReadBegin, ReadEnd,
           Hash, Send, Rcv, Finish, thorVars, realmVars, netVars
    <3>2. ~ failed'
      BY <1>o, <1>2 DEF JaneStart, OutOfSockets, TakeBuffer, ReadNothing, ReadBegin,
           ReadEnd, Hash, Send, Rcv, Finish
    <3>3. faults'["disk"] = faults["disk"]
      BY <1>t, <1>2 DEF JaneStart, OutOfSockets, TakeBuffer, ReadNothing, ReadBegin,
           ReadEnd, Hash, Send, Rcv, Finish, Strike, FaultKinds, realmVars
    <3> QED
      BY <3>1, <3>2, <3>3
  <2>2. \/ /\ jpc \in {"down", "connect", "starved"} /\ jpc' \in {"connect", "starved"}
        \/ /\ jpc \in Connected /\ jpc' \in Connected /\ jsock' = jsock
    BY <1>c, <1>2 DEF JaneStart, OutOfSockets, TakeBuffer, ReadNothing, ReadBegin,
       ReadEnd, Hash, Send, Rcv, Finish
  <2> QED
    BY <1>c, <1>o, <2>1, <2>2
<1>3. ~ (SendFails \/ RcvFails)
  BY <1>c, <1>o DEF SendFails, RcvFails
<1>4. CASE Accept /\ UNCHANGED <<janeVars, window>>
  <2>1. /\ tpc = "accept" /\ backlog # <<>> /\ backlog' = Tail(backlog)
        /\ UNCHANGED <<failed, jpc, jsock, nconn, thorOpen, faults>>
    BY <1>4 DEF Accept, janeVars
  <2>2. tsock = NoConn /\ nconn # 0 /\ faults["disk"] = 0
    BY <1>o, <1>t, <2>1 DEF FaultKinds
  <2>3. backlog' = <<>>
    BY <1>o, <1>t, <2>1
  <2> QED
    BY <1>o, <2>1, <2>2, <2>3
<1>5. CASE (ThorStart \/ Listen) /\ UNCHANGED <<janeVars, window>>
  <2>1. /\ tpc \in {"down", "listen"}
        /\ UNCHANGED <<failed, jpc, jsock, nconn, thorOpen, faults, backlog, tsock>>
    BY <1>5 DEF ThorStart, Listen, janeVars, realmVars, netVars
  <2>2. ~ faults["disk"] > 0
    BY <1>o, <2>1
  <2> QED
    BY <1>o, <2>1, <2>2
<1>6. CASE (ListenFails \/ OutOfConnections) /\ UNCHANGED <<janeVars, window>>
  <2>1. /\ tpc \in {"listen", "accept"} /\ tpc' = "deaf"
        /\ faults'["disk"] = faults["disk"]
        /\ UNCHANGED <<failed, jpc, jsock, nconn, thorOpen, backlog, tsock>>
    BY <1>6, <1>t DEF ListenFails, OutOfConnections, Strike, FaultKinds, janeVars, netVars
  <2> QED
    BY <1>o, <2>1
<1>7. CASE /\ Receive \/ ReceiveDone \/ ReceiveFails \/ Check \/ Fwrite \/ Fflush
           /\ UNCHANGED <<janeVars, window>>
  <2>1. /\ tpc \in {"rcv", "check", "flush", "fflush"}
        /\ UNCHANGED <<failed, jpc, jsock, nconn, thorOpen, faults, backlog, tsock>>
    BY <1>7 DEF Receive, ReceiveDone, ReceiveFails, Check, Fwrite, Fflush, janeVars, realmVars,
       netVars
  <2>2. ~ faults["disk"] > 0
    BY <1>o, <2>1
  <2> QED
    BY <1>o, <2>1, <2>2
<1>8. CASE FlushFails /\ UNCHANGED <<janeVars, window>>
  <2>1. /\ tpc \in {"flush", "fflush"} /\ tpc' \in {"search", "reply"} /\ thor_errno'
        /\ UNCHANGED <<failed, jpc, jsock, nconn, thorOpen, backlog, tsock>>
    BY <1>8 DEF FlushFails, janeVars, netVars
  <2>2. tsock # NoConn
    BY <1>c, <1>t, <2>1 DEF ThorInv
  <2> QED
    BY <1>o, <2>1, <2>2
<1>9. CASE (Search \/ Reply \/ ReplyFails) /\ UNCHANGED <<janeVars, window>>
  <2>1. /\ tpc \in {"search", "reply"}
        /\ tpc' \in {"reply", "accept"} \/ (tpc' = "rcv" /\ ~ thor_errno)
        /\ UNCHANGED <<failed, jpc, jsock, nconn, thorOpen, faults, backlog, tsock,
                       thor_errno>>
    BY <1>9 DEF Search, Reply, ReplyFails, janeVars, realmVars, netVars
  <2> QED
    BY <1>o, <2>1
<1>10. CASE /\ UNCHANGED <<failed, jpc, jsock, nconn, thorOpen, backlog, tsock, tpc,
                            thor_errno>>
            /\ faults'["disk"] = faults["disk"]
  BY <1>o, <1>10
<1>11. Corrupt => /\ UNCHANGED <<failed, jpc, jsock, nconn, thorOpen, backlog, tsock, tpc,
                                  thor_errno>>
                  /\ faults'["disk"] = faults["disk"]
  BY <1>t DEF Corrupt, Strike, FaultKinds, janeVars, thorVars, netVars
<1>12. UNCHANGED <<janeVars, thorVars, realmVars>> =>
         /\ UNCHANGED <<failed, jpc, jsock, nconn, thorOpen, backlog, tsock, tpc,
                        thor_errno>>
         /\ faults'["disk"] = faults["disk"]
  BY DEF janeVars, thorVars, realmVars, netVars
<1> QED
  BY <1>f, <1>1, <1>2, <1>3, <1>4, <1>5, <1>6, <1>7, <1>8, <1>9, <1>10, <1>11, <1>12
     DEF Next, JaneMoves, JaneStep, ConnectRefused, SocketFails, ThorMoves, ThorStep,
         AcceptFails, Terminated, vars

LEMMA OnceInvStep ==
  ASSUME IInv, OrderInv, OneConnInv, OnceInv, [Next]_vars
  PROVE  OnceInv'
<1> SUFFICES ASSUME NoFault({"jane", "thor", "garble", "disk", "corrupt"})'
             PROVE  (/\ jpc = "send" => Latest = Whole(nread - 1)
                     /\ jpc = "rcv" /\ toThor[jsock] # <<>> => Latest = Whole(nread - 1)
                     /\ tpc \in {"check", "flush", "fflush"} => Latest = Whole(nread - 1))'
  BY DEF OnceInv
<1>f. /\ NoFault({"jane", "thor", "garble", "disk", "corrupt"})
      /\ NoFault({"jane", "thor", "garble"}) /\ NoFault({"jane", "disk", "corrupt"})
      /\ NoFault({"jane"})
      /\ ~ JaneCrash /\ ~ ThorCrash /\ ~ ParseGarbled /\ ~ FlushFails /\ ~ Corrupt
  BY FaultsGrow, FaultsCounted DEF NoFault, FaultKinds
<1>o. /\ jpc = "send" => Latest = Whole(nread - 1)
      /\ jpc = "rcv" /\ toThor[jsock] # <<>> => Latest = Whole(nread - 1)
      /\ tpc \in {"check", "flush", "fflush"} => Latest = Whole(nread - 1)
      /\ jpc = "hash" => Latest = Whole(nread - 1)
      /\ ~ failed
  BY <1>f DEF OnceInv, OrderInv, OneConnInv
<1>s. tpc \in {"check", "flush", "fflush"} => jpc = "rcv" /\ tsock = jsock /\ toThor[jsock] = <<>>
  BY <1>f, ServingFacts DEF Serving
<1>u. UNCHANGED output => Latest' = Latest
  BY DEF Latest
<1>t. toThor \in [Conns -> Seq(Text)]
  BY DEF IInv, TypeOK, RealmTypeOK
<1>1. CASE /\ JaneStart \/ Connect \/ OutOfSockets \/ ReadNothing \/ ReadBegin \/ ReadEnd
              \/ SendFails \/ Rcv \/ RcvFails \/ Finish
           /\ UNCHANGED <<thorVars, window>>
  <2>1. /\ jpc' \notin {"send", "rcv"} /\ UNCHANGED <<tpc, output>>
        /\ nread' = nread \/ jpc # "rcv"
    BY <1>1 DEF JaneStart, Connect, OutOfSockets, ReadNothing, ReadBegin, ReadEnd,
       SendFails, Rcv, RcvFails, Finish, thorVars
  <2> QED
    BY <1>o, <1>s, <1>u, <2>1
<1>2. CASE (TakeBuffer \/ Hash) /\ UNCHANGED <<thorVars, window>>
  <2>1. /\ jpc' \in {"fread", "send"}
        /\ jpc' = "send" => failed \/ jpc = "hash"
        /\ UNCHANGED <<tpc, output, nread>>
    BY <1>2 DEF TakeBuffer, Hash, thorVars
  <2> QED
    BY <1>o, <1>u, <2>1
<1>3. CASE Send /\ UNCHANGED <<thorVars, window>>
  <2>1. jpc = "send" /\ jpc' = "rcv" /\ UNCHANGED <<tpc, output, nread>>
    BY <1>3 DEF Send, thorVars
  <2> QED
    BY <1>o, <1>u, <2>1
<1>4. CASE Receive /\ UNCHANGED <<janeVars, window>>
  <2>1. /\ toThor[tsock] # <<>> /\ UNCHANGED <<jpc, nread, output>>
    BY <1>4 DEF Receive, janeVars
  <2>2. jpc = "rcv" /\ tsock = jsock
    BY <1>f, <1>4, ReceiveFacts
  <2> QED
    BY <1>o, <1>u, <2>1, <2>2
<1>5. CASE ReceiveDone /\ UNCHANGED <<janeVars, window>>
  <2>1. /\ toThor[tsock] # <<>> /\ toThor' = [toThor EXCEPT ![tsock] = Tail(@)]
        /\ tpc' = "accept" /\ UNCHANGED <<jpc, jsock, nread, output>>
    BY <1>5 DEF ReceiveDone, janeVars
  <2>2. ASSUME jpc = "rcv", toThor'[jsock] # <<>>
        PROVE  toThor[jsock] # <<>>
    <3>1. jsock \in Conns
      BY <2>2 DEF IInv, JaneInv, Connected, Holding
    <3> QED
      BY <1>t, <2>1, <2>2, <3>1
  <2> QED
    BY <1>o, <1>u, <2>1, <2>2
<1>6. CASE Fflush /\ UNCHANGED <<janeVars, window>>
  <2>1. /\ tpc = "fflush" /\ tpc' \in {"search", "reply"}
        /\ UNCHANGED <<jpc, jsock, toThor>>
    BY <1>6 DEF Fflush, janeVars, realmVars, netVars
  <2> QED
    BY <1>s, <2>1
<1>7. CASE /\ UNCHANGED <<jpc, jsock, nread, toThor, output>>
           /\ tpc' \in {"check", "flush", "fflush"} => tpc \in {"check", "flush", "fflush"}
  BY <1>o, <1>u, <1>7
<1>8. /\ ThorStart \/ Listen \/ ListenFails \/ OutOfConnections \/ AcceptFails \/ Accept
         \/ ReceiveFails \/ Fwrite \/ Search \/ ReplyFails
      /\ UNCHANGED <<janeVars, window>>
      => /\ UNCHANGED <<jpc, jsock, nread, toThor, output>>
         /\ tpc' \in {"check", "flush", "fflush"} => tpc \in {"check", "flush", "fflush"}
  BY DEF ThorStart, Listen, ListenFails, OutOfConnections, AcceptFails, Accept,
         ReceiveFails, Fwrite, Search, ReplyFails, janeVars, thorVars, realmVars, netVars
<1>10. (Check \/ Reply) /\ UNCHANGED <<janeVars, window>>
       => /\ UNCHANGED <<jpc, jsock, nread, toThor, output>>
          /\ tpc' \in {"check", "flush", "fflush"} => tpc \in {"check", "flush", "fflush"}
  <2>1. Check => tpc = "check"
    BY DEF Check
  <2>2. Reply => tpc' \in {"accept", "rcv"}
    BY Zenon DEF Reply
  <2>3. Check \/ Reply => UNCHANGED <<toThor, output>>
    BY DEF Check, Reply, realmVars, netVars
  <2> QED
    BY <2>1, <2>2, <2>3 DEF janeVars
<1>9. UNCHANGED <<janeVars, thorVars, realmVars>>
      => /\ UNCHANGED <<jpc, jsock, nread, toThor, output>>
         /\ tpc' \in {"check", "flush", "fflush"} => tpc \in {"check", "flush", "fflush"}
  BY DEF janeVars, thorVars, realmVars, netVars
<1> QED
  BY <1>f, <1>1, <1>2, <1>3, <1>4, <1>5, <1>6, <1>7, <1>8, <1>9, <1>10
     DEF Next, JaneMoves, JaneStep, ConnectRefused, SocketFails, ThorMoves, ThorStep,
         Terminated, vars

\* Who writes to the shared memory, beside Loki...
LEMMA ShmWriters ==
  ASSUME [Next]_vars, ~ Corrupt
  PROVE  /\ UNCHANGED window
         /\ UNCHANGED shm \/ ((ReadBegin \/ ReadEnd) /\ UNCHANGED <<thorVars, window>>)
<1>1. UNCHANGED window
  BY DEF Next, JaneMoves, ThorMoves, Terminated, vars
<1>2. \/ UNCHANGED shm
      \/ (ReadBegin \/ ReadEnd) /\ UNCHANGED <<thorVars, window>>
  BY DEF Next, JaneMoves, JaneStep, JaneStart, Connect, ConnectRefused, SocketFails,
     TakeBuffer, ReadNothing, Hash, Send, SendFails, Rcv, RcvFails, Finish, JaneCrash,
     OutOfSockets, ThorMoves, ThorStep, ThorStart, Listen, ListenFails,
     OutOfConnections, AcceptFails, Accept, Receive, ReceiveDone, ReceiveFails, Check,
     Fwrite, Fflush, FlushFails, Search, Reply, ReplyFails, ThorCrash, ParseGarbled,
     ThorEnds, Terminated, vars, realmVars
<1> QED
  BY <1>1, <1>2

\* ...and where Loki does it unseen.
LEMMA ShmStep ==
  ASSUME IInv, [Next]_vars, ~ window'
  PROVE  /\ ~ window
         /\ \/ UNCHANGED shm
            \/ (ReadBegin \/ ReadEnd) /\ UNCHANGED <<thorVars, window>>
            \/ /\ UNCHANGED <<janeVars, thorVars>>
               /\ jpc \in {"fill", "hash"} => shm'[shm_buffer] = shm[shm_buffer]
               /\ tpc \in {"flush", "fflush"} => shm'[data] = shm[data]
<1>1. CASE Corrupt
  <2>1. PICK b \in Blocks :
          /\ shm' = [shm EXCEPT ![b] = - faults'["corrupt"]]
          /\ window' = \/ window
                       \/ (b = shm_buffer /\ jpc \in {"fill", "hash"})
                       \/ (tpc \in {"flush", "fflush"} /\ b = data)
    BY <1>1 DEF Corrupt
  <2>2. ~ window /\ ~ (b = shm_buffer /\ jpc \in {"fill", "hash"})
        /\ ~ (tpc \in {"flush", "fflush"} /\ b = data)
    BY <2>1
  <2>3. UNCHANGED <<janeVars, thorVars>>
    BY <1>1 DEF Corrupt
  <2>4. /\ shm \in [Blocks -> Content]
        /\ jpc \in {"fill", "hash"} => shm_buffer \in Blocks
        /\ tpc \in {"flush", "fflush"} => data \in Blocks
    BY TextIsRequest
       DEF IInv, TypeOK, RealmTypeOK, JaneTypeOK, ThorTypeOK, JaneInv, ThorInv, Holding, data
  <2>5. \A a \in Blocks : a # b => shm'[a] = shm[a]
    BY <2>1, <2>4
  <2> QED
    BY <2>2, <2>3, <2>4, <2>5
<1>2. CASE ~ Corrupt
  BY <1>2, ShmWriters
<1> QED
  BY <1>1, <1>2

\* While Thor writes, nobody else does.
LEMMA WriteUndisturbed ==
  ASSUME IInv, [Next]_vars, NoFault({"jane"})', NoFault({"corrupt"})' \/ ~ window',
         tpc \in {"flush", "fflush"}, UNCHANGED req
  PROVE  shm'[data'] = shm[data]
<1>1. NoFault({"jane"})
  BY FaultsGrow DEF NoFault, FaultKinds
<1>2. jpc = "rcv"
  BY <1>1, ServingFacts DEF Serving
<1>3. ~ ReadBegin /\ ~ ReadEnd
  BY <1>2 DEF ReadBegin, ReadEnd
<1>4. shm'[data] = shm[data]
  <2>1. CASE NoFault({"corrupt"})'
    BY <1>3, <2>1, FaultsGrow, ShmWriters DEF NoFault
  <2>2. CASE ~ window'
    BY <1>3, <2>2, ShmStep
  <2> QED
    BY <2>1, <2>2
<1>5. data' = data
  BY DEF data
<1> QED
  BY <1>4, <1>5

LEMMA PartInvStep ==
  ASSUME IInv, PartInv, [Next]_vars
  PROVE  PartInv'
<1> SUFFICES ASSUME NoFault({"jane"})', NoFault({"corrupt"})' \/ ~ window',
                    tpc' = "fflush"
             PROVE  part' = shm'[data']
  BY DEF PartInv
<1>1. NoFault({"jane"}) /\ (NoFault({"corrupt"}) \/ ~ window)
  <2>1. NoFault({"jane"}) /\ (NoFault({"corrupt"})' => NoFault({"corrupt"}))
    BY FaultsGrow DEF NoFault, FaultKinds
  <2>2. ~ window' => ~ window
    BY ShmStep
  <2> QED
    BY <2>1, <2>2
<1>2. CASE Fwrite
  BY <1>2 DEF Fwrite, data, realmVars
<1>3. CASE tpc = "fflush" /\ UNCHANGED <<req, part>>
  BY <1>1, <1>3, WriteUndisturbed DEF PartInv
<1>4. ~ Check /\ ~ Reply
  <2>1. Check => tpc' \in {"flush", "reply"}
    BY Zenon DEF Check
  <2>2. Reply => tpc' \in {"accept", "rcv"}
    BY Zenon DEF Reply
  <2> QED
    BY <2>1, <2>2
<1>5. Fwrite \/ (tpc = "fflush" /\ UNCHANGED <<req, part>>)
  BY <1>4
     DEF Next, JaneMoves, ThorMoves, ThorStep, ThorStart, Listen, ListenFails,
         OutOfConnections, AcceptFails, Accept, Receive, ReceiveDone, ReceiveFails,
         Fflush, FlushFails, Search, ReplyFails, ThorCrash, ParseGarbled,
         ThorEnds, Corrupt, Terminated, vars, thorVars
<1> QED
  BY <1>2, <1>3, <1>5

\* What Jane hashes is a chunk.
LEMMA SourceStep ==
  ASSUME IInv, PlaceInv, SourceInv, [Next]_vars, ~ window'
  PROVE  (/\ jpc = "fill" => shm[shm_buffer] = Torn
          /\ jpc = "hash" => shm[shm_buffer] \in Chunks
          /\ jpc \in {"send", "rcv"} \/ failed => md5 \in Chunks)'
<1>o. /\ jpc = "fill" => shm[shm_buffer] = Torn
      /\ jpc = "hash" => shm[shm_buffer] \in Chunks
      /\ jpc \in {"send", "rcv"} \/ failed => md5 \in Chunks
  BY ShmStep DEF SourceInv
<1>t. /\ JaneInv
      /\ shm \in [Blocks -> Content]
      /\ nread \in 0 .. NChunks /\ NChunks \in Nat
      /\ jpc \in {"fread", "fill"} => shm_buffer \in Blocks
  BY ConstantFacts
     DEF IInv, TypeOK, RealmTypeOK, JaneTypeOK, JaneInv, Holding
<1>1. CASE JaneStart \/ JaneCrash
  BY <1>1 DEF JaneStart, JaneCrash
<1>2. CASE Connect \/ OutOfSockets \/ TakeBuffer \/ ReadNothing
  <2>1. /\ jpc' \in {"top", "starved", "send", "fread", "done"}
        /\ jpc' = "send" => failed
        /\ UNCHANGED <<failed, md5>>
    BY <1>2 DEF Connect, OutOfSockets, TakeBuffer, ReadNothing
  <2> QED
    BY <1>o, <2>1
<1>3. CASE ReadBegin
  <2>1. /\ jpc = "fread" /\ jpc' = "fill" /\ shm' = [shm EXCEPT ![shm_buffer] = Torn]
        /\ UNCHANGED <<failed, md5, shm_buffer>>
    BY <1>3 DEF ReadBegin
  <2> QED
    BY <1>o, <1>t, <2>1
<1>4. CASE ReadEnd
  <2>1. PICK c \in {nread + 1} \cup {v \in {shm[shm_buffer]} : v < 0} :
          shm' = [shm EXCEPT ![shm_buffer] = c]
    BY <1>4 DEF ReadEnd
  <2>2. jpc = "fill" /\ jpc' = "hash" /\ UNCHANGED <<failed, md5, shm_buffer>>
    BY <1>4 DEF ReadEnd
  <2>3. c \in Chunks
    BY <1>o, <1>t, <2>2 DEF JaneInv, Chunks
  <2> QED
    BY <1>o, <1>t, <2>1, <2>2, <2>3
<1>5. CASE Hash
  <2>1. /\ jpc = "hash" /\ jpc' = "send" /\ md5' = shm[shm_buffer]
    BY <1>5 DEF Hash, readable_hash
  <2> QED
    BY <1>o, <2>1
<1>6. CASE Send \/ SendFails \/ Rcv \/ RcvFails
  <2>1. /\ jpc \in {"send", "rcv"} /\ jpc' \in {"rcv", "connect", "top"} /\ md5' = md5
    BY <1>6 DEF Send, SendFails, Rcv, RcvFails
  <2> QED
    BY <1>o, <2>1
<1>7. CASE Finish
  <2>1. jpc' = "closed" /\ UNCHANGED <<failed, md5>>
    BY <1>7 DEF Finish
  <2> QED
    BY <1>o, <2>1
<1>8. CASE UNCHANGED janeVars
  <2>1. UNCHANGED <<jpc, failed, md5, shm_buffer>>
    BY <1>8 DEF janeVars
  <2>2. jpc \in {"fill", "hash"} => shm'[shm_buffer] = shm[shm_buffer]
    <3>1. ~ ReadBegin /\ ~ ReadEnd
      BY <2>1 DEF ReadBegin, ReadEnd
    <3> QED
      BY <3>1, ShmStep
  <2> QED
    BY <1>o, <2>1, <2>2
<1> QED
  BY <1>1, <1>2, <1>3, <1>4, <1>5, <1>6, <1>7, <1>8
     DEF Next, JaneMoves, JaneStep, ConnectRefused, SocketFails, ThorMoves, Corrupt,
         Terminated, vars

\* What Thor writes is a chunk, and so is what he leaves a part of.
LEMMA SinkStep ==
  ASSUME IInv, PartInv, SourceInv, [Next]_vars, ~ window', NoFault({"jane", "disk"})'
  PROVE  (/\ tpc \in {"flush", "fflush"} => shm[data] \in Chunks
          /\ \A i \in DOMAIN output : output[i].chunk \in Chunks)'
<1>f. /\ NoFault({"jane", "disk"}) /\ NoFault({"jane"}) /\ NoFault({"jane"})' /\ ~ window
      /\ ~ JaneCrash /\ ~ FlushFails
  BY FaultsGrow, FaultsCounted, ShmStep DEF NoFault, FaultKinds
<1>o. /\ jpc = "rcv" => md5 \in Chunks
      /\ tpc \in {"flush", "fflush"} => shm[data] \in Chunks
      /\ \A i \in DOMAIN output : output[i].chunk \in Chunks
  BY <1>f DEF SourceInv
<1>t. output \in Seq(Pieces)
  BY DEF IInv, TypeOK, ThorTypeOK
<1>1. (\A i \in DOMAIN output : output[i].chunk \in Chunks)'
  <2>1. CASE UNCHANGED output
    BY <1>o, <2>1
  <2>2. CASE (Fflush \/ ThorCrash) /\ tpc = "fflush"
    <3>1. part = shm[data] /\ part \in Chunks
      BY <1>f, <1>o, <2>2 DEF PartInv
    <3>2. PICK p \in {Whole(part), PartOf(part)} :
            output' \in {Record(output, p), Append(output, p)}
      BY <2>2, <3>1 DEF Fflush, ThorCrash
    <3>3. p \in Pieces /\ p.chunk \in Chunks
      <4>1. part \in Content
        BY DEF IInv, TypeOK, ThorTypeOK
      <4> QED
        BY <3>1, <3>2, <4>1, PieceFacts, FieldsOfPieces
    <3>4. output' \in {output, Append(output, p)}
      BY <3>2, <3>3, LatestFacts
    <3> QED
      BY <1>o, <1>t, <3>3, <3>4
  <2>3. Fflush => tpc = "fflush"
    BY DEF Fflush
  <2>4. ThorCrash /\ tpc # "fflush" => UNCHANGED output
    BY DEF ThorCrash
  <2> QED
    BY <1>f, <2>1, <2>2, <2>3, <2>4, OutputStep
<1>2. ASSUME tpc' \in {"flush", "fflush"}
      PROVE  (shm[data] \in Chunks)'
  <2>1. CASE Check
    <3>1. tpc = "check" /\ UNCHANGED <<req, shm>>
      BY <2>1 DEF Check, realmVars
    <3>2. jpc = "rcv" /\ parse_data(req).md5 = md5
      BY <1>f, <3>1, ServingFacts DEF Serving
    <3>3. does_string_intact(data, parse_data(req).md5)
      BY <1>2, <2>1 DEF Check
    <3>4. shm[data] \in Chunks
      BY <1>o, <3>2, <3>3 DEF does_string_intact, readable_hash
    <3> QED
      BY <3>1, <3>4 DEF data
  <2>2. CASE tpc \in {"flush", "fflush"} /\ UNCHANGED req
    BY <1>f, <1>o, <2>2, WriteUndisturbed
  <2>3. Check \/ (tpc \in {"flush", "fflush"} /\ UNCHANGED req)
    <3>1. Reply => tpc' \in {"accept", "rcv"}
      BY Zenon DEF Reply
    <3> QED
      BY <1>f, <1>2, <3>1
         DEF Next, JaneMoves, ThorMoves, ThorStep, ThorStart, Listen, ListenFails,
             OutOfConnections, AcceptFails, Accept, Receive, ReceiveDone, ReceiveFails,
             Fwrite, Fflush, Search, ReplyFails, ThorCrash, ParseGarbled, ThorEnds,
             Corrupt, Terminated, vars, thorVars
  <2> QED
    BY <2>1, <2>2, <2>3
<1> QED
  BY <1>1, <1>2

LEMMA SourceInvStep ==
  ASSUME IInv, PlaceInv, PartInv, SourceInv, [Next]_vars
  PROVE  SourceInv'
BY SourceStep, SinkStep DEF SourceInv

LEMMA SearchInvStep ==
  ASSUME IInv, PartInv, OrderInv, SearchInv, [Next]_vars
  PROVE  SearchInv'
<1> SUFFICES ASSUME DoSearch, NoFault({"jane", "disk", "corrupt"})'
             PROVE  (/\ IsSuffix(Seen, output)
                     /\ NoFault({"thor", "garble"}) =>
                          /\ Seen = output
                          /\ tpc = "down" => output = <<>>)'
  BY DEF SearchInv
<1>f. /\ NoFault({"jane", "disk", "corrupt"}) /\ NoFault({"jane", "corrupt"})
      /\ NoFault({"thor", "garble"})' =>
           NoFault({"thor", "garble"}) /\ ~ ThorCrash /\ ~ ParseGarbled
      /\ ~ JaneCrash /\ ~ FlushFails /\ ~ Corrupt
  BY FaultsGrow, FaultsCounted DEF NoFault, FaultKinds
<1>o. /\ IsSuffix(Seen, output)
      /\ NoFault({"thor", "garble"}) =>
           Seen = output /\ (tpc = "down" => output = <<>>)
      /\ tpc \in {"search", "reply"} => Latest = Whole(nread)
  BY <1>f DEF SearchInv, OrderInv
<1>t. scanned \in Seq(Pieces) /\ output \in Seq(Pieces)
  BY DEF IInv, TypeOK, ThorTypeOK
<1>1. CASE /\ UNCHANGED <<scanned, output>>
           /\ (tpc' # "search" /\ tpc # "search") \/ tpc' = tpc
           /\ tpc' = "down" => tpc = "down"
  <2>1. Seen' = Seen
    BY <1>1 DEF Seen, Latest
  <2> QED
    BY <1>f, <1>o, <1>1, <2>1
<1>2. CASE Fflush
  <2>1. tpc = "fflush" /\ tpc' = "search" /\ scanned' = scanned
    BY <1>2 DEF Fflush
  <2>2. output' = Record(output, Whole(nread)) /\ nread \in Content
    BY <1>f, <1>2, <2>1, WrittenChunk
  <2>3. Latest' = Whole(nread) /\ Whole(nread) \in Pieces
    BY <2>2, PieceFacts, LatestFacts
  <2>4. Seen = scanned /\ Seen' = Record(scanned, Whole(nread))
    BY <2>1, <2>3 DEF Seen
  <2>5. IsSuffix(Seen', output')
    BY <1>o, <1>t, <2>2, <2>3, <2>4, RecordSuffix
  <2> QED
    BY <1>f, <1>o, <2>1, <2>2, <2>4, <2>5
<1>3. CASE Search
  <2>1. /\ tpc = "search" /\ tpc' = "reply"
        /\ scanned' = Record(scanned, Whole(shm[data])) /\ output' = output
    BY <1>3 DEF Search
  <2>2. shm[data] = nread /\ Latest = Whole(nread)
    BY <1>f, <1>o, <2>1, ServedChunk
  <2>3. Seen' = Seen
    BY <2>1, <2>2 DEF Seen
  <2> QED
    BY <1>f, <1>o, <2>1, <2>3
<1>4. CASE ThorStart \/ ThorCrash \/ ParseGarbled
  <2>1. scanned' = <<>> /\ tpc' \in {"listen", "down"} /\ output' \in Seq(Pieces)
    <3>1. ThorStart => output' = output
      BY DEF ThorStart
    <3>2. ThorCrash \/ ParseGarbled => output' \in Seq(Pieces)
      BY WriteResult DEF IInv, TypeOK
    <3> QED
      BY <1>4, <1>t, <3>1, <3>2 DEF ThorStart, ThorCrash, ParseGarbled, ThorEnds
  <2>2. Seen' = <<>>
    BY <2>1 DEF Seen
  <2>3. IsSuffix(<<>>, output')
    <3>1. <<>> \in Seq(Pieces) /\ Len(<<>>) = 0
      OBVIOUS
    <3> HIDE DEF SearchInv
    <3>2. Len(output') \in Nat
      BY <2>1
    <3>3. 0 <= Len(output') /\ \A i \in 1 .. 0 : <<>>[i] = output'[Len(output') - 0 + i]
      BY <3>2
    <3> QED
      BY <2>1, <3>1, <3>3, SuffixPointwise
  <2>4. NoFault({"thor", "garble"})' =>
          output = <<>> /\ output' = output /\ tpc' = "listen"
    BY <1>f, <1>o, <1>4 DEF ThorStart
  <2> QED
    BY <2>1, <2>2, <2>3, <2>4
<1>5. /\ Listen \/ ListenFails \/ OutOfConnections \/ AcceptFails \/ Accept \/ Receive
         \/ ReceiveDone \/ ReceiveFails \/ Fwrite \/ Reply \/ ReplyFails
      => /\ UNCHANGED <<scanned, output>>
         /\ (tpc' # "search" /\ tpc # "search") \/ tpc' = tpc
         /\ tpc' = "down" => tpc = "down"
  BY DEF Listen, ListenFails, OutOfConnections, AcceptFails, Accept, Receive, ReceiveDone,
         ReceiveFails, Fwrite, Reply, ReplyFails, thorVars
<1>6. Check => /\ UNCHANGED <<scanned, output>>
               /\ (tpc' # "search" /\ tpc # "search") \/ tpc' = tpc
               /\ tpc' = "down" => tpc = "down"
  BY DEF Check
<1>7. UNCHANGED thorVars =>
        /\ UNCHANGED <<scanned, output>>
        /\ (tpc' # "search" /\ tpc # "search") \/ tpc' = tpc
        /\ tpc' = "down" => tpc = "down"
  BY DEF thorVars
<1> QED
  BY <1>f, <1>1, <1>2, <1>3, <1>4, <1>5, <1>6, <1>7
     DEF Next, JaneMoves, ThorMoves, ThorStep, Corrupt, Terminated, vars

-----------------------------------------------------------------------------
(***************************************************************************)
(* The invariant, and what follows from it.                                *)
(***************************************************************************)
LEMMA CopyInvInit ==
  Init => CopyInv
<1> SUFFICES ASSUME Init
             PROVE  CopyInv
  OBVIOUS
<1>1. IInv
  BY IInvInit
<1>2. /\ jpc = "down" /\ failed = FALSE /\ nread = 0
      /\ tpc = "down" /\ tsock = NoConn /\ scanned = <<>> /\ output = <<>>
      /\ nconn = 0 /\ backlog = <<>>
      /\ faults["disk"] = 0
  BY DEF Init, RealmInit, JaneInit, ThorInit, FaultKinds
<1>3. Latest = Whole(0) /\ Latest.chunk = 0 /\ Seen = <<>>
  BY <1>2, FieldsOfPieces DEF Latest, Seen
<1>4. InOrder(output)
  BY <1>2 DEF InOrder
<1>5. PlaceInv /\ PartInv /\ OrderInv /\ OneConnInv
  BY <1>2, <1>3, <1>4 DEF PlaceInv, PartInv, OrderInv, OneConnInv, Underway, Connected, Holding
<1>6. OnceInv /\ SourceInv
  BY <1>2 DEF OnceInv, SourceInv
<1>7. SearchInv
  <2>1. IsSuffix(<<>>, <<>>)
    <3>1. <<>> \in Seq(Pieces) /\ Len(<<>>) = 0
      OBVIOUS
    <3>2. 0 <= 0 /\ \A i \in 1 .. 0 : <<>>[i] = <<>>[0 - 0 + i]
      OBVIOUS
    <3> QED
      BY <3>1, <3>2, SuffixPointwise
  <2> QED
    BY <1>2, <1>3, <2>1 DEF SearchInv
<1> QED
  BY <1>1, <1>5, <1>6, <1>7 DEF CopyInv

LEMMA CopyInvStep ==
  CopyInv /\ [Next]_vars => CopyInv'
BY IInvStep, PlaceInvStep, PartInvStep, OrderInvStep, OneConnInvStep, OnceInvStep, SourceInvStep,
   SearchInvStep
   DEF CopyInv

THEOREM CopyInvariance ==
  Spec => []CopyInv
BY CopyInvInit, CopyInvStep, PTL DEF Spec

(***************************************************************************)
(* Whatever happens to Thor, the chunks get to the output in order: none   *)
(* is skipped, one that a kill has cut short is written again before any   *)
(* other, and Jane reads on only after all of the last one was written.    *)
(***************************************************************************)
THEOREM OutputIsInOrder ==
  Spec => []OutputFollowsInput
<1>1. CopyInv => OutputFollowsInput
  <2> SUFFICES ASSUME CopyInv, NoFault({"jane", "disk", "corrupt"})
               PROVE  /\ InOrder(output)
                      /\ NoFault({"thor"}) => \A i \in DOMAIN output : output[i].whole
                      /\ Latest.chunk = nread \/ Latest = Whole(nread - 1)
                      /\ jpc \in {"fread", "done", "closed"} => Latest = Whole(nread)
    BY DEF OutputFollowsInput, InOrder
  <2> QED
    BY DEF CopyInv, OrderInv, Underway, IInv, JaneInv
<1> QED
  BY <1>1, CopyInvariance, PTL

(***************************************************************************)
(* What a third party writes to the area between Jane's hash and Thor's    *)
(* comparison never gets to the output, nor does a part of it.             *)
(***************************************************************************)
THEOREM CorruptionNeverWritten ==
  Spec => []CorruptionDetected
<1>1. CopyInv => CorruptionDetected
  BY DEF CopyInv, SourceInv, CorruptionDetected
<1> QED
  BY <1>1, CopyInvariance, PTL

(***************************************************************************)
(* The search goes over what this run of Thor wrote: over the end of the   *)
(* output, and over all of it as long as Thor does not die.                *)
(***************************************************************************)
THEOREM SearchSeesOutput ==
  Spec => []ScannedIsWritten
<1>1. CopyInv => ScannedIsWritten
  BY DEF CopyInv, SearchInv, Seen, ScannedIsWritten
<1> QED
  BY <1>1, CopyInvariance, PTL

(***************************************************************************)
(* Nothing is written after a write that failed, until a process dies.     *)
(***************************************************************************)
THEOREM FailedWriteIsLast ==
  Spec => NoHoleAfterDiskFault
<1>1. CopyInv /\ [Next]_vars =>
        (faults["disk"] > 0 /\ NoFault({"jane", "thor", "garble"}) => output' = output)
  <2> SUFFICES ASSUME CopyInv, [Next]_vars, faults["disk"] > 0,
                      NoFault({"jane", "thor", "garble"})
               PROVE  output' = output
    OBVIOUS
  <2>1. tpc \notin {"flush", "fflush"}
    BY DEF CopyInv, OneConnInv
  <2> QED
    BY <2>1, OutputStep DEF Fflush, FlushFails, ThorCrash
<1> QED
  BY <1>1, CopyInvariance, PTL DEF Spec, NoHoleAfterDiskFault

\* Jane's exit is a step of its own, and the last one she takes.
LEMMA ClosedStep ==
  [Next]_vars => \/ (jpc = "closed") <=> (jpc' = "closed")
                 \/ Finish /\ UNCHANGED <<thorVars, window>>
BY DEF Next, JaneMoves, ThorMoves, JaneStep, JaneStart, Connect, ConnectRefused,
       SocketFails, TakeBuffer, ReadNothing, ReadBegin, ReadEnd, Hash, Send, SendFails,
       Rcv, RcvFails, JaneCrash, OutOfSockets, Corrupt, Terminated, vars, janeVars

\* The end of the output is the same in both specifications.
LEMMA SameLatest ==
  /\ Copy!Latest = Latest
  /\ \A c : Copy!Whole(c) = Whole(c) /\ Copy!PartOf(c) = PartOf(c)
<1>1. \A c : Copy!Whole(c) = Whole(c) /\ Copy!PartOf(c) = PartOf(c)
  BY DEF Copy!Whole, Whole, Copy!PartOf, PartOf
<1>2. Copy!Latest = Latest
  BY <1>1, Zenon DEF Copy!Latest, Latest, Copy!Last, Last
<1> QED
  BY <1>1, <1>2

\* A write is the next chunk or, after a death of Thor, the last one again; a
\* write that is cut short begins one of these.
LEMMA WriteCopies ==
  ASSUME CopyInv, Fflush \/ ThorCrash, tpc = "fflush", UNCHANGED <<janeVars, window>>,
         NoFault({"jane", "disk", "corrupt"})
  PROVE  Copy!CopyNext \/ Copy!CopyAgain \/ Copy!CutShort \/ UNCHANGED Copy!vars
<1>1. IInv /\ PlaceInv /\ PartInv /\ OrderInv /\ OnceInv
  BY DEF CopyInv
<1>3. /\ NoFault({"jane", "corrupt"}) /\ NoFault({"jane"})
      /\ NoFault({"thor", "garble"}) =>
           NoFault({"jane", "thor", "garble", "disk", "corrupt"})
  BY DEF NoFault
<1>4. /\ nread \in Content
      /\ Fflush => output' = Record(output, Whole(nread))
      /\ ThorCrash => output' = Append(output, PartOf(nread))
  BY <1>1, <1>3, WrittenChunk
<1>5. jpc = "rcv" /\ jpc' = "rcv"
  BY <1>1, <1>3, ServingFacts DEF Serving, janeVars
<1>6. nread \in 1 .. NChunks /\ nread \in Int /\ NChunks \in Int
  BY <1>1, <1>5, ConstantFacts DEF IInv, TypeOK, JaneTypeOK, PlaceInv, Underway
<1>7. /\ Latest.chunk = nread \/ Latest = Whole(nread - 1)
      /\ \A n : Latest = Whole(n) <=> Latest.chunk = n /\ Latest.whole
  BY <1>1, LatestFacts DEF OrderInv
<1>8. CASE Fflush /\ Latest = Whole(nread - 1)
  <2>1. Whole(nread) # Latest /\ Whole(nread) \in Pieces
    BY <1>4, <1>6, <1>7, <1>8, PieceFacts, FieldsOfPieces
  <2>2. output' = Append(output, Whole(nread))
    BY <1>1, <1>4, <1>8, <2>1, LatestFacts
  <2>3. Latest.whole /\ Latest.chunk < NChunks /\ Latest.chunk + 1 = nread
    BY <1>6, <1>7, <1>8
  <2>4. /\ Copy!Latest.whole /\ Copy!Latest.chunk < NChunks
        /\ output' = Append(output, Copy!Whole(Copy!Latest.chunk + 1))
    BY <2>2, <2>3, SameLatest
  <2> QED
    BY <1>5, <2>4 DEF Copy!CopyNext
<1>9. CASE Fflush /\ Latest.chunk = nread
  <2>1. output' \in {output, Append(output, Whole(nread))}
    BY <1>1, <1>4, <1>9, PieceFacts, LatestFacts
  <2>2. output # <<>>
    <3>1. Whole(0).chunk = 0
      BY FieldsOfPieces
    <3>2. Latest # Whole(0)
      BY <1>6, <1>9, <3>1
    <3> QED
      BY <3>2 DEF Latest
  <2>3. ~ NoFault({"thor", "garble"})
    <3>1. Latest # Whole(nread - 1)
      BY <1>6, <1>7, <1>9
    <3> QED
      BY <1>1, <1>3, <3>1 DEF OnceInv
  <2>4. Copy!Latest.chunk = nread /\ Copy!Whole(nread) = Whole(nread)
    BY <1>9, SameLatest
  <2> QED
    BY <1>5, <2>1, <2>2, <2>3, <2>4 DEF Copy!CopyAgain, Copy!vars
<1>10. CASE ThorCrash
  <2>1. ~ NoFault({"thor", "garble"})'
    BY <1>1, <1>10, FaultsCounted DEF NoFault
  <2>2. nread \in {Latest.chunk} \cup (IF Latest.whole THEN {Latest.chunk + 1} ELSE {})
    BY <1>6, <1>7
  <2>3. nread \in {Copy!Latest.chunk}
                 \cup (IF Copy!Latest.whole THEN {Copy!Latest.chunk + 1} ELSE {})
        /\ output' = Append(output, Copy!PartOf(nread))
    BY <1>4, <1>10, <2>2, SameLatest
  <2> QED
    BY <1>5, <1>6, <2>1, <2>3 DEF Copy!CutShort
<1> QED
  BY <1>7, <1>8, <1>9, <1>10

(***************************************************************************)
(* Jane and Thor implement FileCopy: with deaths of Thor at any point      *)
(* every chunk is written as a whole at least once, in order and before    *)
(* any part of the next, without them exactly once and nothing else, and   *)
(* Jane exits only when the last one is in the file.                       *)
(***************************************************************************)
THEOREM ImplementsCopy ==
  Spec => CopiesFile
<1>1. Init => Copy!Init
  BY DEF Init, JaneInit, ThorInit, Copy!Init
<1>2. CopyInv /\ [Next]_vars => [Copy!Next]_(Copy!vars)
  <2> SUFFICES ASSUME CopyInv, [Next]_vars, NoFault({"jane", "disk", "corrupt"})'
               PROVE  \/ Copy!CopyNext \/ Copy!CopyAgain \/ Copy!CutShort \/ Copy!Finish
                      \/ UNCHANGED Copy!vars
    BY DEF Copy!Next
  <2>1. IInv /\ PlaceInv /\ OrderInv
    BY DEF CopyInv
  <2>2. NoFault({"jane", "disk", "corrupt"}) /\ ~ FlushFails
    BY <2>1, FaultsGrow, FaultsCounted DEF NoFault, FaultKinds
  <2>3. CASE (Fflush \/ ThorCrash) /\ tpc = "fflush" /\ UNCHANGED <<janeVars, window>>
    BY <2>2, <2>3, WriteCopies
  <2>4. CASE Finish /\ UNCHANGED <<thorVars, window>>
    <3>1. jpc = "done" /\ jpc' = "closed" /\ output' = output
      BY <2>4 DEF Finish, thorVars
    <3>2. Latest = Whole(NChunks)
      BY <2>1, <2>2, <3>1 DEF OrderInv, PlaceInv, Underway, IInv, JaneInv
    <3>3. Copy!Latest = Copy!Whole(NChunks)
      BY <3>2, SameLatest
    <3> QED
      BY <3>1, <3>3, Zenon DEF Copy!Finish
  <2>5. CASE UNCHANGED output /\ ((jpc = "closed") <=> (jpc' = "closed"))
    BY <2>5 DEF Copy!vars
  <2>6. /\ Fflush => tpc = "fflush"
        /\ ThorCrash /\ tpc # "fflush" => UNCHANGED output
    BY DEF Fflush, ThorCrash
  <2> QED
    BY <2>2, <2>3, <2>4, <2>5, <2>6, OutputStep, ClosedStep
<1> QED
  BY <1>1, <1>2, CopyInvariance, PTL DEF Spec, CopiesFile, Copy!Spec
=============================================================================
