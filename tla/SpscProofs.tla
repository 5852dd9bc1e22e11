----------------------------- MODULE SpscProofs -----------------------------
(***************************************************************************)
(* Safety of Jane and Thor for every pool size, area size, file length and *)
(* number of faults.                                                       *)
(***************************************************************************)
EXTENDS SpscInv, ShmPoolProofs, Hex

USE DEF NULL, Torn, NoConn, Done, LokiText

-----------------------------------------------------------------------------
(***************************************************************************)
(* What the assumptions on the constants give.                             *)
(***************************************************************************)
LEMMA ConstantFacts ==
  /\ Blocks \subseteq Nat \ {0} /\ 1 \in Blocks
  /\ Conns \subseteq Nat \ {0}
  /\ NChunks \in Nat
  /\ UseBuffers \in 1 .. members
  /\ Content \subseteq Int
  /\ Torn \in Content
  /\ \A n \in 0 .. NChunks : n \in Content
  /\ \A n \in Nat : n <= MaxFaults["corrupt"] => - n \in Content
BY RealmAssumption, MembersIsBuffers DEF Blocks, Conns, Content, FaultKinds

\* A request names its area and its hash.
LEMMA RequestFields ==
  ASSUME NEW b \in Blocks, NEW m \in Content
  PROVE  /\ Request(get_offset(b), m) \in Text \ {Done}
         /\ parse_data(Request(get_offset(b), m)).md5 = m
         /\ get_buffer(parse_data(Request(get_offset(b), m)).offset) = b
<1>1. (b * 1024) \div 1024 = b
  BY ConstantFacts
<1>2. <<1, get_offset(b), m>> # <<>>
  OBVIOUS
<1>3. parse_data(<<1, get_offset(b), m>>) =
        [num |-> 1, offset |-> get_offset(b), md5 |-> m]
  BY DEF parse_data
<1> QED
  BY <1>1, <1>2, <1>3 DEF Text, Request, get_offset, get_buffer

\* A text with fields is a request.
LEMMA TextIsRequest ==
  ASSUME NEW t \in Text, t # Done
  PROVE  /\ get_buffer(parse_data(t).offset) \in Blocks
         /\ parse_data(t).md5 \in Content
<1>1. PICK b \in Blocks, m \in Content : t = Request(get_offset(b), m)
  BY DEF Text
<1> QED
  BY <1>1, RequestFields

LEMMA FreshPools ==
  /\ free_pool_init \in Pools
  /\ OneArea(UseBuffers) \in Pools
BY MembersIsBuffers, ConstantFacts
   DEF free_pool_init, OneArea, Pools, PoolArray, Indices

\* Taking an area for the next round always gives the one at block 1.
LEMMA TakeBufferResult ==
  ASSUME PoolInv, TakeBuffer
  PROVE  shm_buffer' = 1 /\ pool' = OneArea(UseBuffers)
<1>1. UseBuffers \in 1 .. members
  BY ConstantFacts
<1>2. CASE shm_buffer = NULL
  <2>1. pool = free_pool_init
    BY <1>2 DEF PoolInv
  <2> QED
    BY <1>1, <1>2, <2>1, AllocFromFresh DEF TakeBuffer
<1>3. CASE shm_buffer # NULL
  <2>1. shm_buffer = 1 /\ pool = OneArea(UseBuffers)
    BY <1>3 DEF PoolInv
  <2> QED
    BY <1>1, <1>3, <2>1, AllocFromFresh, DeallocRestores DEF TakeBuffer
<1> QED
  BY <1>2, <1>3

LEMMA RecordType ==
  ASSUME NEW S, NEW log \in Seq(S), NEW p \in S
  PROVE  Record(log, p) \in Seq(S)
BY DEF Record

LEMMA PieceFacts ==
  ASSUME NEW c \in Content
  PROVE  Whole(c) \in Pieces /\ PartOf(c) \in Pieces
BY DEF Whole, PartOf, Pieces

LEMMA FieldsOfPieces ==
  ASSUME NEW c
  PROVE  /\ Whole(c).chunk = c /\ Whole(c).whole = TRUE
         /\ PartOf(c).chunk = c /\ PartOf(c).whole = FALSE
BY DEF Whole, PartOf

(***************************************************************************)
(* What a write, whole, cut short or failed, does to the output.           *)
(***************************************************************************)
LEMMA WriteResult ==
  ASSUME RealmTypeOK, ThorTypeOK, ThorInv
  PROVE  /\ Fflush => \E c \in Content :
              c \in {part, Torn} /\ output' = Record(output, Whole(c))
         /\ FlushFails => output' \in {output, Append(output, PartOf(part))}
         /\ Fflush \/ FlushFails \/ ThorEnds => part' = Torn
         /\ Fflush \/ FlushFails \/ ThorCrash \/ ParseGarbled => output' \in Seq(Pieces)
<1>t. part \in Content /\ Torn \in Content /\ output \in Seq(Pieces)
  BY ConstantFacts DEF ThorTypeOK
<1>1. ASSUME Fflush
      PROVE  \E c \in Content : c \in {part, Torn} /\ output' = Record(output, Whole(c))
  <2>1. PICK c \in {part} \cup (IF shm[data] = part THEN {} ELSE {Torn}) :
          output' = Record(output, Whole(c))
    BY <1>1 DEF Fflush
  <2> QED
    BY <1>t, <2>1
<1>2. FlushFails => output' \in {output, Append(output, PartOf(part))}
  BY DEF FlushFails
<1>3. Fflush \/ FlushFails \/ ThorEnds => part' = Torn
  BY DEF Fflush, FlushFails, ThorEnds
<1>4. Append(output, PartOf(part)) \in Seq(Pieces)
  BY <1>t, PieceFacts
<1>5. Fflush => output' \in Seq(Pieces)
  BY <1>t, <1>1, PieceFacts, RecordType
<1>6. ThorCrash \/ ParseGarbled => output' \in {output, Append(output, PartOf(part))}
  BY DEF ThorCrash, ParseGarbled
<1> QED
  BY <1>t, <1>1, <1>2, <1>3, <1>4, <1>5, <1>6

LEMMA SentType ==
  ASSUME NEW queue \in [Conns -> Seq(Text)], NEW c \in Conns, NEW m \in Text,
         NEW open
  PROVE  Sent(queue, c, m, open) \in [Conns -> Seq(Text)]
BY DEF Sent

-----------------------------------------------------------------------------
(***************************************************************************)
(* Type correctness: Jane's variables, Thor's, and what they share.        *)
(***************************************************************************)
LEMMA BooleanTypeStep ==
  IInv /\ [Next]_vars =>
    /\ failed' \in BOOLEAN
    /\ listening' \in BOOLEAN
    /\ thor_errno' \in BOOLEAN
    /\ window' \in BOOLEAN
<1> SUFFICES ASSUME IInv, [Next]_vars
             PROVE  /\ failed' \in BOOLEAN
                    /\ listening' \in BOOLEAN
                    /\ thor_errno' \in BOOLEAN
                    /\ window' \in BOOLEAN
  OBVIOUS
<1>t. /\ failed \in BOOLEAN
      /\ listening \in BOOLEAN
      /\ thor_errno \in BOOLEAN
      /\ window \in BOOLEAN
  BY DEF IInv, TypeOK, RealmTypeOK, JaneTypeOK, ThorTypeOK
<1>1. CASE UNCHANGED <<failed, listening, thor_errno, window>>
  BY <1>t, <1>1
<1>2. CASE (JaneStart \/ JaneCrash \/ Rcv) /\ UNCHANGED <<thor_errno, window>>
  BY <1>t, <1>2, Zenon DEF JaneStart, JaneCrash, Rcv, realmVars, netVars
<1>3. CASE (SendFails \/ RcvFails) /\ UNCHANGED <<thor_errno, window>>
  BY <1>t, <1>3, Zenon DEF SendFails, RcvFails, realmVars, netVars
<1>4. CASE (Listen \/ Check) /\ UNCHANGED <<failed, window>>
  BY <1>t, <1>4, Zenon DEF Listen, Check, realmVars, netVars
<1>5. CASE (FlushFails \/ ThorEnds) /\ UNCHANGED <<failed, window>>
  BY <1>t, <1>5, Zenon DEF FlushFails, ThorEnds, netVars
<1>6. CASE Corrupt
  <2>1. UNCHANGED <<failed, listening, thor_errno>>
    BY <1>6 DEF Corrupt, netVars, janeVars, thorVars
  <2>2. window' \in BOOLEAN
    BY <1>6, Zenon DEF Corrupt
  <2> QED
    BY <1>t, <2>1, <2>2
<1> QED
  BY <1>1, <1>2, <1>3, <1>4, <1>5, <1>6
     DEF Next, JaneMoves, JaneStep, Connect, ConnectRefused, TakeBuffer, ReadNothing,
         ReadBegin, ReadEnd, Hash, Send, Finish, ThorMoves, ThorStep, ThorStart,
         Accept, Receive, ReceiveDone, ReceiveFails, Fwrite, Fflush, Search, Reply, ReplyFails,
         SocketFails, OutOfSockets, AcceptFails, ListenFails, OutOfConnections,
         ThorCrash, ParseGarbled, Terminated, vars, janeVars, thorVars, realmVars,
         netVars

LEMMA JaneTypeStep ==
  IInv /\ [Next]_vars => JaneTypeOK' /\ PoolInv'
<1> SUFFICES ASSUME IInv, [Next]_vars
             PROVE  JaneTypeOK' /\ PoolInv'
  OBVIOUS
<1> USE ConstantFacts, FreshPools
<1>t. RealmTypeOK /\ JaneTypeOK /\ ThorTypeOK /\ PoolInv /\ JaneInv
  BY DEF IInv, TypeOK
<1>b. failed' \in BOOLEAN
  BY BooleanTypeStep
<1>1. CASE JaneStart
  BY <1>t, <1>b, <1>1 DEF JaneStart, JaneTypeOK, PoolInv, JanePlaces
<1>2. CASE Connect
  <2>1. /\ jsock' = nconn + 1 /\ nconn < MaxConns /\ jpc' = "top"
        /\ UNCHANGED <<failed, shm_buffer, md5, nread, pool>>
    BY <1>2 DEF Connect
  <2>2. jsock' \in Conns
    BY <1>t, <2>1, RealmAssumption DEF RealmTypeOK, Conns
  <2> QED
    BY <1>t, <2>1, <2>2 DEF JaneTypeOK, PoolInv, JanePlaces
<1>3. CASE TakeBuffer
  BY <1>t, <1>3, TakeBufferResult DEF TakeBuffer, JaneTypeOK, PoolInv, JanePlaces
<1>4. CASE ReadNothing \/ OutOfSockets
  BY <1>t, <1>4 DEF ReadNothing, OutOfSockets, JaneTypeOK, PoolInv, JanePlaces
<1>5. CASE ReadBegin
  BY <1>t, <1>5 DEF ReadBegin, JaneTypeOK, PoolInv, JanePlaces
<1>6. CASE ReadEnd
  BY <1>t, <1>6 DEF ReadEnd, JaneTypeOK, PoolInv, JanePlaces, JaneInv
<1>7. CASE Hash
  BY <1>t, <1>7 DEF Hash, JaneTypeOK, PoolInv, JanePlaces, JaneInv, Holding, RealmTypeOK, readable_hash
<1>8. CASE Send \/ SendFails \/ Rcv \/ RcvFails \/ Finish
  BY <1>t, <1>8 DEF Send, SendFails, Rcv, RcvFails, Finish, JaneTypeOK, PoolInv, JanePlaces
<1>9. CASE JaneCrash
  BY <1>t, <1>b, <1>9 DEF JaneCrash, JaneTypeOK, PoolInv, JanePlaces
<1>10. CASE UNCHANGED janeVars
  BY <1>t, <1>10 DEF JaneTypeOK, PoolInv, janeVars
<1> QED
  BY <1>1, <1>2, <1>3, <1>4, <1>5, <1>6, <1>7, <1>8, <1>9, <1>10
     DEF Next, JaneMoves, JaneStep, ConnectRefused, SocketFails, ThorMoves, Corrupt, Terminated, vars

LEMMA ThorTypeStep ==
  IInv /\ [Next]_vars => ThorTypeOK'
<1> SUFFICES ASSUME IInv, [Next]_vars
             PROVE  ThorTypeOK'
  OBVIOUS
<1> USE ConstantFacts
<1>t. RealmTypeOK /\ ThorTypeOK /\ ThorInv
  BY DEF IInv, TypeOK
<1>b. thor_errno' \in BOOLEAN
  BY BooleanTypeStep
<1>d. tpc \in {"check", "flush", "fflush", "search"} =>
        data \in Blocks /\ shm[data] \in Content
  BY <1>t, TextIsRequest DEF ThorTypeOK, ThorInv, RealmTypeOK, data
<1>1. CASE ThorStart \/ Listen \/ ListenFails \/ OutOfConnections \/ ReceiveFails
            \/ ReplyFails
  <2>1. /\ tpc' \in {"listen", "accept", "deaf"} /\ scanned' \in {scanned, <<>>}
        /\ UNCHANGED <<tsock, req, reply, part, output>>
    BY <1>1 DEF ThorStart, Listen, ListenFails, OutOfConnections, ReceiveFails, ReplyFails
  <2>2. scanned' \in Seq(Pieces)
    <3>1. scanned \in Seq(Pieces)
      BY <1>t DEF ThorTypeOK
    <3>2. <<>> \in Seq(Pieces)
      OBVIOUS
    <3> QED
      BY <2>1, <3>1, <3>2
  <2> QED
    BY <1>t, <1>b, <2>1, <2>2 DEF ThorTypeOK, ThorPlaces
<1>10. CASE Reply
  <2>1. tpc' \in {"accept", "rcv"}
    BY <1>10, Zenon DEF Reply
  <2>2. UNCHANGED <<tsock, req, reply, part, scanned, output>>
    BY <1>10 DEF Reply
  <2> QED
    BY <1>t, <1>b, <2>1, <2>2 DEF ThorTypeOK, ThorPlaces
<1>2. CASE Accept
  BY <1>t, <1>2 DEF Accept, ThorTypeOK, ThorPlaces, RealmTypeOK
<1>3. CASE Receive \/ ReceiveDone
  <2>1. tsock \in Conns /\ toThor[tsock] # <<>> /\ toThor[tsock] \in Seq(Text)
    BY <1>t, <1>3 DEF Receive, ReceiveDone, ThorInv, RealmTypeOK
  <2>2. Head(toThor[tsock]) \in Text
    BY <2>1
  <2> QED
    BY <1>t, <1>3, <2>2 DEF Receive, ReceiveDone, ThorTypeOK, ThorPlaces
<1>4. CASE Check
  <2>1. tpc' \in {"flush", "reply"} /\ reply' \in {req, LokiText}
    BY <1>4, Zenon DEF Check
  <2>2. UNCHANGED <<tsock, req, part, scanned, output>>
    BY <1>4 DEF Check
  <2> QED
    BY <1>t, <1>b, <2>1, <2>2 DEF ThorTypeOK, ThorPlaces, Text
<1>5. CASE Fwrite
  <2>1. part' \in Content
    BY <1>d, <1>5 DEF Fwrite
  <2> QED
    BY <1>t, <1>5, <2>1 DEF Fwrite, ThorTypeOK, ThorPlaces
<1>6. CASE Fflush \/ FlushFails
  <2>1. output' \in Seq(Pieces) /\ part' \in Content
    BY <1>t, <1>6, WriteResult
  <2>2. tpc' \in {"search", "reply"} /\ UNCHANGED <<tsock, req, reply, scanned>>
    BY <1>6 DEF Fflush, FlushFails
  <2> QED
    BY <1>t, <1>b, <2>1, <2>2 DEF ThorTypeOK, ThorPlaces
<1>7. CASE Search
  <2>1. scanned' \in Seq(Pieces)
    BY <1>t, <1>7, <1>d, RecordType, PieceFacts DEF Search, ThorTypeOK
  <2> QED
    BY <1>t, <1>7, <2>1 DEF Search, ThorTypeOK, ThorPlaces
<1>8. CASE ThorCrash \/ ParseGarbled
  <2>1. output' \in Seq(Pieces) /\ ThorEnds /\ part' \in Content
    BY <1>t, <1>8, WriteResult DEF ThorCrash, ParseGarbled
  <2> QED
    BY <1>t, <1>b, <2>1 DEF ThorEnds, ThorTypeOK, ThorPlaces, NoRequest, Text
<1>9. CASE UNCHANGED thorVars
  BY <1>t, <1>9 DEF ThorTypeOK, thorVars
<1> QED
  BY <1>1, <1>2, <1>3, <1>4, <1>5, <1>6, <1>7, <1>8, <1>9, <1>10
     DEF Next, JaneMoves, ThorMoves, ThorStep, AcceptFails, ThorCrash, ParseGarbled, Corrupt,
         Terminated, vars

LEMMA StrikeType ==
  ASSUME RealmTypeOK, NEW k \in FaultKinds, Strike(k)
  PROVE  /\ faults' \in [FaultKinds -> Nat]
         /\ \A j \in FaultKinds : faults'[j] <= MaxFaults[j]
<1>1. /\ faults \in [FaultKinds -> Nat] /\ MaxFaults \in [FaultKinds -> Nat]
      /\ \A j \in FaultKinds : faults[j] <= MaxFaults[j]
      /\ faults[k] < MaxFaults[k] /\ faults' = [faults EXCEPT ![k] = @ + 1]
  BY RealmAssumption DEF Strike, RealmTypeOK
<1> QED
  BY <1>1

LEMMA RealmTypeStep ==
  IInv /\ [Next]_vars => RealmTypeOK'
<1> SUFFICES ASSUME IInv, [Next]_vars
             PROVE  RealmTypeOK'
  OBVIOUS
<1> USE ConstantFacts
<1>t. RealmTypeOK /\ JaneTypeOK /\ ThorTypeOK /\ JaneInv /\ ThorInv /\ PoolInv
  BY DEF IInv, TypeOK
<1>b. listening' \in BOOLEAN
  BY BooleanTypeStep
<1>1. CASE UNCHANGED realmVars
  BY <1>t, <1>1 DEF RealmTypeOK, realmVars, netVars
<1>2. CASE Connect
  <2>1. /\ nconn' = nconn + 1 /\ nconn < MaxConns
        /\ backlog' = Append(backlog, nconn')
        /\ janeOpen' = janeOpen \cup {nconn'}
        /\ thorOpen' = thorOpen \cup {nconn'}
        /\ UNCHANGED <<shm, faults, toThor, toJane>>
    BY <1>2 DEF Connect
  <2>2. nconn' \in 0 .. MaxConns /\ nconn' \in Conns
    BY <1>t, <2>1, RealmAssumption DEF RealmTypeOK, Conns
  <2>3. backlog' \in Seq(Conns)
    BY <1>t, <2>1, <2>2 DEF RealmTypeOK
  <2> QED
    BY <1>t, <1>b, <2>1, <2>2, <2>3 DEF RealmTypeOK
<1>3. CASE ReadBegin
  BY <1>t, <1>3 DEF ReadBegin, RealmTypeOK, netVars
<1>4. CASE ReadEnd
  <2>1. \A c \in {nread + 1} \cup {v \in {shm[shm_buffer]} : v < 0} : c \in Content
    BY <1>t, <1>4 DEF ReadEnd, RealmTypeOK, JaneTypeOK, JaneInv, Holding
  <2> QED
    BY <1>t, <1>4, <2>1 DEF ReadEnd, RealmTypeOK, netVars
<1>5. CASE Send \/ Finish
  <2>1. jsock \in Conns /\ shm_buffer \in Blocks /\ md5 \in Content
    BY <1>t, <1>5 DEF Send, Finish, JaneInv, JaneTypeOK, Connected, Holding
  <2>2. Request(get_offset(shm_buffer), md5) \in Text /\ Done \in Text
    <3>1. Request(get_offset(shm_buffer), md5) \in Text
      BY <2>1, RequestFields
    <3>2. Done \in Text
      BY DEF Text, Done
    <3> QED
      BY <3>1, <3>2
  <2>3. toThor' \in [Conns -> Seq(Text)]
    <3>1. PICK m \in Text : toThor' = Sent(toThor, jsock, m, thorOpen)
      BY <1>5, <2>2 DEF Send, Finish
    <3>2. toThor \in [Conns -> Seq(Text)]
      BY <1>t DEF RealmTypeOK
    <3>3. Sent(toThor, jsock, m, thorOpen) \in [Conns -> Seq(Text)]
      BY <2>1, <3>2, SentType
    <3> QED
      BY <3>1, <3>3
  <2>4. CASE Send
    BY <1>t, <1>b, <2>3, <2>4 DEF Send, RealmTypeOK
  <2>5. CASE Finish
    <3>1. /\ janeOpen' = {} /\ toJane' = [c \in Conns |-> <<>>]
          /\ UNCHANGED <<shm, faults, listening, backlog, nconn, thorOpen>>
      BY <2>5 DEF Finish
    <3>2. toJane' \in [Conns -> Seq(Text)]
      BY <3>1
    <3> QED
      BY <1>t, <1>b, <2>3, <3>1, <3>2 DEF RealmTypeOK
  <2> QED
    BY <1>5, <2>4, <2>5
<1>6. CASE Rcv
  <2>1. /\ jpc = "rcv" /\ toJane[jsock] # <<>>
        /\ toJane' = [toJane EXCEPT ![jsock] = Tail(@)]
        /\ UNCHANGED <<shm, faults, listening, backlog, nconn, janeOpen, thorOpen,
                       toThor>>
    BY <1>6 DEF Rcv
  <2>2. jsock \in Conns /\ toJane[jsock] \in Seq(Text)
    BY <1>t, <2>1 DEF JaneInv, Connected, Holding, RealmTypeOK
  <2>3. Tail(toJane[jsock]) \in Seq(Text)
    BY <2>1, <2>2
  <2> QED
    BY <1>t, <2>1, <2>3 DEF RealmTypeOK
<1>7. CASE JaneCrash
  <2>1. /\ Strike("jane") /\ janeOpen' = {} /\ toJane' = [c \in Conns |-> <<>>]
        /\ UNCHANGED <<shm, listening, backlog, nconn, thorOpen, toThor>>
    BY <1>7 DEF JaneCrash
  <2>2. toJane' \in [Conns -> Seq(Text)]
    BY <2>1
  <2>3. /\ faults' \in [FaultKinds -> Nat]
        /\ \A j \in FaultKinds : faults'[j] <= MaxFaults[j]
    BY <1>t, <2>1, StrikeType DEF FaultKinds
  <2> QED
    BY <1>t, <2>1, <2>2, <2>3 DEF RealmTypeOK
<1>8. CASE Listen \/ Accept
  <2>1. CASE Listen
    BY <1>t, <1>b, <2>1 DEF Listen, RealmTypeOK
  <2>2. CASE Accept
    <3>1. /\ backlog # <<>> /\ backlog' = Tail(backlog)
          /\ UNCHANGED <<shm, faults, listening, nconn, janeOpen, thorOpen, toThor, toJane>>
      BY <2>2 DEF Accept
    <3>2. backlog' \in Seq(Conns)
      BY <1>t, <3>1 DEF RealmTypeOK
    <3> QED
      BY <1>t, <1>b, <3>1, <3>2 DEF RealmTypeOK
  <2> QED
    BY <1>8, <2>1, <2>2
<1>9. CASE Receive \/ ReceiveDone
  <2>1. /\ tpc = "rcv" /\ toThor[tsock] # <<>>
        /\ toThor' = [toThor EXCEPT ![tsock] = Tail(@)]
        /\ UNCHANGED <<shm, faults, listening, backlog, nconn, janeOpen, thorOpen,
                       toJane>>
    BY <1>9 DEF Receive, ReceiveDone
  <2>2. tsock \in Conns /\ toThor[tsock] \in Seq(Text)
    BY <1>t, <2>1 DEF ThorInv, RealmTypeOK
  <2>3. Tail(toThor[tsock]) \in Seq(Text)
    BY <2>1, <2>2
  <2> QED
    BY <1>t, <2>1, <2>3 DEF RealmTypeOK
<1>10. CASE Reply
  <2>1. toJane' \in [Conns -> Seq(Text)]
    BY <1>t, <1>10, SentType DEF Reply, ThorInv, ThorTypeOK, RealmTypeOK, Serving
  <2> QED
    BY <1>t, <1>10, <2>1 DEF Reply, RealmTypeOK
<1>11. CASE FlushFails \/ ListenFails \/ OutOfConnections \/ OutOfSockets
  BY <1>t, <1>11, StrikeType
     DEF FlushFails, ListenFails, OutOfConnections, OutOfSockets, RealmTypeOK, FaultKinds, netVars
<1>12. CASE ThorCrash \/ ParseGarbled
  <2>1. /\ listening' = FALSE /\ backlog' = <<>> /\ thorOpen' = {}
        /\ toThor' = [c \in Conns |-> <<>>]
        /\ UNCHANGED <<shm, nconn, janeOpen, toJane>>
    BY <1>12 DEF ThorCrash, ParseGarbled, ThorEnds
  <2>2. /\ faults' \in [FaultKinds -> Nat]
        /\ \A j \in FaultKinds : faults'[j] <= MaxFaults[j]
    BY <1>t, <1>12, StrikeType DEF ThorCrash, ParseGarbled, FaultKinds
  <2>3. toThor' \in [Conns -> Seq(Text)] /\ backlog' \in Seq(Conns)
    BY <2>1
  <2> QED
    BY <1>t, <1>b, <2>1, <2>2, <2>3 DEF RealmTypeOK
<1>13. CASE Corrupt
  <2>1. - faults'["corrupt"] \in Content
    BY <1>t, <1>13, StrikeType DEF Corrupt, FaultKinds
  <2> QED
    BY <1>t, <1>13, <2>1, StrikeType DEF Corrupt, RealmTypeOK, FaultKinds, netVars
<1> QED
  BY <1>1, <1>2, <1>3, <1>4, <1>5, <1>6, <1>7, <1>8, <1>9, <1>10, <1>11, <1>12, <1>13
     DEF Next, JaneMoves, JaneStep, JaneStart, ConnectRefused, SocketFails, TakeBuffer, ReadNothing,
         Hash, SendFails, RcvFails, ThorMoves, ThorStep, ThorStart, AcceptFails, ReceiveFails,
         Check, Fwrite, Fflush, Search, ReplyFails, Terminated, vars, realmVars

-----------------------------------------------------------------------------
(***************************************************************************)
(* Nothing un-happens: a kind of fault that has not struck after a step    *)
(* had not struck before it.                                               *)
(***************************************************************************)
LEMMA FaultsGrow ==
  ASSUME IInv, [Next]_vars
  PROVE  /\ \A k \in FaultKinds : faults'[k] = 0 => faults[k] = 0
         /\ JaneCrash => faults'["jane"] # 0
         /\ Corrupt => faults'["corrupt"] # 0
<1>1. faults \in [FaultKinds -> Nat]
  BY DEF IInv, TypeOK, RealmTypeOK
<1>2. ASSUME NEW k \in FaultKinds, Strike(k)
      PROVE  faults'[k] # 0 /\ \A j \in FaultKinds : faults'[j] = 0 => faults[j] = 0
  BY <1>1, <1>2 DEF Strike
<1>3. CASE UNCHANGED faults
  <2>1. ~ JaneCrash /\ ~ Corrupt
    <3>1. \A k \in FaultKinds : Strike(k) => faults'[k] # faults[k]
      BY <1>1 DEF Strike
    <3> QED
      BY <1>3, <3>1 DEF JaneCrash, Corrupt, FaultKinds
  <2> QED
    BY <1>3, <2>1
<1>4. ASSUME NEW k \in FaultKinds, Strike(k)
      PROVE  /\ JaneCrash => faults'["jane"] # 0
             /\ Corrupt => faults'["corrupt"] # 0
  BY <1>2 DEF JaneCrash, Corrupt, FaultKinds
<1>5. UNCHANGED faults \/ \E k \in FaultKinds : Strike(k)
  BY DEF Next, JaneMoves, JaneStep, JaneStart, Connect, ConnectRefused, TakeBuffer,
         ReadNothing, ReadBegin, ReadEnd, Hash, Send, SendFails, Rcv, RcvFails, Finish,
         JaneCrash, ThorMoves, ThorStep, ThorStart, Listen, Accept, Receive,
         ReceiveDone, ReceiveFails, Check, Fwrite, Fflush, FlushFails, Search, Reply,
         ReplyFails, ThorCrash, ParseGarbled, Corrupt, Terminated, FaultKinds, vars,
         SocketFails, OutOfSockets, AcceptFails, ListenFails, OutOfConnections,
         realmVars
<1> QED
  BY <1>2, <1>3, <1>4, <1>5

(***************************************************************************)
(* The steps of one process leave the variables of the other alone.        *)
(***************************************************************************)
LEMMA JaneInvStep ==
  IInv /\ [Next]_vars => JaneInv'
<1> SUFFICES ASSUME IInv, [Next]_vars
             PROVE  JaneInv'
  OBVIOUS
<1>t. RealmTypeOK /\ JaneTypeOK /\ JaneInv /\ PoolInv
  BY DEF IInv, TypeOK
<1>n. NoConn \notin thorOpen
  BY <1>t, ConstantFacts DEF RealmTypeOK
<1> USE DEF Holding, Connected
<1>1. CASE JaneStart
  BY <1>n, <1>t, <1>1 DEF JaneStart, JaneInv, realmVars, netVars
<1>2. CASE Connect
  <2>1. /\ jsock' = nconn + 1 /\ nconn < MaxConns /\ jpc' = "top"
        /\ UNCHANGED <<failed, shm_buffer>> /\ jpc = "connect"
    BY <1>2 DEF Connect
  <2>2. jsock' \in Conns
    BY <1>t, <2>1, RealmAssumption DEF RealmTypeOK, Conns
  <2> QED
    BY <1>t, <2>1, <2>2 DEF JaneInv
<1>3. CASE TakeBuffer
  <2>1. shm_buffer' # NULL /\ jpc' \in {"send", "fread"} /\ (failed => jpc' = "send")
    BY <1>t, <1>3, TakeBufferResult DEF TakeBuffer
  <2>2. UNCHANGED <<failed, jsock>> /\ jpc = "top"
    BY <1>3 DEF TakeBuffer
  <2> QED
    BY <1>t, <2>1, <2>2 DEF JaneInv
<1>4. CASE ReadNothing \/ ReadBegin \/ ReadEnd \/ Hash \/ Send \/ Finish
  BY <1>t, <1>4 DEF ReadNothing, ReadBegin, ReadEnd, Hash, Send, Finish, JaneInv
<1>5. CASE Rcv
  <2>1. failed' \in {FALSE, failed}
    BY <1>5, Zenon DEF Rcv
  <2>2. UNCHANGED <<shm_buffer, jsock>> /\ jpc' = "top" /\ jpc = "rcv"
    BY <1>5 DEF Rcv
  <2>3. failed' => shm_buffer' # NULL
    BY <1>t, <2>2 DEF JaneInv
  <2> QED
    BY <1>t, <2>2, <2>3 DEF JaneInv
<1>6. CASE SendFails \/ RcvFails
  <2>1. /\ UNCHANGED <<shm_buffer, jsock, thorOpen>> /\ jpc' = "connect"
        /\ jsock \notin thorOpen /\ jpc \in {"send", "rcv"}
    BY <1>6 DEF SendFails, RcvFails, realmVars, netVars
  <2> QED
    BY <1>t, <2>1 DEF JaneInv
<1>7. CASE JaneCrash
  <2>1. jpc' = "down" /\ ~ failed' /\ jsock' = NoConn
    BY <1>7 DEF JaneCrash
  <2> QED
    BY <2>1 DEF JaneInv
<1>8. CASE UNCHANGED janeVars /\ thorOpen' \subseteq thorOpen
  BY <1>t, <1>8 DEF JaneInv, janeVars
<1>9. CASE OutOfSockets
  BY <1>t, <1>9 DEF OutOfSockets, JaneInv, netVars
<1> QED
  BY <1>1, <1>2, <1>3, <1>4, <1>5, <1>6, <1>7, <1>8, <1>9
     DEF Next, JaneMoves, JaneStep, ConnectRefused, SocketFails, AcceptFails,
         ListenFails, OutOfConnections, ThorMoves, ThorStep, ThorStart,
         Listen, Accept, Receive, ReceiveDone, ReceiveFails, Check, Fwrite, Fflush, FlushFails,
         Search, Reply, ReplyFails, ThorCrash, ParseGarbled, ThorEnds, Corrupt,
         Terminated, vars, janeVars, realmVars, netVars

LEMMA ThorInvStep ==
  IInv /\ [Next]_vars => ThorInv'
<1> SUFFICES ASSUME IInv, [Next]_vars
             PROVE  ThorInv'
  OBVIOUS
<1>t. RealmTypeOK /\ ThorInv /\ ConnInv
  BY DEF IInv, TypeOK
<1> USE DEF Serving
<1>1. CASE UNCHANGED thorVars /\ thorOpen \subseteq thorOpen'
  BY <1>t, <1>1 DEF ThorInv, thorVars
<1>2. CASE ThorStart \/ Listen \/ ListenFails \/ OutOfConnections \/ ReceiveDone
            \/ ReceiveFails \/ ReplyFails
  BY <1>2 DEF ThorStart, Listen, ListenFails, OutOfConnections, ReceiveDone, ReceiveFails, ReplyFails, ThorInv
<1>3. CASE Accept
  <2>1. /\ backlog # <<>> /\ tsock' = Head(backlog) /\ tpc' = "rcv"
        /\ UNCHANGED thorOpen
    BY <1>3 DEF Accept
  <2>2. 1 \in DOMAIN backlog /\ Head(backlog) = backlog[1]
    BY <1>t, <2>1 DEF RealmTypeOK
  <2>3. tsock' \in thorOpen'
    BY <1>t, <2>1, <2>2 DEF ConnInv
  <2> QED
    BY <2>1, <2>3 DEF ThorInv
<1>4. CASE Receive
  BY <1>t, <1>4 DEF Receive, ThorInv
<1>5. CASE Check
  <2>1. /\ tpc = "check" /\ tpc' \in {"flush", "reply"}
        /\ UNCHANGED <<tsock, req, thorOpen>>
    BY <1>5, Zenon DEF Check, realmVars, netVars
  <2> QED
    BY <1>t, <2>1 DEF ThorInv
<1>6. CASE Fwrite \/ Fflush \/ FlushFails
  <2>1. /\ tpc \in {"flush", "fflush"} /\ tpc' \in {"fflush", "search", "reply"}
        /\ UNCHANGED <<tsock, req, thorOpen>>
    BY <1>6 DEF Fwrite, Fflush, FlushFails, realmVars, netVars
  <2> QED
    BY <1>t, <2>1 DEF ThorInv
<1>7. CASE Search
  BY <1>t, <1>7 DEF Search, ThorInv, realmVars, netVars
<1>8. CASE Reply
  <2>1. /\ tpc = "reply" /\ tpc' \in {"accept", "rcv"}
        /\ UNCHANGED <<tsock, thorOpen>>
    BY <1>8, Zenon DEF Reply
  <2> QED
    BY <1>t, <2>1 DEF ThorInv
<1>9. CASE ThorEnds
  BY <1>9 DEF ThorEnds, ThorInv
<1> QED
  BY <1>1, <1>2, <1>3, <1>4, <1>5, <1>6, <1>7, <1>8, <1>9
     DEF Next, JaneMoves, JaneStep, JaneStart, Connect, ConnectRefused, TakeBuffer,
         ReadNothing, ReadBegin, ReadEnd, Hash, Send, SendFails, Rcv, RcvFails, Finish,
         JaneCrash, SocketFails, OutOfSockets, AcceptFails, ThorMoves, ThorStep, ThorCrash, ParseGarbled, Corrupt, Terminated,
         vars, thorVars, realmVars, netVars

(***************************************************************************)
(* The content of Jane's area.                                             *)
(***************************************************************************)
LEMMA AreaInvStep ==
  IInv /\ [Next]_vars => AreaInv'
<1> SUFFICES ASSUME IInv, [Next]_vars, NoFault({"corrupt"})'
             PROVE  /\ jpc' = "fill" => shm'[shm_buffer'] = Torn
                    /\ jpc' = "hash" => shm'[shm_buffer'] = nread'
                    /\ jpc' \in {"send", "rcv"} \/ failed' =>
                         shm'[shm_buffer'] = md5' /\ md5' = nread'
  BY DEF AreaInv
<1>t. RealmTypeOK /\ JaneTypeOK /\ JaneInv /\ PoolInv
  BY DEF IInv, TypeOK
<1>f. NoFault({"corrupt"}) /\ ~ Corrupt
  BY FaultsGrow DEF NoFault, FaultKinds
<1>a. /\ jpc = "fill" => shm[shm_buffer] = Torn
      /\ jpc = "hash" => shm[shm_buffer] = nread
      /\ jpc \in {"send", "rcv"} \/ failed =>
           shm[shm_buffer] = md5 /\ md5 = nread
  BY <1>f DEF IInv, AreaInv
<1>1. CASE JaneStart \/ JaneCrash
  <2>1. jpc' \in {"connect", "down"} /\ ~ failed'
    BY <1>1 DEF JaneStart, JaneCrash
  <2> QED
    BY <2>1
<1>2. CASE Connect
  BY <1>a, <1>2 DEF Connect
<1>3. CASE TakeBuffer
  <2>1. /\ UNCHANGED <<failed, md5, nread, shm>> /\ jpc' \in {"send", "fread"}
        /\ (jpc' = "send" => failed)
    BY <1>3 DEF TakeBuffer, realmVars
  <2>2. failed => shm_buffer = 1
    BY <1>t DEF JaneInv, PoolInv
  <2>3. shm_buffer' = 1
    BY <1>t, <1>3, TakeBufferResult
  <2> QED
    BY <1>a, <2>1, <2>2, <2>3
<1>4. CASE ReadNothing \/ Send \/ Finish \/ OutOfSockets
  BY <1>a, <1>4 DEF ReadNothing, Send, Finish, OutOfSockets, realmVars
<1>5. CASE ReadBegin
  <2>1. /\ jpc = "fread" /\ jpc' = "fill" /\ shm' = [shm EXCEPT ![shm_buffer] = Torn]
        /\ UNCHANGED <<failed, shm_buffer>>
    BY <1>5 DEF ReadBegin
  <2>2. shm_buffer \in Blocks /\ ~ failed
    BY <1>t, <2>1 DEF JaneInv, Holding, JaneTypeOK
  <2> QED
    BY <1>t, <2>1, <2>2 DEF RealmTypeOK
<1>6. CASE ReadEnd
  <2>1. /\ jpc = "fill" /\ jpc' = "hash" /\ nread' = nread + 1
        /\ UNCHANGED <<failed, shm_buffer>>
    BY <1>6 DEF ReadEnd
  <2>2. shm_buffer \in Blocks /\ ~ failed
    BY <1>t, <2>1 DEF JaneInv, Holding, JaneTypeOK
  <2>3. shm' = [shm EXCEPT ![shm_buffer] = nread + 1]
    <3>1. PICK c \in {nread + 1} \cup {v \in {shm[shm_buffer]} : v < 0} :
            shm' = [shm EXCEPT ![shm_buffer] = c]
      BY <1>6 DEF ReadEnd
    <3>2. c = nread + 1
      BY <1>a, <2>1
    <3> QED
      BY <3>1, <3>2
  <2> QED
    BY <1>t, <2>1, <2>2, <2>3 DEF RealmTypeOK
<1>7. CASE Hash
  BY <1>a, <1>t, <1>7 DEF Hash, JaneInv, realmVars, readable_hash
<1>8. CASE SendFails \/ RcvFails
  <2>1. /\ jpc \in {"send", "rcv"} /\ jpc' = "connect"
        /\ UNCHANGED <<shm_buffer, md5, nread, shm>>
    BY <1>8 DEF SendFails, RcvFails, realmVars
  <2> QED
    BY <1>a, <2>1
<1>9. CASE Rcv
  <2>1. /\ jpc = "rcv" /\ jpc' = "top"
        /\ UNCHANGED <<shm_buffer, md5, nread, shm>>
    BY <1>9 DEF Rcv
  <2> QED
    BY <1>a, <2>1
<1>10. CASE UNCHANGED <<janeVars, shm>>
  BY <1>a, <1>10 DEF janeVars
<1> QED
  BY <1>f, <1>1, <1>2, <1>3, <1>4, <1>5, <1>6, <1>7, <1>8, <1>9, <1>10
     DEF Next, JaneMoves, JaneStep, ConnectRefused, SocketFails, AcceptFails,
         ListenFails, OutOfConnections, ThorMoves, ThorStep, ThorStart,
         Listen, Accept, Receive, ReceiveDone, ReceiveFails, Check, Fwrite, Fflush, FlushFails,
         Search, Reply, ReplyFails, ThorCrash, ParseGarbled, ThorEnds, Terminated,
         vars, realmVars

(***************************************************************************)
(* Connections and what is on them.                                        *)
(***************************************************************************)
LEMMA ConnInvStep ==
  IInv /\ [Next]_vars => ConnInv'
<1> SUFFICES ASSUME IInv, [Next]_vars
             PROVE  ConnInv'
  OBVIOUS
<1>t. RealmTypeOK /\ JaneTypeOK /\ JaneInv /\ ThorInv /\ ConnInv
  BY DEF IInv, TypeOK
<1>c. Conns \subseteq Nat \ {0} /\ nconn \in Nat
  BY <1>t, ConstantFacts DEF RealmTypeOK
<1>1. CASE UNCHANGED <<jsock, netVars>>
  BY <1>t, <1>1 DEF ConnInv, netVars
<1>2. CASE JaneStart \/ SendFails \/ RcvFails
  BY <1>t, <1>2 DEF JaneStart, SendFails, RcvFails, ConnInv, realmVars, netVars
<1>3. CASE Connect
  <2>1. /\ jsock' = nconn + 1 /\ nconn' = nconn + 1 /\ nconn < MaxConns
        /\ backlog' = Append(backlog, nconn')
        /\ thorOpen' = thorOpen \cup {nconn'}
        /\ UNCHANGED <<toThor, toJane>>
    BY <1>3 DEF Connect
  <2>2. \A i \in DOMAIN backlog' : backlog'[i] \in thorOpen'
    <3>1. backlog \in Seq(Conns) /\ \A i \in DOMAIN backlog : backlog[i] \in thorOpen
      BY <1>t DEF RealmTypeOK, ConnInv
    <3> QED
      BY <2>1, <3>1
  <2>3. thorOpen' \subseteq 1 .. nconn' /\ jsock' <= nconn'
    BY <1>t, <1>c, <2>1 DEF ConnInv
  <2>4. \A c \in Conns : /\ c \notin thorOpen' => toThor'[c] = <<>>
                         /\ c > nconn' => toJane'[c] = <<>>
    <3>1. \A c \in Conns : /\ c \notin thorOpen' => c \notin thorOpen
                           /\ c > nconn' => c > nconn
      BY <1>c, <2>1
    <3> QED
      BY <1>t, <2>1, <3>1 DEF ConnInv
  <2> QED
    BY <2>2, <2>3, <2>4 DEF ConnInv
<1>4. CASE Send \/ Finish
  <2>1. PICK m : toThor' = Sent(toThor, jsock, m, thorOpen)
    BY <1>4 DEF Send, Finish
  <2>2. /\ UNCHANGED <<jsock, backlog, nconn, thorOpen>>
        /\ toJane' \in {toJane, [c \in Conns |-> <<>>]}
    BY <1>4 DEF Send, Finish
  <2>3. \A c \in Conns : c \notin thorOpen => toThor'[c] = toThor[c]
    BY <1>t, <2>1 DEF Sent, RealmTypeOK
  <2> QED
    BY <1>t, <2>2, <2>3 DEF ConnInv
<1>5. CASE Rcv
  <2>1. /\ toJane[jsock] # <<>> /\ jpc = "rcv"
        /\ toJane' = [toJane EXCEPT ![jsock] = Tail(@)]
        /\ UNCHANGED <<jsock, backlog, nconn, thorOpen, toThor>>
    BY <1>5 DEF Rcv
  <2>2. jsock \in Conns /\ jsock <= nconn
    BY <1>t, <2>1 DEF JaneInv, Connected, Holding, ConnInv
  <2>3. \A c \in Conns : c > nconn => toJane'[c] = toJane[c]
    BY <1>t, <1>c, <2>1, <2>2 DEF RealmTypeOK
  <2> QED
    BY <1>t, <2>1, <2>3 DEF ConnInv
<1>6. CASE JaneCrash
  <2>1. /\ jsock' = NoConn /\ toJane' = [c \in Conns |-> <<>>]
        /\ UNCHANGED <<backlog, nconn, thorOpen, toThor>>
    BY <1>6 DEF JaneCrash
  <2> QED
    BY <1>t, <1>c, <2>1 DEF ConnInv
<1>7. CASE Accept /\ UNCHANGED janeVars
  <2>1. /\ backlog # <<>> /\ backlog' = Tail(backlog)
        /\ UNCHANGED <<jsock, nconn, thorOpen, toThor, toJane>>
    BY <1>7 DEF Accept, janeVars
  <2>2. \A i \in DOMAIN backlog' : i + 1 \in DOMAIN backlog /\ backlog'[i] = backlog[i + 1]
    BY <1>t, <2>1 DEF RealmTypeOK
  <2> QED
    BY <1>t, <2>1, <2>2 DEF ConnInv
<1>8. CASE (Receive \/ ReceiveDone) /\ UNCHANGED janeVars
  <2>1. /\ tpc = "rcv" /\ toThor' = [toThor EXCEPT ![tsock] = Tail(@)]
        /\ UNCHANGED <<jsock, backlog, nconn, thorOpen, toJane>>
    BY <1>8 DEF Receive, ReceiveDone, janeVars
  <2>2. \A c \in Conns : c \notin thorOpen => toThor'[c] = toThor[c]
    BY <1>t, <2>1 DEF ThorInv, RealmTypeOK
  <2> QED
    BY <1>t, <2>1, <2>2 DEF ConnInv
<1>9. CASE Reply /\ UNCHANGED janeVars
  <2>1. /\ tpc = "reply" /\ toJane' = Sent(toJane, tsock, reply, janeOpen)
        /\ UNCHANGED <<jsock, backlog, nconn, thorOpen, toThor>>
    BY <1>9 DEF Reply, janeVars
  <2>2. tsock <= nconn
    <3>1. tsock \in thorOpen /\ thorOpen \subseteq 1 .. nconn
      BY <1>t, <2>1 DEF ThorInv, ConnInv, Serving
    <3> QED
      BY <1>c, <3>1
  <2>3. \A c \in Conns : c > nconn => toJane'[c] = toJane[c]
    BY <1>t, <1>c, <2>1, <2>2 DEF Sent, RealmTypeOK
  <2> QED
    BY <1>t, <2>1, <2>3 DEF ConnInv
<1>10. CASE ThorEnds /\ UNCHANGED janeVars
  <2>1. /\ backlog' = <<>> /\ thorOpen' = {} /\ toThor' = [c \in Conns |-> <<>>]
        /\ UNCHANGED <<jsock, nconn, toJane>>
    BY <1>10 DEF ThorEnds, janeVars
  <2> QED
    BY <1>t, <2>1 DEF ConnInv
<1>11. CASE Listen /\ UNCHANGED janeVars
  BY <1>t, <1>11 DEF Listen, ConnInv, janeVars
<1> QED
  BY <1>1, <1>2, <1>3, <1>4, <1>5, <1>6, <1>7, <1>8, <1>9, <1>10, <1>11
     DEF Next, JaneMoves, JaneStep, ConnectRefused, SocketFails, OutOfSockets,
         AcceptFails, ListenFails, OutOfConnections, TakeBuffer, ReadNothing, ReadBegin,
         ReadEnd, Hash, ThorMoves, ThorStep, ThorStart, ReceiveFails, Check, Fwrite, Fflush,
         FlushFails, Search, ReplyFails, ThorCrash, ParseGarbled, Corrupt, Terminated,
         vars, janeVars, realmVars, netVars

LEMMA WireInvStep ==
  IInv /\ [Next]_vars => WireInv'
<1> SUFFICES ASSUME IInv, [Next]_vars
             PROVE  WireInv'
  OBVIOUS
<1>t. /\ RealmTypeOK /\ JaneTypeOK /\ ThorTypeOK
      /\ JaneInv /\ ThorInv /\ ConnInv /\ WireInv
  BY DEF IInv, TypeOK
<1>c. Conns \subseteq Nat \ {0} /\ nconn \in Nat
  BY <1>t, ConstantFacts DEF RealmTypeOK
<1>q. /\ toThor \in [Conns -> Seq(Text)]
      /\ toJane \in [Conns -> Seq(Text)]
      /\ jpc \in Connected => jsock \in Conns
      /\ tpc \in {"rcv"} \cup Serving => tsock \in Conns
  BY <1>t DEF RealmTypeOK, JaneInv, ThorInv
<1> USE DEF Quiet, Busy
<1>1. CASE JaneStart \/ SendFails \/ RcvFails \/ JaneCrash \/ OutOfSockets
  <2>1. jpc' \in {"connect", "starved", "down"}
    BY <1>1 DEF JaneStart, SendFails, RcvFails, JaneCrash, OutOfSockets
  <2> QED
    BY <2>1 DEF WireInv
<1>2. CASE Connect /\ UNCHANGED thorVars
  <2>1. /\ jsock' = nconn + 1 /\ nconn < MaxConns /\ jpc' = "top"
        /\ UNCHANGED <<toThor, toJane, tpc, tsock>>
    BY <1>2 DEF Connect, thorVars
  <2>2. jsock' \in Conns /\ jsock' \notin thorOpen /\ jsock' > nconn
    BY <1>t, <1>c, <2>1, RealmAssumption DEF ConnInv, Conns
  <2>3. toThor[jsock'] = <<>> /\ toJane[jsock'] = <<>>
    BY <1>t, <2>2 DEF ConnInv
  <2>4. tpc \in Serving => tsock # jsock'
    BY <1>t, <2>2 DEF ThorInv
  <2> QED
    BY <2>1, <2>3, <2>4 DEF WireInv
<1>3. CASE /\ jpc \in Quiet /\ jpc' \in Quiet
           /\ UNCHANGED <<jsock, toThor, toJane, tpc, tsock>>
  BY <1>t, <1>3 DEF WireInv
<1>4. CASE Send /\ UNCHANGED thorVars
  <2>1. /\ jpc = "send" /\ jpc' = "rcv" /\ UNCHANGED <<jsock, toJane, tpc, tsock>>
        /\ toThor' = Sent(toThor, jsock, Request(get_offset(shm_buffer), md5), thorOpen)
    BY <1>4 DEF Send, thorVars
  <2>2. /\ jsock \in Conns /\ toThor[jsock] = <<>> /\ toJane[jsock] = <<>> /\ ~ Busy
    BY <1>t, <1>q, <2>1 DEF WireInv, Connected, Holding
  <2>3. Len(toThor'[jsock]) <= 1
    BY <1>q, <2>1, <2>2 DEF Sent
  <2> QED
    BY <2>1, <2>2, <2>3 DEF WireInv
<1>5. CASE Rcv /\ UNCHANGED thorVars
  <2>1. /\ jpc = "rcv" /\ jpc' = "top" /\ toJane[jsock] # <<>>
        /\ toJane' = [toJane EXCEPT ![jsock] = Tail(@)]
        /\ UNCHANGED <<jsock, toThor, tpc, tsock>>
    BY <1>5 DEF Rcv, thorVars
  <2>2. jsock \in Conns /\ ~ Busy /\ Len(toThor[jsock]) + Len(toJane[jsock]) <= 1
    BY <1>t, <1>q, <2>1 DEF WireInv, Connected, Holding
  <2>3. toThor[jsock] = <<>> /\ Tail(toJane[jsock]) = <<>>
    BY <1>q, <2>1, <2>2
  <2> QED
    BY <1>q, <2>1, <2>2, <2>3 DEF WireInv
<1>6. CASE Finish /\ UNCHANGED thorVars
  <2>1. /\ jpc = "done" /\ jpc' = "closed"
        /\ toThor' = Sent(toThor, jsock, Done, thorOpen)
        /\ UNCHANGED <<jsock, tpc, tsock>>
    BY <1>6 DEF Finish, thorVars
  <2>2. jsock \in Conns /\ ~ Busy /\ toThor[jsock] = <<>>
    BY <1>t, <1>q, <2>1 DEF WireInv, Connected, Holding
  <2>3. toThor'[jsock] \in {<<>>, <<Done>>}
    BY <1>q, <2>1, <2>2 DEF Sent
  <2>4. \A i \in DOMAIN toThor'[jsock] : toThor'[jsock][i] = Done
    BY <2>3
  <2> QED
    BY <2>1, <2>2, <2>4 DEF WireInv
<1>7. CASE /\ UNCHANGED <<jpc, jsock, toThor, toJane, tsock>>
           /\ tpc' \in Serving => tpc \in Serving
  BY <1>t, <1>7 DEF WireInv
<1>8. CASE Accept /\ UNCHANGED janeVars
  BY <1>t, <1>8 DEF Accept, WireInv, janeVars, Serving
<1>9. CASE (Receive \/ ReceiveDone) /\ UNCHANGED janeVars
  <2>1. /\ tpc = "rcv" /\ toThor[tsock] # <<>>
        /\ toThor' = [toThor EXCEPT ![tsock] = Tail(@)]
        /\ UNCHANGED <<jpc, jsock, toJane, tsock>>
        /\ Head(toThor[tsock]) = Done => tpc' = "accept"
    BY <1>9 DEF Receive, ReceiveDone, janeVars
  <2>2. tsock \in Conns /\ ~ Busy
    BY <1>q, <2>1 DEF Serving
  <2>3. CASE tsock # jsock
    <3>1. toThor'[jsock] = toThor[jsock] /\ ~ Busy'
      BY <1>q, <2>1, <2>2, <2>3
    <3> QED
      BY <1>t, <2>1, <2>2, <3>1 DEF WireInv
  <2>4. CASE tsock = jsock
    <3>1. toThor'[jsock] = Tail(toThor[jsock]) /\ toThor[jsock] \in Seq(Text)
      BY <1>q, <2>1, <2>2, <2>4
    <3>2. jpc \notin Quiet
      BY <1>t, <2>1, <2>4 DEF WireInv
    <3>3. CASE jpc = "rcv"
      <4>1. toThor'[jsock] = <<>> /\ toJane[jsock] = <<>>
        BY <1>t, <1>q, <2>1, <2>2, <2>4, <3>1, <3>3 DEF WireInv
      <4>2. Len(toThor'[jsock]) + Len(toJane[jsock]) <= 1
        BY <4>1
      <4> QED
        BY <2>1, <3>3, <4>1, <4>2 DEF WireInv
    <3>4. CASE jpc = "closed"
      <4>1. \A i \in DOMAIN toThor[jsock] : toThor[jsock][i] = Done
        BY <1>t, <3>4 DEF WireInv
      <4>2. Head(toThor[jsock]) = Done
        BY <2>1, <2>4, <3>1, <4>1
      <4>3. \A i \in DOMAIN toThor'[jsock] : toThor'[jsock][i] = Done
        BY <2>1, <2>4, <3>1, <4>1
      <4> QED
        BY <2>1, <2>4, <3>4, <4>2, <4>3 DEF WireInv, Serving
    <3> QED
      BY <2>1, <3>2, <3>3, <3>4 DEF WireInv
  <2> QED
    BY <2>3, <2>4
<1>10. CASE Reply /\ UNCHANGED janeVars
  <2>1. /\ tpc = "reply" /\ tpc' \notin Serving
        /\ toJane' = Sent(toJane, tsock, reply, janeOpen)
        /\ UNCHANGED <<jpc, jsock, toThor, tsock>>
    <3>1. tpc' \in {"accept", "rcv"}
      BY <1>10, Zenon DEF Reply
    <3> QED
      BY <1>10, <3>1 DEF Reply, janeVars, Serving
  <2>2. tsock \in Conns
    BY <1>q, <2>1 DEF Serving
  <2>3. CASE tsock # jsock
    <3>1. toJane'[jsock] = toJane[jsock] \/ jsock \notin Conns
      BY <1>q, <2>1, <2>2, <2>3 DEF Sent
    <3>2. jpc \in Quiet \cup {"rcv"} => jsock \in Conns
      BY <1>q DEF Connected, Holding
    <3> QED
      BY <1>t, <2>1, <3>1, <3>2 DEF WireInv
  <2>4. CASE tsock = jsock
    <3>1. Busy
      BY <2>1, <2>4 DEF Serving
    <3>2. jpc \notin Quiet /\ jpc # "closed"
      BY <1>t, <3>1 DEF WireInv
    <3>3. jpc = "rcv" => Len(toThor[jsock]) + Len(toJane'[jsock]) <= 1
      <4> SUFFICES ASSUME jpc = "rcv"
                   PROVE  Len(toThor[jsock]) + Len(toJane'[jsock]) <= 1
        OBVIOUS
      <4>2. toThor[jsock] = <<>> /\ toJane[jsock] = <<>>
        BY <1>t, <3>1 DEF WireInv
      <4>3. toJane'[jsock] = <<>> \/ toJane'[jsock] = <<reply>>
        BY <1>q, <2>1, <2>2, <2>4, <4>2 DEF Sent
      <4>4. Len(<<>>) = 0 /\ Len(<<reply>>) = 1
        OBVIOUS
      <4>5. CASE toJane'[jsock] = <<>>
        BY <4>2, <4>4, <4>5
      <4>6. CASE toJane'[jsock] = <<reply>>
        BY <4>2, <4>4, <4>6
      <4> QED
        BY <4>3, <4>5, <4>6
    <3> QED
      BY <2>1, <3>2, <3>3 DEF WireInv
  <2> QED
    BY <2>3, <2>4
<1>11. CASE ThorEnds /\ UNCHANGED janeVars
  <2>1. /\ tpc' = "down" /\ toThor' = [c \in Conns |-> <<>>]
        /\ UNCHANGED <<jpc, jsock, toJane>>
    BY <1>11 DEF ThorEnds, janeVars
  <2>2. ~ Busy'
    BY <2>1 DEF Serving
  <2>3. jpc \in Connected => toThor'[jsock] = <<>>
    BY <1>q, <2>1
  <2> QED
    BY <1>t, <1>q, <2>1, <2>2, <2>3 DEF WireInv, Connected, Holding
<1>12. JaneStep /\ UNCHANGED thorVars => WireInv'
  BY <1>1, <1>2, <1>3, <1>4, <1>5, <1>6, <1>7
     DEF JaneStep, ConnectRefused, SocketFails, TakeBuffer, ReadNothing, ReadBegin, ReadEnd, Hash,
         janeVars, thorVars, realmVars, netVars
<1>13. (ThorStep \/ FlushFails \/ ListenFails \/ OutOfConnections) /\ UNCHANGED janeVars => WireInv'
  <2>1. (ThorStart \/ Listen \/ ListenFails \/ OutOfConnections \/ AcceptFails
         \/ ReceiveFails \/ ReplyFails) /\ UNCHANGED janeVars => WireInv'
    BY <1>7 DEF ThorStart, Listen, ListenFails, OutOfConnections, AcceptFails,
                ReceiveFails, ReplyFails, thorVars, Serving, janeVars,
                realmVars, netVars
  <2>2. (Fwrite \/ Fflush \/ FlushFails \/ Search) /\ UNCHANGED janeVars => WireInv'
    BY <1>7 DEF Fwrite, Fflush, FlushFails, Search, Serving, janeVars, realmVars, netVars
  <2>3. Check /\ UNCHANGED janeVars => WireInv'
    BY <1>7 DEF Check, Serving, janeVars, realmVars, netVars
  <2> QED
    BY <1>8, <1>9, <1>10, <2>1, <2>2, <2>3 DEF ThorStep
<1> QED
  BY <1>1, <1>7, <1>11, <1>12, <1>13
     DEF Next, JaneMoves, ThorMoves, ThorCrash, ParseGarbled, Corrupt, Terminated,
         vars, janeVars, thorVars, realmVars, netVars

(***************************************************************************)
(* Which request is under way.  While Jane is quiet and never killed, Thor *)
(* is not at work.                                                         *)
(***************************************************************************)
LEMMA RequestInvStep ==
  IInv /\ [Next]_vars => RequestInv'
<1> DEFINE R == Request(get_offset(shm_buffer), md5)
<1> SUFFICES ASSUME IInv, [Next]_vars, NoFault({"jane"})'
             PROVE  /\ \A c \in Conns : c # jsock' => toThor'[c] = <<>>
                    /\ tpc' \in Serving => tsock' = jsock'
                    /\ jpc' = "rcv" => \A i \in DOMAIN toThor'[jsock'] :
                                         toThor'[jsock'][i] = R'
                    /\ tpc' \in {"check", "flush", "fflush", "search"} => req' = R'
  BY DEF RequestInv
<1>t. /\ RealmTypeOK /\ JaneTypeOK /\ JaneInv /\ ThorInv /\ ConnInv /\ WireInv
  BY DEF IInv, TypeOK
<1>f. NoFault({"jane"}) /\ ~ JaneCrash
  BY FaultsGrow DEF NoFault, FaultKinds
<1>r. /\ \A c \in Conns : c # jsock => toThor[c] = <<>>
      /\ tpc \in Serving => tsock = jsock
      /\ jpc = "rcv" => \A i \in DOMAIN toThor[jsock] : toThor[jsock][i] = R
      /\ tpc \in {"check", "flush", "fflush", "search"} => req = R
  BY <1>f DEF IInv, RequestInv
<1>q. /\ toThor \in [Conns -> Seq(Text)]
      /\ jpc \in Connected => jsock \in Conns
      /\ tpc \in {"rcv"} \cup Serving => tsock \in Conns
      /\ NoConn \notin Conns
      /\ {"check", "flush", "fflush", "search"} \subseteq Serving
  BY <1>t, ConstantFacts DEF RealmTypeOK, JaneInv, ThorInv, Serving
<1>s. jpc \in Quiet \cup {"down", "connect", "starved"} => tpc \notin Serving
  <2>1. jpc \in Quiet => tpc \notin Serving
    BY <1>t, <1>r DEF WireInv, Busy
  <2>2. jpc = "down" => tpc \notin Serving
    BY <1>t, <1>r, <1>q DEF JaneInv
  <2>3. jpc \in {"connect", "starved"} => tpc \notin Serving
    BY <1>t, <1>r DEF JaneInv, ThorInv
  <2> QED
    BY <2>1, <2>2, <2>3
<1> HIDE DEF R
<1>1. CASE JaneStart /\ UNCHANGED thorVars
  <2>1. /\ jpc = "down" /\ jpc' = "connect"
        /\ UNCHANGED <<jsock, toThor, tpc, tsock>>
    BY <1>1 DEF JaneStart, thorVars, realmVars, netVars
  <2> QED
    BY <1>r, <1>s, <1>q, <2>1
<1>2. CASE Connect /\ UNCHANGED thorVars
  <2>1. /\ jpc = "connect" /\ jpc' = "top" /\ UNCHANGED <<toThor, tpc, tsock>>
    BY <1>2 DEF Connect, thorVars
  <2>2. \A c \in Conns : toThor[c] = <<>>
    BY <1>t, <1>r, <2>1 DEF JaneInv, ConnInv
  <2> QED
    BY <1>s, <1>q, <2>1, <2>2
<1>3. CASE /\ TakeBuffer \/ ReadNothing \/ ReadBegin \/ ReadEnd \/ Hash
           /\ UNCHANGED thorVars
  <2>1. /\ jpc \in Quiet /\ jpc' # "rcv" /\ UNCHANGED <<jsock, toThor, tpc, tsock>>
    BY <1>3 DEF TakeBuffer, ReadNothing, ReadBegin, ReadEnd, Hash, Quiet, thorVars,
                realmVars, netVars
  <2> QED
    BY <1>r, <1>s, <1>q, <2>1
<1>4. CASE Send /\ UNCHANGED thorVars
  <2>1. /\ jpc = "send" /\ UNCHANGED <<jsock, shm_buffer, md5, tpc, tsock>>
        /\ toThor' = Sent(toThor, jsock, R, thorOpen)
    BY <1>4 DEF Send, thorVars, R
  <2>2. R' = R
    BY <2>1 DEF R
  <2>3. jsock \in Conns /\ toThor[jsock] = <<>> /\ tpc \notin Serving
    BY <1>t, <1>q, <1>s, <2>1 DEF WireInv, Quiet, Connected, Holding
  <2>4. toThor'[jsock] \in {<<>>, <<R>>}
    BY <1>q, <2>1, <2>3 DEF Sent
  <2>5. \A i \in DOMAIN toThor'[jsock] : toThor'[jsock][i] = R
    BY <2>4
  <2>6. \A c \in Conns : c # jsock => toThor'[c] = <<>>
    BY <1>r, <1>q, <2>1, <2>3 DEF Sent
  <2> QED
    BY <1>q, <2>1, <2>2, <2>3, <2>5, <2>6
<1>5. CASE (SendFails \/ RcvFails \/ Rcv) /\ UNCHANGED thorVars
  <2>1. /\ jpc' # "rcv"
        /\ UNCHANGED <<jsock, toThor, shm_buffer, md5, tpc, tsock, req>>
    BY <1>5 DEF SendFails, RcvFails, Rcv, thorVars, realmVars, netVars
  <2>2. R' = R
    BY <2>1 DEF R
  <2> QED
    BY <1>r, <2>1, <2>2
<1>6. CASE Finish /\ UNCHANGED thorVars
  <2>1. /\ jpc = "done" /\ jpc' = "closed" /\ UNCHANGED <<jsock, tpc, tsock>>
        /\ toThor' = Sent(toThor, jsock, Done, thorOpen)
    BY <1>6 DEF Finish, thorVars
  <2>2. jsock \in Conns /\ tpc \notin Serving
    BY <1>q, <1>s, <2>1 DEF Quiet, Connected, Holding
  <2>3. \A c \in Conns : c # jsock => toThor'[c] = <<>>
    BY <1>r, <1>q, <2>1, <2>2 DEF Sent
  <2> QED
    BY <1>q, <2>1, <2>2, <2>3
<1>7. CASE /\ UNCHANGED <<jpc, jsock, toThor, shm_buffer, md5>>
           /\ tpc' \in Serving => UNCHANGED tsock /\ tpc \in Serving
           /\ tpc' \in {"check", "flush", "fflush", "search"} =>
                UNCHANGED req /\ tpc \in {"check", "flush", "fflush", "search"}
  <2>1. R' = R
    BY <1>7 DEF R
  <2> QED
    BY <1>r, <1>7, <2>1
<1>8. CASE Receive /\ UNCHANGED janeVars
  <2>1. /\ tpc = "rcv" /\ toThor[tsock] # <<>> /\ Head(toThor[tsock]) # Done
        /\ req' = Head(toThor[tsock]) /\ toThor' = [toThor EXCEPT ![tsock] = Tail(@)]
        /\ UNCHANGED <<jpc, jsock, shm_buffer, md5, tsock>>
    BY <1>8 DEF Receive, janeVars
  <2>2. R' = R
    BY <2>1 DEF R
  <2>3. tsock \in Conns /\ tsock = jsock
    BY <1>r, <1>q, <2>1
  <2>4. toThor[jsock] \in Seq(Text) /\ Head(toThor[jsock]) = toThor[jsock][1]
        /\ 1 \in DOMAIN toThor[jsock]
    BY <1>q, <2>1, <2>3
  <2>5. jpc = "rcv"
    <3>1. jpc \notin Quiet
      BY <1>t, <2>1, <2>3 DEF WireInv
    <3>2. jpc # "closed"
      BY <1>t, <2>1, <2>3, <2>4 DEF WireInv
    <3>3. jpc # "connect" /\ jpc # "starved" /\ jpc # "down"
      BY <1>t, <1>q, <2>1, <2>3 DEF JaneInv, ThorInv
    <3> QED
      BY <1>t, <3>1, <3>2, <3>3 DEF JaneTypeOK, JanePlaces, Quiet
  <2>6. req' = R
    BY <1>r, <2>1, <2>3, <2>4, <2>5
  <2>7. toThor'[jsock] = Tail(toThor[jsock])
    BY <1>q, <2>1, <2>3
  <2>8. \A i \in DOMAIN toThor'[jsock] : toThor'[jsock][i] = R
    BY <1>r, <2>1, <2>3, <2>4, <2>5, <2>7
  <2>9. \A c \in Conns : c # jsock => toThor'[c] = <<>>
    BY <1>r, <1>q, <2>1, <2>3
  <2> QED
    BY <2>1, <2>2, <2>3, <2>6, <2>8, <2>9
<1>9. CASE ReceiveDone /\ UNCHANGED janeVars
  <2>1. /\ tpc = "rcv" /\ toThor[tsock] # <<>> /\ tpc' = "accept"
        /\ toThor' = [toThor EXCEPT ![tsock] = Tail(@)]
        /\ UNCHANGED <<jpc, jsock, shm_buffer, md5, tsock>>
    BY <1>9 DEF ReceiveDone, janeVars
  <2>2. R' = R
    BY <2>1 DEF R
  <2>3. tsock \in Conns /\ tsock = jsock /\ toThor[jsock] \in Seq(Text)
    BY <1>r, <1>q, <2>1
  <2>4. toThor'[jsock] = Tail(toThor[jsock])
    BY <1>q, <2>1, <2>3
  <2>5. jpc = "rcv" => \A i \in DOMAIN toThor'[jsock] : toThor'[jsock][i] = R
    BY <1>r, <2>1, <2>3, <2>4
  <2>6. \A c \in Conns : c # jsock => toThor'[c] = <<>>
    BY <1>r, <1>q, <2>1, <2>3
  <2> QED
    BY <2>1, <2>2, <2>5, <2>6 DEF Serving
<1>10. CASE ThorEnds /\ UNCHANGED janeVars
  <2>1. /\ tpc' = "down" /\ toThor' = [c \in Conns |-> <<>>]
        /\ UNCHANGED <<jpc, jsock>>
    BY <1>10 DEF ThorEnds, janeVars
  <2>2. jpc = "rcv" => toThor'[jsock] = <<>>
    BY <1>q, <2>1 DEF Connected, Holding
  <2> QED
    BY <2>1, <2>2 DEF Serving
<1>11. JaneStep /\ UNCHANGED thorVars =>
         \/ (JaneStart \/ Connect \/ Send \/ SendFails \/ RcvFails \/ Rcv \/ Finish)
            /\ UNCHANGED thorVars
         \/ (TakeBuffer \/ ReadNothing \/ ReadBegin \/ ReadEnd \/ Hash)
            /\ UNCHANGED thorVars
         \/ UNCHANGED vars \/ UNCHANGED <<janeVars, thorVars, realmVars>>
  BY DEF JaneStep, ConnectRefused, SocketFails
<1>12. UNCHANGED <<janeVars, thorVars, netVars>> =>
         /\ UNCHANGED <<jpc, jsock, toThor, shm_buffer, md5>>
         /\ tpc' \in Serving => UNCHANGED tsock /\ tpc \in Serving
         /\ tpc' \in {"check", "flush", "fflush", "search"} =>
              UNCHANGED req /\ tpc \in {"check", "flush", "fflush", "search"}
  BY DEF janeVars, thorVars, netVars
<1>13. (ThorStart \/ Listen \/ ListenFails \/ OutOfConnections \/ AcceptFails \/ Accept \/ ReceiveFails \/ Fwrite \/ Fflush \/ FlushFails \/ Search
         \/ ReplyFails) /\ UNCHANGED janeVars =>
         /\ UNCHANGED <<jpc, jsock, toThor, shm_buffer, md5>>
         /\ tpc' \in Serving => UNCHANGED tsock /\ tpc \in Serving
         /\ tpc' \in {"check", "flush", "fflush", "search"} =>
              UNCHANGED req /\ tpc \in {"check", "flush", "fflush", "search"}
  BY DEF ThorStart, Listen, ListenFails, OutOfConnections, AcceptFails, thorVars, Accept, ReceiveFails, Fwrite, Fflush, FlushFails, Search, ReplyFails,
         Serving, janeVars, realmVars, netVars
<1>14. (Check \/ Reply) /\ UNCHANGED janeVars =>
         /\ UNCHANGED <<jpc, jsock, toThor, shm_buffer, md5>>
         /\ tpc' \in Serving => UNCHANGED tsock /\ tpc \in Serving
         /\ tpc' \in {"check", "flush", "fflush", "search"} =>
              UNCHANGED req /\ tpc \in {"check", "flush", "fflush", "search"}
  <2>1. Check => tpc' \in {"flush", "reply"} /\ tpc = "check" /\ UNCHANGED <<tsock, req>>
    BY Zenon DEF Check
  <2>2. Reply => tpc' \in {"accept", "rcv"}
    BY Zenon DEF Reply
  <2>3. Check \/ Reply => UNCHANGED toThor
    BY DEF Check, Reply, realmVars, netVars
  <2> QED
    BY <2>1, <2>2, <2>3 DEF Serving, janeVars
<1>15. OutOfSockets /\ UNCHANGED thorVars =>
         jpc' \notin {"rcv"} /\ UNCHANGED <<jsock, toThor, tpc, tsock>> /\ tpc \notin Serving
  BY <1>s DEF OutOfSockets, thorVars, netVars
<1> QED
  BY <1>f, <1>q, <1>r, <1>15, <1>1, <1>2, <1>3, <1>4, <1>5, <1>6, <1>7, <1>8, <1>9, <1>10, <1>11, <1>12,
     <1>13, <1>14
     DEF Next, JaneMoves, ThorMoves, ThorStep, ThorCrash, ParseGarbled, Corrupt,
         Terminated, vars, realmVars

-----------------------------------------------------------------------------
LEMMA IInvInit ==
  Init => IInv
<1> SUFFICES ASSUME Init
             PROVE  IInv
  OBVIOUS
<1>b. failed \in BOOLEAN /\ listening \in BOOLEAN /\ thor_errno \in BOOLEAN
  BY Zenon DEF Init, RealmInit, JaneInit, ThorInit
<1>r. /\ shm = [b \in Blocks |-> Torn]
      /\ faults = [k \in FaultKinds |-> 0]
      /\ backlog = <<>> /\ nconn = 0 /\ janeOpen = {} /\ thorOpen = {}
      /\ toThor = [c \in Conns |-> <<>>]
      /\ toJane = [c \in Conns |-> <<>>]
  BY DEF Init, RealmInit
<1>j. /\ jpc = "down" /\ ~ failed /\ shm_buffer = NULL /\ md5 = Torn
      /\ nread = 0 /\ jsock = NoConn /\ pool = free_pool_init
  BY DEF Init, JaneInit
<1>h. /\ tpc = "down" /\ tsock = NoConn /\ req = <<>> /\ reply = <<>>
      /\ part = Torn /\ scanned = <<>> /\ output = <<>>
  BY DEF Init, ThorInit, NoRequest
<1>q. \A S : <<>> \in Seq(S)
  OBVIOUS
<1>1. RealmTypeOK
  <2>1. shm \in [Blocks -> Content]
    BY <1>r, ConstantFacts
  <2>2. /\ faults \in [FaultKinds -> Nat]
        /\ \A k \in FaultKinds : faults[k] <= MaxFaults[k]
    BY <1>r, RealmAssumption
  <2>3. nconn \in 0 .. MaxConns
    BY <1>r, RealmAssumption
  <2>4. toThor \in [Conns -> Seq(Text)] /\ toJane \in [Conns -> Seq(Text)]
    BY <1>r, <1>q
  <2> QED
    BY <1>b, <1>r, <1>q, <2>1, <2>2, <2>3, <2>4 DEF RealmTypeOK
<1>2. JaneTypeOK /\ PoolInv
  <2>1. nread \in 0 .. NChunks /\ md5 \in Content
    BY <1>j, ConstantFacts
  <2> QED
    BY <1>b, <1>j, <2>1, FreshPools DEF JaneTypeOK, PoolInv, JanePlaces
<1>3. ThorTypeOK
  <2>1. <<>> \in Text
    BY DEF Text
  <2> QED
    BY <1>b, <1>h, <1>q, <2>1, ConstantFacts DEF ThorTypeOK, ThorPlaces
<1>4. window \in BOOLEAN
  BY Zenon DEF Init
<1>5. JaneInv /\ ThorInv /\ AreaInv
  BY <1>j, <1>h DEF JaneInv, ThorInv, AreaInv, Holding, Connected, Serving
<1>6. ConnInv
  BY <1>r, <1>j DEF ConnInv
<1>7. WireInv /\ RequestInv
  BY <1>r, <1>j, <1>h DEF WireInv, RequestInv, Quiet, Busy, Serving
<1> QED
  BY <1>1, <1>2, <1>3, <1>4, <1>5, <1>6, <1>7 DEF IInv, TypeOK

LEMMA IInvStep ==
  IInv /\ [Next]_vars => IInv'
<1> SUFFICES ASSUME IInv, [Next]_vars
             PROVE  IInv'
  OBVIOUS
<1>1. TypeOK'
  BY BooleanTypeStep, JaneTypeStep, ThorTypeStep, RealmTypeStep DEF TypeOK
<1>2. PoolInv' /\ JaneInv' /\ ThorInv' /\ AreaInv'
  BY JaneTypeStep, JaneInvStep, ThorInvStep, AreaInvStep
<1>3. ConnInv' /\ WireInv' /\ RequestInv'
  BY ConnInvStep, WireInvStep, RequestInvStep
<1> QED
  BY <1>1, <1>2, <1>3 DEF IInv

(***************************************************************************)
(* The invariant holds in every reachable state, whatever the faults.      *)
(***************************************************************************)
THEOREM Invariance ==
  Spec => []IInv
BY IInvInit, IInvStep, PTL DEF Spec

(***************************************************************************)
(* Type correctness.                                                       *)
(***************************************************************************)
THEOREM TypeCorrect ==
  Spec => []TypeOK
<1>1. IInv => TypeOK
  BY DEF IInv
<1> QED
  BY <1>1, Invariance, PTL

(***************************************************************************)
(* The allocator hands Jane the same area in every round, and neither of   *)
(* its assertions fails: for every pool size and every size of an area.    *)
(***************************************************************************)
THEOREM SameArea ==
  Spec => []SameAreaEveryRound
<1>1. IInv => SameAreaEveryRound
  <2> SUFFICES ASSUME IInv, shm_buffer # NULL
               PROVE  /\ binarySearch(pool.busy, shm_buffer) # -1
                      /\ AllocRoot(shm_dealloc(pool, UseBuffers, shm_buffer), UseBuffers)
                           = shm_buffer
    BY DEF SameAreaEveryRound
  <2>1. shm_buffer = 1 /\ pool = OneArea(UseBuffers)
    BY DEF IInv, PoolInv
  <2> QED
    BY <2>1, ConstantFacts, AllocFromFresh, DeallocRestores
<1> QED
  BY <1>1, Invariance, PTL

(***************************************************************************)
(* What Jane sends, for the first time or again, is the hash of what the   *)
(* area holds.                                                             *)
(***************************************************************************)
THEOREM RetryIsSound ==
  Spec => []RetryKeepsBuffer
<1>1. IInv => RetryKeepsBuffer
  BY DEF IInv, AreaInv, RetryKeepsBuffer
<1> QED
  BY <1>1, Invariance, PTL

\* While Thor serves a request of her connection, Jane waits for the reply.
LEMMA JaneWaits ==
  IInv => NoConcurrentUse
<1> SUFFICES ASSUME IInv, Busy
             PROVE  jpc = "rcv"
  BY DEF NoConcurrentUse, Busy
<1>1. JaneTypeOK /\ JaneInv /\ WireInv /\ RealmTypeOK /\ tsock \in thorOpen /\ tsock = jsock
  BY DEF IInv, TypeOK, ThorInv, Busy
<1>2. jpc \notin Quiet /\ jpc # "closed" /\ jpc # "connect" /\ jpc # "starved"
  BY <1>1 DEF WireInv, JaneInv
<1>3. jpc # "down"
  BY <1>1, ConstantFacts DEF JaneInv, RealmTypeOK
<1> QED
  BY <1>1, <1>2, <1>3 DEF JaneTypeOK, JanePlaces, Quiet

(***************************************************************************)
(* Jane leaves the area alone while Thor works on it.                      *)
(***************************************************************************)
THEOREM OneAtATime ==
  Spec => []NoConcurrentUse
BY JaneWaits, Invariance, PTL

(***************************************************************************)
(* Every look Thor takes at the area sees what the request's hash was      *)
(* taken of, as long as Jane is not killed and nobody else writes to it.   *)
(***************************************************************************)
THEOREM ReadsAreWhole ==
  Spec => []NoTornRead
<1>1. IInv => NoTornRead
  <2> SUFFICES ASSUME IInv, NoFault({"jane", "corrupt"}), tpc \in {"flush", "fflush", "search"}
               PROVE  does_string_intact(data, parse_data(req).md5)
    BY DEF NoTornRead
  <2>1. tsock = jsock /\ req = Request(get_offset(shm_buffer), md5) /\ tpc \in Serving
    BY DEF IInv, RequestInv, NoFault, Serving
  <2>2. jpc = "rcv"
    BY <2>1, JaneWaits DEF NoConcurrentUse
  <2>3. shm[shm_buffer] = md5
    BY <2>2 DEF IInv, AreaInv, NoFault
  <2>4. shm_buffer \in Blocks /\ md5 \in Content
    BY <2>2 DEF IInv, TypeOK, JaneTypeOK, JaneInv, Holding
  <2>5. data = shm_buffer /\ parse_data(req).md5 = md5
    BY <2>1, <2>4, RequestFields DEF data
  <2> QED
    BY <2>3, <2>5 DEF does_string_intact, readable_hash
<1> QED
  BY <1>1, Invariance, PTL

-----------------------------------------------------------------------------
\* Each nibble has a digit of its own: table never uses one twice.
LEMMA TableInjective ==
  ASSUME NEW m \in 0 .. 15, NEW n \in 0 .. 15, table(m) = table(n)
  PROVE  m = n
BY DEF table

\* A byte is made of its two nibbles.
LEMMA Nibbles ==
  ASSUME NEW x \in Bytes
  PROVE  /\ x \div 16 \in 0 .. 15
         /\ x % 16 \in 0 .. 15
         /\ x = 16 * (x \div 16) + (x % 16)
BY DEF Bytes

(***************************************************************************)
(* Two hashes with the same text are the same hash, so that the strcmp of  *)
(* does_string_intact tells just what a comparison of the hashes tells.    *)
(***************************************************************************)
THEOREM ReadableHashInjective ==
  ASSUME NEW a \in Seq(Bytes), NEW b \in Seq(Bytes), toDec(a) = toDec(b)
  PROVE  a = b
<1>1. Len(a) = Len(b)
  <2>1. DOMAIN toDec(a) = 1 .. 2 * Len(a) /\ DOMAIN toDec(b) = 1 .. 2 * Len(b)
    BY DEF toDec
  <2>2. 1 .. 2 * Len(a) = 1 .. 2 * Len(b)
    BY <2>1
  <2> QED
    BY <2>2
<1>2. ASSUME NEW i \in 1 .. Len(a)
      PROVE  a[i] = b[i]
  <2>1. a[i] \in Bytes /\ b[i] \in Bytes
    BY <1>1
  <2>2. table(a[i] \div 16) = table(b[i] \div 16)
    <3>1. 2 * i - 1 \in 1 .. 2 * Len(a) /\ (2 * i - 1) % 2 = 1 /\ ((2 * i - 1) + 1) \div 2 = i
      OBVIOUS
    <3> QED
      BY <1>1, <3>1 DEF toDec
  <2>3. table(a[i] % 16) = table(b[i] % 16)
    <3>1. 2 * i \in 1 .. 2 * Len(a) /\ (2 * i) % 2 # 1 /\ (2 * i) \div 2 = i
      OBVIOUS
    <3> QED
      BY <1>1, <3>1 DEF toDec
  <2>4. /\ a[i] \div 16 \in 0 .. 15 /\ a[i] % 16 \in 0 .. 15
        /\ b[i] \div 16 \in 0 .. 15 /\ b[i] % 16 \in 0 .. 15
    BY <2>1, Nibbles
  <2>5. a[i] \div 16 = b[i] \div 16
    BY <2>2, <2>4, TableInjective
  <2>6. a[i] % 16 = b[i] % 16
    BY <2>3, <2>4, TableInjective
  <2>7. /\ a[i] = 16 * (a[i] \div 16) + (a[i] % 16)
        /\ b[i] = 16 * (b[i] \div 16) + (b[i] % 16)
    BY <2>1, Nibbles
  <2> QED
    BY <2>5, <2>6, <2>7
<1> QED
  BY <1>1, <1>2
=============================================================================
