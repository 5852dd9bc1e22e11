-------------------------------- MODULE Thor --------------------------------
(***************************************************************************)
(* The consumer: thor.c.  tpc is the place in server_loop and in the       *)
(* server_socket_send it calls, which reads the shared area three times:   *)
(* to check it, to append it to the output file, and to search it.  A      *)
(* chunk longer than stdio's buffer gets to the file in several writes, so *)
(* the second of these is two steps.                                       *)
(***************************************************************************)
EXTENDS Realm

CONSTANTS
  DoSearch,   \* thor_config->do_search
  MaxCopies   \* bound: how many equal chunks in a row a log records

ASSUME ThorAssumption ==
  /\ DoSearch \in BOOLEAN
  /\ MaxCopies \in Nat \ {0}

VARIABLES
  tpc,         \* where Thor is
  tsock,       \* sock
  req,         \* the request being served
  reply,       \* the text to send back
  thor_errno,  \* errno # 0 since server_socket_send cleared it
  part,        \* what the area held when fwrite began, until fflush is done
  scanned,     \* what went through sstring_compute in this process
  output       \* the output file, without the chunk being written

thorVars == <<tpc, tsock, req, reply, thor_errno, part, scanned, output>>

ThorPlaces == {"down", "listen", "deaf", "accept", "rcv", "check", "flush",
               "fflush", "search", "reply"}

NoRequest == Done

\* The area the request points to.
data == get_buffer(parse_data(req).offset)

\* What a log records: a chunk, whole or only a part of it.
Pieces == [chunk : Content, whole : BOOLEAN]
Whole(c) == [chunk |-> c, whole |-> TRUE]
PartOf(c) == [chunk |-> c, whole |-> FALSE]

ThorTypeOK ==
  /\ tpc \in ThorPlaces
  /\ tsock \in Conns \cup {NoConn}
  /\ req \in Text
  /\ reply \in Text
  /\ thor_errno \in BOOLEAN
  /\ part \in Content
  /\ scanned \in Seq(Pieces)
  /\ output \in Seq(Pieces)

(***************************************************************************)
(* Appending to a log.  Of a run of equal pieces the first MaxCopies are   *)
(* recorded, so that a chunk sent for ever leaves a finite log.            *)
(***************************************************************************)
Record(log, p) ==
  IF /\ Len(log) >= MaxCopies
     /\ \A i \in (Len(log) - MaxCopies + 1) .. Len(log) : log[i] = p
  THEN log
  ELSE Append(log, p)

ThorInit ==
  /\ tpc = "down"
  /\ tsock = NoConn
  /\ req = NoRequest
  /\ reply = LokiText
  /\ thor_errno = FALSE
  /\ part = Torn
  /\ scanned = <<>>
  /\ output = <<>>

\* main, up to server_loop.
ThorStart ==
  /\ tpc = "down"
  /\ tpc' = "listen"
  /\ scanned' = <<>>
  /\ UNCHANGED <<tsock, req, reply, thor_errno, part, output, realmVars>>

\* server_socket_init.
Listen ==
  /\ tpc = "listen"
  /\ tpc' = "accept"
  /\ listening' = TRUE
  /\ UNCHANGED <<tsock, req, reply, thor_errno, part, scanned, output, shm,
                 faults, backlog, nconn, janeOpen, thorOpen, toThor, toJane>>

\* server_socket_init when socket, bind or listen fails: server_loop does not
\* look at the result, and goes on to accept.
ListenFails ==
  /\ tpc = "listen"
  /\ Strike("bind")
  /\ tpc' = "deaf"
  /\ UNCHANGED <<tsock, req, reply, thor_errno, part, scanned, output, shm,
                 netVars>>

\* The socket of an earlier connection is not closed.  When the system lets
\* the process open no other, the connections that wait are never accepted.
OutOfConnections ==
  /\ tpc = "accept"
  /\ backlog # <<>>
  /\ Strike("files")
  /\ tpc' = "deaf"
  /\ UNCHANGED <<tsock, req, reply, thor_errno, part, scanned, output, shm,
                 netVars>>

\* server_accept fails: sleep, and the same again.
AcceptFails ==
  /\ tpc = "deaf"
  /\ UNCHANGED <<thorVars, realmVars>>

\* server_accept.
Accept ==
  /\ tpc = "accept"
  /\ backlog # <<>>
  /\ tsock' = Head(backlog)
  /\ backlog' = Tail(backlog)
  /\ tpc' = "rcv"
  /\ UNCHANGED <<req, reply, thor_errno, part, scanned, output, shm, faults,
                 listening, nconn, janeOpen, thorOpen, toThor, toJane>>

\* server_socket_rcv returns a request.
Receive ==
  /\ tpc = "rcv"
  /\ toThor[tsock] # <<>>
  /\ Head(toThor[tsock]) # Done
  /\ req' = Head(toThor[tsock])
  /\ toThor' = [toThor EXCEPT ![tsock] = Tail(@)]
  /\ tpc' = "check"
  /\ UNCHANGED <<tsock, reply, thor_errno, part, scanned, output, shm, faults,
                 listening, backlog, nconn, janeOpen, thorOpen, toJane>>

\* server_socket_rcv meets DONE_TRANS, and server_loop goes back to accept.
ReceiveDone ==
  /\ tpc = "rcv"
  /\ toThor[tsock] # <<>>
  /\ Head(toThor[tsock]) = Done
  /\ toThor' = [toThor EXCEPT ![tsock] = Tail(@)]
  /\ tpc' = "accept"
  /\ UNCHANGED <<tsock, req, reply, thor_errno, part, scanned, output, shm,
                 faults, listening, backlog, nconn, janeOpen, thorOpen,
                 toJane>>

\* Mutant: a failed recv is tried again on the same socket.
ReceiveFails_Retries ==
  /\ tpc = "rcv"
  /\ toThor[tsock] = <<>>
  /\ tsock \notin janeOpen
  /\ UNCHANGED <<thorVars, realmVars>>

\* server_socket_rcv: nothing to read and Jane's end closed.
ReceiveFails ==
  /\ tpc = "rcv"
  /\ toThor[tsock] = <<>>
  /\ tsock \notin janeOpen
  /\ tpc' = "accept"
  /\ UNCHANGED <<tsock, req, reply, thor_errno, part, scanned, output,
                 realmVars>>

\* Mutant: the hash is not compared.
Check_Skipped ==
  /\ tpc = "check"
  /\ parse_data(req).num > 0 /\ parse_data(req).offset > 0
  /\ thor_errno' = FALSE
  /\ tpc' = "flush"
  /\ reply' = req
  /\ UNCHANGED <<tsock, req, part, scanned, output, realmVars>>

\* Mutant: the reply goes out before the chunk is written.
Check_RepliesFirst ==
  /\ tpc = "check"
  /\ parse_data(req).num > 0 /\ parse_data(req).offset > 0
  /\ thor_errno' = FALSE
  /\ IF does_string_intact(data, parse_data(req).md5)
     THEN /\ tpc' = "flush"
          /\ reply' = req
          /\ toJane' = Sent(toJane, tsock, reply', janeOpen)
     ELSE /\ tpc' = "reply"
          /\ reply' = LokiText
          /\ UNCHANGED toJane
  /\ UNCHANGED <<tsock, req, part, scanned, output, shm, faults, listening,
                 backlog, nconn, janeOpen, thorOpen, toThor>>

\* parse_data, past its assertions, and does_string_intact.
Check ==
  /\ tpc = "check"
  /\ parse_data(req).num > 0 /\ parse_data(req).offset > 0
  /\ thor_errno' = FALSE
  /\ IF does_string_intact(data, parse_data(req).md5)
     THEN tpc' = "flush" /\ reply' = req
     ELSE tpc' = "reply" /\ reply' = LokiText
  /\ UNCHANGED <<tsock, req, part, scanned, output, realmVars>>

\* server_flush_transaction, fopen and fwrite: what does not fit in stdio's
\* buffer goes to the file, the rest of the chunk is still to come.
Fwrite ==
  /\ tpc = "flush"
  /\ part' = shm[data]
  /\ tpc' = "fflush"
  /\ UNCHANGED <<tsock, req, reply, thor_errno, scanned, output, realmVars>>

\* Mutant: a chunk that was written is not searched.
Fflush_NoSearch ==
  /\ tpc = "fflush"
  /\ output' = Record(output, Whole(part))
  /\ part' = Torn
  /\ tpc' = "reply"
  /\ UNCHANGED <<tsock, req, reply, thor_errno, scanned, realmVars>>

\* The end of server_flush_transaction: the rest of the chunk.  When the area
\* has changed since fwrite began, it may be the rest of something else.
Fflush ==
  /\ tpc = "fflush"
  /\ \E c \in {part} \cup (IF shm[data] = part THEN {} ELSE {Torn}) :
       output' = Record(output, Whole(c))
  /\ part' = Torn
  /\ tpc' = IF DoSearch THEN "search" ELSE "reply"
  /\ UNCHANGED <<tsock, req, reply, thor_errno, scanned, realmVars>>

\* server_flush_transaction when the file cannot take all of the chunk: none
\* or a part of it is written, nobody looks at the result, and errno is set.
FlushFails ==
  /\ tpc \in {"flush", "fflush"}
  /\ Strike("disk")
  /\ output' = IF tpc = "flush" THEN output ELSE Append(output, PartOf(part))
  /\ thor_errno' = TRUE
  /\ part' = Torn
  /\ tpc' = IF DoSearch THEN "search" ELSE "reply"
  /\ UNCHANGED <<tsock, req, reply, scanned, shm, netVars>>

\* sstring_compute.
Search ==
  /\ tpc = "search"
  /\ scanned' = Record(scanned, Whole(shm[data]))
  /\ tpc' = "reply"
  /\ UNCHANGED <<tsock, req, reply, thor_errno, part, output, realmVars>>

\* Mutant: errno is not looked at.
Reply_NoErrno ==
  /\ tpc = "reply"
  /\ toJane' = Sent(toJane, tsock, reply, janeOpen)
  /\ tpc' = "rcv"
  /\ UNCHANGED <<tsock, req, reply, thor_errno, part, scanned, output, shm,
                 faults, listening, backlog, nconn, janeOpen, thorOpen,
                 toThor>>

\* The end of server_socket_send: the reply goes out, then server_loop looks
\* at errno, whoever has set it.
Reply ==
  /\ tpc = "reply"
  /\ toJane' = Sent(toJane, tsock, reply, janeOpen)
  /\ tpc' = IF thor_errno THEN "accept" ELSE "rcv"
  /\ UNCHANGED <<tsock, req, reply, thor_errno, part, scanned, output, shm,
                 faults, listening, backlog, nconn, janeOpen, thorOpen,
                 toThor>>

\* The same when send reports that Jane's end is closed.
ReplyFails ==
  /\ tpc = "reply"
  /\ tsock \notin janeOpen
  /\ tpc' = "accept"
  /\ UNCHANGED <<tsock, req, reply, thor_errno, part, scanned, output,
                 realmVars>>

\* The process ends: its sockets close, and what it had not read is lost.
ThorEnds ==
  /\ tpc' = "down"
  /\ tsock' = NoConn
  /\ req' = NoRequest
  /\ reply' = LokiText
  /\ thor_errno' = FALSE
  /\ part' = Torn
  /\ scanned' = <<>>
  /\ listening' = FALSE
  /\ backlog' = <<>>
  /\ thorOpen' = {}
  /\ toThor' = [c \in Conns |-> <<>>]
  /\ UNCHANGED <<shm, nconn, janeOpen, toJane>>

\* The process is killed.  Of a chunk it was writing, the file keeps the part
\* that had got there.
ThorCrash ==
  /\ tpc # "down"
  /\ Strike("thor")
  /\ output' = IF tpc = "fflush" THEN Append(output, PartOf(part)) ELSE output
  /\ ThorEnds

\* server_socket_rcv moves the request to the front of its buffer with a
\* strcpy whose source and destination overlap.  When that loses a comma,
\* parse_data runs past the text in search of it and the process dies.
ParseGarbled ==
  /\ tpc = "check"
  /\ Strike("garble")
  /\ ThorEnds
  /\ UNCHANGED output

ThorStep ==
  \/ ThorStart \/ Listen \/ Accept \/ AcceptFails \/ Receive \/ ReceiveDone
  \/ ReceiveFails \/ Check \/ Fwrite \/ Fflush \/ Search \/ Reply \/ ReplyFails
=============================================================================
