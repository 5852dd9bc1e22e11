-------------------------------- MODULE Jane --------------------------------
(***************************************************************************)
(* The producer: jane.c as built, without the macro `threaded'.  jpc is    *)
(* the place in client_loop; the values of finished_reading and of the     *)
(* loop conditions are in it.                                              *)
(***************************************************************************)
EXTENDS Realm

VARIABLES
  jpc,         \* where Jane is
  failed,      \* client_loop: the last send or recv failed
  shm_buffer,  \* client_loop: the area in use, or NULL
  md5,         \* client_loop: the hash last computed
  nread,       \* input_file_ptr: how many chunks were read
  jsock,       \* sock
  pool         \* free_pool and busy_pool

janeVars == <<jpc, failed, shm_buffer, md5, nread, jsock, pool>>

JanePlaces == {"down", "connect", "starved", "top", "fread", "fill", "hash",
               "send", "rcv", "done", "closed"}

JaneTypeOK ==
  /\ jpc \in JanePlaces
  /\ failed \in BOOLEAN
  /\ shm_buffer \in Blocks \cup {NULL}
  /\ md5 \in Content
  /\ nread \in 0 .. NChunks
  /\ jsock \in Conns \cup {NoConn}
  /\ pool \in Pools

\* The state of a process that has not run yet.
JaneInit ==
  /\ jpc = "down"
  /\ failed = FALSE
  /\ shm_buffer = NULL
  /\ md5 = Torn
  /\ nread = 0
  /\ jsock = NoConn
  /\ pool = free_pool_init

\* main, up to client_loop.
JaneStart ==
  /\ jpc = "down"
  /\ jpc' = "connect"
  /\ failed' = FALSE
  /\ shm_buffer' = NULL
  /\ nread' = 0
  /\ pool' = free_pool_init
  /\ UNCHANGED <<md5, jsock, realmVars>>

\* client_socket_init: connect succeeds as soon as Thor listens, accepted or
\* not.  The socket of an earlier connection is not closed.
Connect ==
  /\ jpc = "connect"
  /\ listening
  /\ nconn < MaxConns
  /\ nconn' = nconn + 1
  /\ jsock' = nconn'
  /\ backlog' = Append(backlog, nconn')
  /\ janeOpen' = janeOpen \cup {nconn'}
  /\ thorOpen' = thorOpen \cup {nconn'}
  /\ jpc' = "top"
  /\ UNCHANGED <<failed, shm_buffer, md5, nread, pool, shm, faults, listening,
                 toThor, toJane>>

\* connect is refused: sleep, and try again with another socket.
ConnectRefused ==
  /\ jpc = "connect"
  /\ ~ listening
  /\ UNCHANGED <<janeVars, realmVars>>

\* The socket that was refused is not closed either.  It may have been the last
\* one the system lets the process open: from then on socket fails.
OutOfSockets ==
  /\ jpc = "connect"
  /\ ~ listening
  /\ Strike("files")
  /\ jpc' = "starved"
  /\ UNCHANGED <<failed, shm_buffer, md5, nread, jsock, pool, shm, netVars>>

\* client_socket_init returns 1, and client_loop calls it again at once.
SocketFails ==
  /\ jpc = "starved"
  /\ UNCHANGED <<janeVars, realmVars>>

\* Mutant: the new area is allocated before the old one is freed.
TakeBuffer_AllocFirst ==
  /\ jpc = "top"
  /\ CanAlloc(pool, UseBuffers)
  /\ shm_buffer' = AllocRoot(pool, UseBuffers)
  /\ LET both == shm_alloc(pool, UseBuffers)
     IN  pool' = IF shm_buffer = NULL THEN both
                 ELSE shm_dealloc(both, UseBuffers, shm_buffer)
  /\ jpc' = IF failed THEN "send" ELSE "fread"
  /\ UNCHANGED <<failed, md5, nread, jsock, realmVars>>

\* The top of the inner loop: free the area of the last round, allocate one,
\* and read the next chunk unless the last round failed.
TakeBuffer ==
  /\ jpc = "top"
  /\ shm_buffer # NULL => binarySearch(pool.busy, shm_buffer) # -1
  /\ \E freed \in {IF shm_buffer = NULL THEN pool
                    ELSE shm_dealloc(pool, UseBuffers, shm_buffer)} :
       /\ CanAlloc(freed, UseBuffers)
       /\ shm_buffer' = AllocRoot(freed, UseBuffers)
       /\ pool' = shm_alloc(freed, UseBuffers)
  /\ jpc' = IF failed THEN "send" ELSE "fread"
  /\ UNCHANGED <<failed, md5, nread, jsock, realmVars>>

\* Mutant: the last chunk, shorter than the area, is taken for the end.
ReadNothing_ShortRead ==
  /\ jpc = "fread"
  /\ nread + 1 >= NChunks
  /\ jpc' = "done"
  /\ UNCHANGED <<failed, shm_buffer, md5, nread, jsock, pool, realmVars>>

\* read_input_file finds nothing more to read: both loops are left.
ReadNothing ==
  /\ jpc = "fread"
  /\ nread = NChunks
  /\ jpc' = "done"
  /\ UNCHANGED <<failed, shm_buffer, md5, nread, jsock, pool, realmVars>>

\* Mutant: the result of fread is not looked at.
ReadBegin_NoEnd ==
  /\ jpc = "fread"
  /\ shm' = [shm EXCEPT ![shm_buffer] = Torn]
  /\ jpc' = "fill"
  /\ UNCHANGED <<failed, shm_buffer, md5, nread, jsock, pool, faults, netVars>>

\* read_input_file: fread has begun to overwrite the area...
ReadBegin ==
  /\ jpc = "fread"
  /\ nread < NChunks
  /\ shm' = [shm EXCEPT ![shm_buffer] = Torn]
  /\ jpc' = "fill"
  /\ UNCHANGED <<failed, shm_buffer, md5, nread, jsock, pool, faults, netVars>>

\* ...and ends.  Bytes that a corruption put into the part already read stay.
ReadEnd ==
  /\ jpc = "fill"
  /\ \E c \in {nread + 1} \cup {v \in {shm[shm_buffer]} : v < 0} :
       shm' = [shm EXCEPT ![shm_buffer] = c]
  /\ nread' = nread + 1
  /\ jpc' = "hash"
  /\ UNCHANGED <<failed, shm_buffer, md5, jsock, pool, faults, netVars>>

\* readable_hash over what the area holds now.
Hash ==
  /\ jpc = "hash"
  /\ md5' = readable_hash(shm_buffer)
  /\ jpc' = "send"
  /\ UNCHANGED <<failed, shm_buffer, nread, jsock, pool, realmVars>>

\* Mutant: Jane goes on without waiting for the reply.
Send_NoWait ==
  /\ jpc = "send"
  /\ toThor' = Sent(toThor, jsock, Request(get_offset(shm_buffer), md5), thorOpen)
  /\ jpc' = "top"
  /\ UNCHANGED <<failed, shm_buffer, md5, nread, jsock, pool, shm, faults,
                 listening, backlog, nconn, janeOpen, thorOpen, toJane>>

\* client_socket_send leaves errno 0.  If Thor's end is closed the bytes are
\* lost all the same.
Send ==
  /\ jpc = "send"
  /\ toThor' = Sent(toThor, jsock, Request(get_offset(shm_buffer), md5), thorOpen)
  /\ jpc' = "rcv"
  /\ UNCHANGED <<failed, shm_buffer, md5, nread, jsock, pool, shm, faults,
                 listening, backlog, nconn, janeOpen, thorOpen, toJane>>

\* Mutant: a failed send is not remembered.
SendFails_Forgotten ==
  /\ jpc = "send"
  /\ jsock \notin thorOpen
  /\ jpc' = "connect"
  /\ UNCHANGED <<failed, shm_buffer, md5, nread, jsock, pool, realmVars>>

\* client_socket_send returns an errno: Thor's end is known to be closed.
SendFails ==
  /\ jpc = "send"
  /\ jsock \notin thorOpen
  /\ failed' = TRUE
  /\ jpc' = "connect"
  /\ UNCHANGED <<shm_buffer, md5, nread, jsock, pool, realmVars>>

\* Mutant: a text that differs makes the next round a retry of the same hash.
Rcv_ResendsHash ==
  /\ jpc = "rcv"
  /\ toJane[jsock] # <<>>
  /\ failed' = (Head(toJane[jsock]) = LokiText)
  /\ toJane' = [toJane EXCEPT ![jsock] = Tail(@)]
  /\ jpc' = "top"
  /\ UNCHANGED <<shm_buffer, md5, nread, jsock, pool, shm, faults, listening,
                 backlog, nconn, janeOpen, thorOpen, toThor>>

\* client_socket_rcv returns a text, and client_loop compares all of it with
\* the hash.  A text that differs changes nothing: neither `failed' nor the
\* position in the file.
Rcv ==
  /\ jpc = "rcv"
  /\ toJane[jsock] # <<>>
  /\ LET got == Head(toJane[jsock])
     IN  failed' = IF got = <<md5>> THEN FALSE ELSE failed
  /\ toJane' = [toJane EXCEPT ![jsock] = Tail(@)]
  /\ jpc' = "top"
  /\ UNCHANGED <<shm_buffer, md5, nread, jsock, pool, shm, faults, listening,
                 backlog, nconn, janeOpen, thorOpen, toThor>>

\* Mutant: a failed recv is not remembered.
RcvFails_Forgotten ==
  /\ jpc = "rcv"
  /\ toJane[jsock] = <<>>
  /\ jsock \notin thorOpen
  /\ jpc' = "connect"
  /\ UNCHANGED <<failed, shm_buffer, md5, nread, jsock, pool, realmVars>>

\* client_socket_rcv: nothing to read and Thor's end closed.
RcvFails ==
  /\ jpc = "rcv"
  /\ toJane[jsock] = <<>>
  /\ jsock \notin thorOpen
  /\ failed' = TRUE
  /\ jpc' = "connect"
  /\ UNCHANGED <<shm_buffer, md5, nread, jsock, pool, realmVars>>

\* The end of client_loop and of the process: DONE_TRANS, close, exit.
Finish ==
  /\ jpc = "done"
  /\ toThor' = Sent(toThor, jsock, Done, thorOpen)
  /\ janeOpen' = {}
  /\ toJane' = [c \in Conns |-> <<>>]
  /\ jpc' = "closed"
  /\ UNCHANGED <<failed, shm_buffer, md5, nread, jsock, pool, shm, faults,
                 listening, backlog, nconn, thorOpen>>

\* The process is killed; what it had sent stays readable to Thor.
JaneCrash ==
  /\ jpc \notin {"down", "closed"}
  /\ Strike("jane")
  /\ jpc' = "down"
  /\ failed' = FALSE
  /\ shm_buffer' = NULL
  /\ md5' = Torn
  /\ nread' = 0
  /\ jsock' = NoConn
  /\ pool' = free_pool_init
  /\ janeOpen' = {}
  /\ toJane' = [c \in Conns |-> <<>>]
  /\ UNCHANGED <<shm, listening, backlog, nconn, thorOpen, toThor>>

JaneStep ==
  \/ JaneStart \/ Connect \/ ConnectRefused \/ SocketFails \/ TakeBuffer
  \/ ReadNothing \/ ReadBegin \/ ReadEnd \/ Hash
  \/ Send \/ SendFails \/ Rcv \/ RcvFails \/ Finish
=============================================================================
