------------------------------ MODULE SpscInv ------------------------------
(***************************************************************************)
(* The inductive invariant behind the safety theorems about Spsc.          *)
(***************************************************************************)
EXTENDS Spsc

\* Jane holds no area, or the one that starts at block 1.
PoolInv ==
  /\ shm_buffer \in {NULL, 1}
  /\ shm_buffer = NULL => pool = free_pool_init
  /\ shm_buffer # NULL => pool = OneArea(UseBuffers)

\* Jane has an area; she has a connection; she has nothing under way on it.
Holding == {"fread", "fill", "hash", "send", "rcv", "done", "closed"}
Connected == {"top"} \cup Holding
Quiet == {"top", "fread", "fill", "hash", "send", "done"}

JaneInv ==
  /\ jpc \in Holding => shm_buffer # NULL
  /\ jpc \in Connected => jsock \in Conns
  /\ jpc \in {"connect", "starved"} => jsock \notin thorOpen
  /\ jpc = "down" => jsock = NoConn
  /\ jpc = "fill" => nread < NChunks
  /\ failed => jpc \in {"connect", "starved", "top", "send", "rcv"} /\ shm_buffer # NULL

ThorInv ==
  /\ tpc \in {"rcv"} \cup Serving => tsock \in thorOpen
  /\ tpc \in {"check", "flush", "fflush", "search"} => req # Done

\* What the area holds while nobody but Jane writes to it.
AreaInv ==
  NoFault({"corrupt"}) =>
    /\ jpc = "fill" => shm[shm_buffer] = Torn
    /\ jpc = "hash" => shm[shm_buffer] = nread
    /\ jpc \in {"send", "rcv"} \/ failed => shm[shm_buffer] = md5 /\ md5 = nread

\* Connections not made yet, or closed at Thor's end, carry nothing to Thor.
ConnInv ==
  /\ \A i \in DOMAIN backlog : backlog[i] \in thorOpen
  /\ thorOpen \subseteq 1 .. nconn
  /\ jsock <= nconn
  /\ \A c \in Conns :
       /\ c \notin thorOpen => toThor[c] = <<>>
       /\ c > nconn => toJane[c] = <<>>

\* Thor works on a request that came over Jane's present connection.
Busy == tpc \in Serving /\ tsock = jsock

\* On Jane's connection there is a request, its service or its reply, or
\* nothing: never two of them.
WireInv ==
  /\ jpc \in Quiet => toThor[jsock] = <<>> /\ toJane[jsock] = <<>> /\ ~ Busy
  /\ jpc = "rcv" =>
       /\ Len(toThor[jsock]) + Len(toJane[jsock]) <= 1
       /\ Busy => toThor[jsock] = <<>> /\ toJane[jsock] = <<>>
  /\ jpc = "closed" =>
       /\ ~ Busy
       /\ \A i \in DOMAIN toThor[jsock] : toThor[jsock][i] = Done

\* While Jane is never killed, the request under way is her present one.
RequestInv ==
  NoFault({"jane"}) =>
    /\ \A c \in Conns : c # jsock => toThor[c] = <<>>
    /\ tpc \in Serving => tsock = jsock
    /\ jpc = "rcv" => \A i \in DOMAIN toThor[jsock] :
                        toThor[jsock][i] = Request(get_offset(shm_buffer), md5)
    /\ tpc \in {"check", "flush", "fflush", "search"} =>
         req = Request(get_offset(shm_buffer), md5)

IInv ==
  /\ TypeOK
  /\ PoolInv
  /\ JaneInv
  /\ ThorInv
  /\ AreaInv
  /\ ConnInv
  /\ WireInv
  /\ RequestInv
-----------------------------------------------------------------------------
(***************************************************************************)
(* What the output has to do with the place in the input, added to IInv    *)
(* for the theorems about the copy.                                        *)
(***************************************************************************)

InOrder(log) ==
  \A i \in DOMAIN log : Follows(IF i = 1 THEN Whole(0) ELSE log[i - 1], log[i])

\* The chunk read last is, or may be, on its way to the output.
Underway == {"hash", "send", "rcv"}

\* The place in the input goes with the place in the program.
PlaceInv ==
  /\ jpc \in Underway \/ failed => nread # 0
  /\ jpc \in {"done", "closed"} => nread = NChunks
  /\ jpc = "down" => nread = 0

\* The area does not change from the beginning of a write to its end, unless
\* Jane was killed or Loki is seen to write there.
PartInv ==
  NoFault({"jane"}) /\ (NoFault({"corrupt"}) \/ ~ window) =>
    (tpc = "fflush" => part = shm[data])

\* Jane reads on only after all of the chunk before was written, and that Thor
\* replies means that the chunk he replies to is.
OrderInv ==
  NoFault({"jane", "disk", "corrupt"}) =>
    /\ InOrder(output)
    /\ NoFault({"thor"}) => \A i \in DOMAIN output : output[i].whole
    /\ Latest.chunk = nread \/ Latest = Whole(nread - 1)
    /\ jpc = "hash" => Latest = Whole(nread - 1)
    /\ jpc \notin Underway /\ ~ failed => Latest = Whole(nread)
    /\ jpc = "rcv" /\ toJane[jsock] # <<>> => Latest = Whole(nread)
    /\ tpc \in {"search", "reply"} => Latest = Whole(nread)

\* While no process dies there is one connection, Jane never fails, and once
\* a write has failed Thor does not come back from it.
OneConnInv ==
  NoFault({"jane", "thor", "garble"}) =>
    /\ ~ failed
    /\ jpc \in {"down", "connect", "starved"} => nconn = 0
    /\ jpc \in Connected => jsock \in thorOpen
    /\ nconn = 0 => backlog = <<>> /\ tsock = NoConn
    /\ Len(backlog) <= 1
    /\ tsock # NoConn => backlog = <<>>
    /\ faults["disk"] > 0 =>
         /\ tsock # NoConn
         /\ \/ tpc \in {"accept", "deaf"}
            \/ tpc \in {"search", "reply"} /\ thor_errno

\* Without faults of the two processes a chunk that is still to be written has
\* not been written before.
OnceInv ==
  NoFault({"jane", "thor", "garble", "disk", "corrupt"}) =>
    /\ jpc = "send" => Latest = Whole(nread - 1)
    /\ jpc = "rcv" /\ toThor[jsock] # <<>> => Latest = Whole(nread - 1)
    /\ tpc \in {"check", "flush", "fflush"} => Latest = Whole(nread - 1)

\* As long as Loki writes only where the hash can tell, what is hashed is a
\* chunk, and so is what passes the check.
SourceInv ==
  ~ window =>
    /\ jpc = "fill" => shm[shm_buffer] = Torn
    /\ jpc = "hash" => shm[shm_buffer] \in Chunks
    /\ jpc \in {"send", "rcv"} \/ failed => md5 \in Chunks
    /\ NoFault({"jane", "disk"}) =>
         /\ tpc \in {"flush", "fflush"} => shm[data] \in Chunks
         /\ \A i \in DOMAIN output : output[i].chunk \in Chunks

\* What the search has seen, the chunk it is about to see included.
Seen == IF tpc = "search" THEN Record(scanned, Latest) ELSE scanned

SearchInv ==
  DoSearch /\ NoFault({"jane", "disk", "corrupt"}) =>
    /\ IsSuffix(Seen, output)
    /\ NoFault({"thor", "garble"}) =>
         /\ Seen = output
         /\ tpc = "down" => output = <<>>

CopyInv ==
  /\ IInv
  /\ PlaceInv
  /\ PartInv
  /\ OrderInv
  /\ OneConnInv
  /\ OnceInv
  /\ SourceInv
  /\ SearchInv
=============================================================================
