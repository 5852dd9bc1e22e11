-------------------------------- MODULE Spsc --------------------------------
(***************************************************************************)
(* Jane and Thor side by side: every interleaving of their steps, with     *)
(* kills and restarts of either, a full disk, and changes to the shared    *)
(* memory by a third party (README.md's Loki), each within its bound.      *)
(***************************************************************************)
EXTENDS Jane, Thor, SequencesExt

VARIABLE window   \* history: shared memory was changed where no check can see it

vars == <<janeVars, thorVars, realmVars, window>>

Init ==
  /\ RealmInit
  /\ JaneInit
  /\ ThorInit
  /\ window = FALSE

TypeOK ==
  /\ RealmTypeOK
  /\ JaneTypeOK
  /\ ThorTypeOK
  /\ window \in BOOLEAN

\* The places where Thor works on the request it took.
Serving == {"check", "flush", "fflush", "search", "reply"}

(***************************************************************************)
(* Loki writes over the area at block b.  Nobody can tell when Jane has    *)
(* not hashed the area yet, or Thor has checked it already.                *)
(***************************************************************************)
Corrupt ==
  /\ Strike("corrupt")
  /\ \E b \in Blocks :
       /\ shm' = [shm EXCEPT ![b] = - faults'["corrupt"]]
       /\ window' = \/ window
                    \/ (b = shm_buffer /\ jpc \in {"fill", "hash"})
                    \/ (tpc \in {"flush", "fflush"} /\ b = data)
  /\ UNCHANGED <<netVars, janeVars, thorVars>>

\* Jane has left, and Thor waits for another producer.
Terminated ==
  /\ jpc = "closed"
  /\ tpc = "accept"
  /\ backlog = <<>>
  /\ UNCHANGED vars

JaneMoves == (JaneStep \/ JaneCrash \/ OutOfSockets) /\ UNCHANGED <<thorVars, window>>
ThorMoves == (ThorStep \/ ThorCrash \/ ParseGarbled \/ FlushFails \/ ListenFails
              \/ OutOfConnections) /\ UNCHANGED <<janeVars, window>>

Next == JaneMoves \/ ThorMoves \/ Corrupt \/ Terminated

Spec == Init /\ [][Next]_vars

(***************************************************************************)
(* A process that can take a step takes one: both are scheduled by the     *)
(* kernel, and whoever runs them starts them again after a kill.  No fault *)
(* ever has to happen.                                                     *)
(***************************************************************************)
FairSpec ==
  /\ Spec
  /\ WF_vars(JaneStep /\ UNCHANGED <<thorVars, window>>)
  /\ WF_vars(ThorStep /\ UNCHANGED <<janeVars, window>>)
-----------------------------------------------------------------------------
(***************************************************************************)
(* client_loop frees the area it holds before it asks for one.  The free   *)
(* finds the area in the busy pool, and the allocation that follows gives  *)
(* the same area back: neither assertion of the allocator's callers fails. *)
(***************************************************************************)
SameAreaEveryRound ==
  jpc = "top" /\ shm_buffer # NULL =>
    /\ binarySearch(pool.busy, shm_buffer) # -1
    /\ AllocRoot(shm_dealloc(pool, UseBuffers, shm_buffer), UseBuffers) = shm_buffer

(***************************************************************************)
(* client_loop frees its area and allocates one before it knows whether    *)
(* the round is a retry, and a retry sends the old hash: the area it gets  *)
(* must be the one that still holds the chunk the hash was taken of.       *)
(***************************************************************************)
RetryKeepsBuffer ==
  /\ NoFault({"corrupt"})
  /\ jpc \in {"send", "rcv"} \/ (failed /\ jpc \in {"connect", "top"})
  => shm[shm_buffer] = md5 /\ md5 = nread

(***************************************************************************)
(* Nothing but the protocol keeps Jane from refilling the area while Thor  *)
(* works on it: on a connection both hold, Jane waits for the reply.       *)
(***************************************************************************)
NoConcurrentUse ==
  tpc \in Serving /\ tsock = jsock => jpc = "rcv"

(***************************************************************************)
(* server_socket_send reads the area up to three times.  Without kills of  *)
(* Jane and without Loki each time, and until the last byte is written,    *)
(* it holds the content the request's hash was taken of, whatever happened *)
(* to Thor before.                                                         *)
(***************************************************************************)
NoTornRead ==
  NoFault({"jane", "corrupt"}) /\ tpc \in {"flush", "fflush", "search"}
  => does_string_intact(data, parse_data(req).md5)

\* The end of the output; an empty one counts as the whole of chunk 0.
Latest == IF output = <<>> THEN Whole(0) ELSE Last(output)

\* A piece of the output repeats the chunk before it, or begins the next one
\* after a whole one.
Follows(p, q) == q.chunk - p.chunk \in IF p.whole THEN {0, 1} ELSE {0}

(***************************************************************************)
(* A kill of Thor may leave a part of the chunk he was writing in the      *)
(* output.  All of that chunk follows before anything else does: kills of  *)
(* Thor, at any point and any number of times, repeat chunks and leave     *)
(* parts, but none is skipped or out of order, and Jane does not read on   *)
(* before the whole of the chunk she had sent is written.                  *)
(***************************************************************************)
OutputFollowsInput ==
  NoFault({"jane", "disk", "corrupt"}) =>
    /\ \A i \in DOMAIN output :
         Follows(IF i = 1 THEN Whole(0) ELSE output[i - 1], output[i])
    /\ NoFault({"thor"}) => \A i \in DOMAIN output : output[i].whole
    /\ Latest.chunk = nread \/ Latest = Whole(nread - 1)
    /\ jpc \in {"fread", "done", "closed"} => Latest = Whole(nread)

(***************************************************************************)
(* What Loki changes between Jane's readable_hash and Thor's               *)
(* does_string_intact never reaches the output file, not even in the part  *)
(* of a chunk that a kill of Thor leaves there.  What he changes between   *)
(* the check and the end of the write (window) does, and nothing is said   *)
(* of it here.                                                             *)
(***************************************************************************)
CorruptionDetected ==
  NoFault({"jane", "disk"}) /\ ~ window
  => \A i \in DOMAIN output : output[i].chunk \in Chunks

(***************************************************************************)
(* What the pattern search of this run of Thor went over is the end of the *)
(* output: nothing but what was written, in the same order, and as long as *)
(* no Thor has died all that was written.                                  *)
(***************************************************************************)
ScannedIsWritten ==
  DoSearch /\ NoFault({"jane", "disk", "corrupt"}) =>
    LET seen == IF tpc = "search" THEN Record(scanned, Latest) ELSE scanned
    IN  /\ IsSuffix(seen, output)
        /\ NoFault({"thor", "garble"}) => seen = output

(***************************************************************************)
(* After a write has failed nothing more is written until one of the two   *)
(* is started again: the failed chunk is lost, but the output has no hole. *)
(***************************************************************************)
NoHoleAfterDiskFault ==
  [][faults["disk"] > 0 /\ NoFault({"jane", "thor", "garble"})
     => output' = output]_vars
-----------------------------------------------------------------------------
(***************************************************************************)
(* FileCopy, when deaths of Thor may repeat chunks or cut them short, and  *)
(* nothing is promised once Jane was killed, a write failed or Loki was    *)
(* there.                                                                  *)
(***************************************************************************)
Copy == INSTANCE FileCopy WITH
          finished  <- jpc = "closed",
          repeats   <- ~ NoFault({"thor", "garble"}),
          disturbed <- ~ NoFault({"jane", "disk", "corrupt"})

\* With deaths of Thor every chunk is written at least once as a whole, in
\* order, and Jane leaves only when the last one is; without them, exactly
\* once and nothing else.
CopiesFile == Copy!Spec

\* Without faults the copy is finished as well.
CopyCompletes == Copy!FairSpec

\* Kills of Jane and changes by Loki leave every wait for a reply to end.  Of
\* deaths of Thor and of a file table that is full nothing is said here.
RequestAnswered == (jpc = "rcv") ~> (jpc # "rcv")

\* Kills of Jane and changes by Loki do not keep her from getting to the end
\* of the file.
JaneFinishes == <>(jpc = "closed")
-----------------------------------------------------------------------------
(***************************************************************************)
(* README.md says that the producer waits for a consumer that died and,    *)
(* when it is back, sends the remaining data: every chunk gets to the      *)
(* output.                                                                 *)
(***************************************************************************)
EverythingArrives == <>(\A c \in Chunks : Contains(output, Whole(c)))

(***************************************************************************)
(* README.md says that the producer waits until the consumer comes online: *)
(* once Thor listens, Jane connects.                                       *)
(***************************************************************************)
WaitsForThor == (jpc \in {"connect", "starved"} /\ listening) ~> (jpc = "top")

(***************************************************************************)
(* client_loop says of a reply that is not the hash that it re-tries: it   *)
(* does not read on before the last chunk is written.                      *)
(***************************************************************************)
RetriesRejectedChunk ==
  [][ReadBegin => \A c \in 1 .. nread : Contains(output, Whole(c))]_vars

(***************************************************************************)
(* server_loop says that it returns to accept when the send has failed:    *)
(* not when Jane gets the reply.                                           *)
(***************************************************************************)
AcceptAfterFailedSend ==
  [][tpc = "reply" /\ tpc' = "accept" => toJane' = toJane]_vars
=============================================================================
