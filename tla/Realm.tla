------------------------------- MODULE Realm -------------------------------
(***************************************************************************)
(* What Jane (the producer) and Thor (the consumer) share: the System V    *)
(* segment, the TCP connections between them, and the faults that may hit  *)
(* either.  The input file is cut into NChunks pieces, one per fread; a    *)
(* piece is named by its position, and md5 by the content it was taken of  *)
(* (MD5 is taken to be collision free).                                    *)
(***************************************************************************)
EXTENDS ShmPool, Sequences

CONSTANTS
  UseBuffers,  \* jane_config->use_buffers
  NChunks,     \* how many full or partial freads the input file holds
  MaxConns,    \* bound: connections ever made
  MaxFaults    \* bound: how often each kind of fault may strike

FaultKinds == {"jane", "thor", "garble", "disk", "corrupt", "bind", "files"}

ASSUME RealmAssumption ==
  /\ UseBuffers \in 1 .. members
  /\ NChunks \in Nat
  /\ MaxConns \in Nat \ {0}
  /\ MaxFaults \in [FaultKinds -> Nat]

VARIABLES
  shm,        \* shm[b]: the content of the area that starts at block b
  faults,     \* how often each kind of fault has struck
  listening,  \* the kernel holds Thor's listening socket
  backlog,    \* connections made and not yet accepted, oldest first
  nconn,      \* connections made so far; they are numbered 1 .. nconn
  janeOpen,   \* connections whose end in Jane's process is open
  thorOpen,   \* connections whose end in Thor's process is open
  toThor,     \* per connection, the messages Thor has still to recv
  toJane      \* per connection, the messages Jane has still to recv

netVars == <<listening, backlog, nconn, janeOpen, thorOpen, toThor, toJane>>
realmVars == <<shm, faults, netVars>>

\* A part of a chunk mixed with what was there before, or a blank area.
Torn == 0
Chunks == 1 .. NChunks
\* Negative contents are bytes that came from neither process.
Content == (- MaxFaults["corrupt"]) .. NChunks

Conns == 1 .. MaxConns
NoConn == 0

\* get_offset and get_buffer, for pointers that are block numbers.
get_offset(mem) == mem * 1024
get_buffer(offset) == offset \div 1024

(***************************************************************************)
(* A message is the text between its markers, as the sequence of the       *)
(* comma-separated fields.  A request is "num,offset,dlen,md5": num is     *)
(* always 1, and dlen, which Jane keeps and sends along with the hash, is  *)
(* left out.  DONE_TRANS and the sentence that says Loki has changed the   *)
(* message hold no field.                                                  *)
(***************************************************************************)
Request(offset, md5) == <<1, offset, md5>>
Done == <<>>
LokiText == <<>>
Text == {<<>>} \cup {Request(get_offset(b), m) : b \in Blocks, m \in Content}

\* parse_data: the fields of a request.
parse_data(text) == [num |-> text[1], offset |-> text[2], md5 |-> text[3]]

\* The hash of what the area at a pointer holds, and its comparison.
readable_hash(mem) == shm[mem]
does_string_intact(mem, md5) == readable_hash(mem) = md5

\* One more fault of kind k, while its bound allows.
Strike(k) ==
  /\ faults[k] < MaxFaults[k]
  /\ faults' = [faults EXCEPT ![k] = @ + 1]

NoFault(kinds) == \A k \in kinds : faults[k] = 0

\* send on one end reaches the other unless that one is closed.
Sent(queue, c, m, peerOpen) ==
  IF c \in peerOpen THEN [queue EXCEPT ![c] = Append(@, m)] ELSE queue

RealmInit ==
  /\ shm = [b \in Blocks |-> Torn]
  /\ faults = [k \in FaultKinds |-> 0]
  /\ listening = FALSE
  /\ backlog = <<>>
  /\ nconn = 0
  /\ janeOpen = {}
  /\ thorOpen = {}
  /\ toThor = [c \in Conns |-> <<>>]
  /\ toJane = [c \in Conns |-> <<>>]

RealmTypeOK ==
  /\ shm \in [Blocks -> Content]
  /\ faults \in [FaultKinds -> Nat]
  /\ \A k \in FaultKinds : faults[k] <= MaxFaults[k]
  /\ listening \in BOOLEAN
  /\ backlog \in Seq(Conns)
  /\ nconn \in 0 .. MaxConns
  /\ janeOpen \subseteq Conns
  /\ thorOpen \subseteq Conns
  /\ toThor \in [Conns -> Seq(Text)]
  /\ toJane \in [Conns -> Seq(Text)]
=============================================================================
