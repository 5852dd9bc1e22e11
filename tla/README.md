# A verification project for spsc

`spsc` copies a text file from a producer process (Jane, `jane.c`) to a consumer
process (Thor, `thor.c`).  The bytes go through one System V shared memory segment
(the "realm"); a TCP connection carries only short requests: where in the segment a
chunk lies, how long it is, and its MD5.  Thor compares the MD5 with what he finds
(somebody else, "Loki", may have written to the segment), appends the chunk to the
output file, optionally feeds it to a pattern search, and answers.

This directory holds TLA+ modules translated from the C code, TLC configurations that
check them on small instances, and proofs checked by TLAPS.

## 1. Inventory

| Component | Code | State it keeps | Operations |
|---|---|---|---|
| Producer | `jane.c` | place in `client_loop`, `failed`, `shm_buffer`, `md5`, position in the input file, socket | connect and retry, take an area, read a chunk, hash, send, receive, stop |
| Consumer | `thor.c` | place in `server_loop`, socket, request in hand, `errno`, output file, search context | listen, accept, receive, parse, check, write, search, reply |
| Buffer allocator | `asgard.c` | `free_pool`, `busy_pool`, `members` | `shm_alloc`, `shm_dealloc`, `get_offset`, `get_buffer` |
| Array operations | `radix_sort.c` | none | `radix_sort`, `move_array`, `binarySearch` |
| Shared segment | `memory.c`, `asgard.c` | the segment, found by a fixed key | create or attach |
| Hash, lock | `util.c` | lock words | `readable_hash`, `does_string_intact`, `lock`, `unlock` |
| Pattern search | `substring.c` | state, count, locations, total | `sstring_init`, `sstring_compute` |
| Ring buffer | `q.c` | `e`, `head`, `tail`, `curr_size` | `q_add`, `q_remove`, `q_full`, `q_empty` |
| Threaded reader | `jane.c` under `#ifdef threaded` | `q`, `qlock` | `keep_buffers_ready`, `get_ready_buffer`, `free_buffers` |
| Configuration | `ini_parser.c`, `config.ini` | two configuration records | `ini_parse`, `asgard_config_read` |
| Logging | `log.h` | none | print |

How they interact.  Jane alone uses the allocator; Thor follows the offset in the
request.  Both read the configuration first.  Each round of `client_loop` frees the area of the last round, allocates one
again, fills it unless the last round *failed*, sends the request and blocks in `recv`.
Nothing but this wait keeps her from refilling the area while Thor reads it, and he reads
it three times: for the hash, for the file and for the search.  Neither side has a
timeout; a process learns that the other is gone from a failing `send` or `recv`, and
then Jane connects again while Thor goes back to `accept`.  Either may be killed
and started again at any point.  The segment, the output file and what the kernel
has queued on connections outlive a process; everything else does not.

What makes it hard: the interleaving of Jane's refill and Thor's reads, kills between
any two steps, retries that use an old hash with a newly allocated area, an
`errno` that several calls share, and an allocator whose invariants rest on sorting and
shifting two arrays in place.  `PROJECT.json` lists these hazards at their lines.

What makes each component correct:

* the copy: the output is the input, each chunk once and in order; a kill of Thor may leave
  a part of a chunk in the output, or let a chunk be written twice, but the whole of each chunk is there
  before any of the next, and none is skipped; without faults the copy ends;
* producer and consumer: never both at the area; a retry sends the chunk its hash was
  taken of; a changed chunk is not written; each request is answered;
* allocator: no block is in two places, areas are whole and disjoint, nothing leaks,
  `NULL` only when the memory is used up;
* ring buffer: a bounded first-in first-out queue;
* search: it sees exactly what is written; what it reports is there, and what it misses can be
  characterised;
* configuration: an accepted file means what it says, and the values are what the other parts need;
* array operations: the digit passes sort.

## 2. Modules

| Module | Stands for | Uses |
|---|---|---|
| `ArrayOps` | `radix_sort.c` as operators on functions `0 .. size-1` | |
| `ShmPool` | `asgard.c` as operators on the record of the two pools | `ArrayOps` |
| `RadixSort` | `radix_sort` digit pass by digit pass, one `Turn` for each turn of its loop | `ArrayOps` |
| `Asgard` | the allocator and a client with several areas | `ShmPool`, `RadixSort` |
| `Realm` | segment, connections, texts, hash, fault counters | `ShmPool` |
| `Jane`, `Thor` | the two programs, one action per step that another process can see | `Realm` |
| `FileCopy` | the abstract promise: an output that grows chunk by chunk, an end, when a chunk may be cut short or repeated, and when the promise is off | |
| `Spsc` | Jane and Thor side by side, Loki, fairness, all properties | `Jane`, `Thor`, `FileCopy` |
| `MCSpsc` | numbers of faults for the runs | `Spsc` |
| `SpscInv` | the two inductive invariants of the composition | `Spsc` |
| `ConfigInv` | the inductive invariant of the parser | `Config` |
| `Queue`, `Fifo` | `q.c`, and the queue it implements | |
| `Substring`, `MCSubstring` | `substring.c`, and the patterns it is run with | |
| `Config`, `MCConfig` | `ini_parser.c`, and the files it is run with | |
| `Hex` | the hexadecimal text of a hash in `util.c` | |
| `ArrayOpsProofs` | the sort, the shift and the digit passes | `RadixSort` |
| `ShmPoolProofs` | the allocator under one client with one area | `ShmPool`, `ArrayOpsProofs` |
| `AsgardProofs` | the allocator under a client with several areas | `Asgard`, `ShmPoolProofs` |
| `SpscProofs` | Jane and Thor at the area, and the texts of the hashes | `SpscInv`, `ShmPoolProofs`, `Hex` |
| `SpscCopyProofs` | the copy, and the refinement of `FileCopy` | `SpscProofs` |
| `QueueProofs`, `SubstringProofs` | the ring buffer, the search | `Queue`, `Substring` |
| `ConfigProofs` | the configuration file | `ConfigInv` |

### State and actions against the code

*Data.*  A chunk is its position in the input file; `shm[b]` is the content of the
area that starts at block `b`: a chunk, `Torn` (a part of a chunk over something else)
or a negative number (bytes of Loki's).  An MD5 is the content it was taken of, so equal
hashes mean equal contents.  A pointer into the segment is a block number, and
`get_offset`/`get_buffer` multiply and divide by 1024 as the bytes do.  A message is the
sequence of its comma-separated fields, without the markers.  Thor sends back the whole
request; the comparison of that text with the bare hash in `client_loop` is modelled
as it is, and is never true.

*Jane.*  `jpc` is the place in `client_loop`: `connect` (client_socket_init), `top` (the
head of the inner loop), `fread`, `fill` (within `fread`, the area is overwritten in
part), `hash`, `send`, `rcv`, `done`, `closed`, and `starved` (`socket` fails).  The two loops and the `goto`s are the
arrows between them.  `finished_reading` is in the place: it is true wherever the inner
loop runs, and false at `done`.  Freeing and allocating are one action, since no
other process sees the pools.

*Thor.*  `tpc` is the place in `server_loop` and `server_socket_send`: `listen`, `accept`,
`rcv`, `check`, `flush`, `fflush`, `search`, `reply`, and `deaf` (`accept` fails, and is tried again for
ever).  Each of `check` to `reply` is an action of its
own because the area can change between them.  `thor_errno` is what `return errno` reads.

*The write.*  With the `USE_BUFFERS` of `config.ini` a chunk has 10239 bytes, more than a buffer of stdio, so
`fwrite` (thor.c:35) sends the front of it to the file and `fflush` (thor.c:36) the rest.  `Fwrite` takes what is in the area into `part`;
`Fflush` appends the whole chunk to `output`, torn if the area has changed since.  A kill at `fflush`, or a
write that fails there, appends a *part* of the chunk: an entry of `output` has the chunk it comes from and whether it is the
whole of it.  A part may be anything from one byte to all but one.  Of a chunk that fits in the buffer nothing is in the file
before `fflush`, which is the kill at `flush`.
`Record` appends to a log, but keeps at most `MaxCopies` of a run of equal entries: Jane
may resend a chunk for ever.

*Connections.*  `connect` succeeds once Thor listens, accepted or not (backlog); closed
ends are learnt of by `send` or `recv`, and a `send` to a closed end may also succeed and
be lost; a text sent before the sender died can still be read, as TCP has it.  TCP
neither loses, reorders nor duplicates on an open connection.

*The abstract copy.*  `FileCopy` has no faults of its own.  Its variables `repeats` and `disturbed`
belong to its surroundings (with `repeats` a chunk may be written again, or cut short); `Spsc` maps them to "Thor has died" and to "Jane was killed, a
write failed, or Loki was there".  `CopiesFile` is the refinement of its safety part, `CopyCompletes` of
all of it.

*Faults*, each counted in `faults` and bounded by `MaxFaults`: `jane` and `thor`, a
kill at any point, between the writes of one chunk too; `disk`, a write of which nothing or a part gets to the file; `corrupt`, a
write by Loki to any block; `bind`, a `socket`, `bind` or `listen` that fails, which `server_loop`
does not notice; `files`, the limit on open files, which Thor meets in `accept` and Jane in
`socket`, since neither closes the sockets it leaves; `garble`, the overlapping `strcpy` of `thor.c:237`.  The last
is undefined behaviour: with the block-wise `strcpy` of the GNU C library it either
leaves the text right or drops commas (found by running it over a range of buffer
alignments), and then `parse_data` walks off the buffer and the process dies.  The model
chooses between the two.  The same call at `jane.c:240` only changes a text
that is compared with the hash and never equal to it.

*Allocator.*  `shm_alloc` and `shm_dealloc` are translated store by store.  They use
`radix_sort` by its result; `RadixSort` has its passes, and `SortedByDigits` says of each array
the allocator sorts that the passes give that result.  Six turns are written out, since no block number
has more digits.  `binarySearch` is the linear scan that is
compiled.  `orderly` in `Asgard` records whether the client has kept to areas of one size at a time and
freed the lowest first, as Jane, who holds one, does.

*Search.*  One action per turn of the loop of `sstring_compute`; `Call` and `Return` are its
ends, so a stream may be cut anywhere.  `int` is the conversion of a location, with a small `INT_MAX`.

*Configuration.*  The file is a sequence of lines of characters, with or without an end of line after the
last one; a word that only matters as a whole counts as one character, and a
blank stands for the tab and the carriage return too.  The words the program looks for (the names of sections and fields)
are sequences of characters, given by the constant `Spelling`, and `word` compares texts with them as `strcmp` does.  The runs spell
`port` and `PRODUCER` in two parts, the proofs take any spelling in which no two words are the same.  `row` and `col` are where `fgetc` is.  `mode` is the
place in `read_line`, and `s` and `k` are its text and key: what was collected stays in `s` until a special
character takes it.  Each section and each pair carries the row it was stored at, which no action
reads: it is there for the invariants.
`Bare`, `Given`, `FirstMeaning` and `SectionsAgree` read the same file line by line, the way a person would: they are
the reference that `ReadsWhatIsWritten` and `AcceptedIffAgreed` compare the parser with.
`Regular` files have empty lines, headers and pairs only: nothing is said of files with lines of other text, which the
parser leaves in front of the next key.  `CommentsAlone` asks for comments on lines of their own, which is all that the comment at
ini_parser.c:11 allows.  A comment behind a value takes the end of the line with it, so the text collected becomes the front of the
next key or name: `x = po #` and `rt = 7` set the port, `x = PROD #` and `[UCER]` open the producer's section.
`ValuesStayWhole` says what is left with such comments: `Ending` holds the lines whose key, and whose section's name, may be the end of
one that a comment has joined, and a field has the whole value of one of them.

*Ring buffer.*  `e`, `head`, `tail`, `curr_size` as in `q.c`; `added` and `removed` are the
results of the last calls.  `Queued` reads the ring from `tail`.

## 3. Runs

Every run is in `PROJECT.json` with its configuration.

| Run | Configuration | Shows |
|---|---|---|
| `faults` | `MCSpsc_faults.cfg` | up to one fault of every kind, at most four in one behaviour, in all orders: area, hash, mutual exclusion, whole reads, detection, order of the output, no hole after a disk fault, the search, and the refinement of `FileCopy` without liveness |
| `jane` | `MCSpsc_jane.cfg` | 2 kills of Jane and one write by Loki: every wait for a reply ends, Jane gets to the end, and without a fault `FileCopy` is implemented with its liveness |
| `alloc` | `Asgard.cfg` | allocator, areas of 2 and 3 blocks, frees in any order: a block is never listed twice, the free pool is sorted, the digit passes sort; for an orderly client whole and disjoint areas, nothing lost |
| `queue` | `Queue.cfg` | `q.c` implements `Fifo`; the counters agree |
| `substring` | `MCSubstring.cfg` | locations are right wherever the stream is cut; an occurrence is missed only behind a false start; the limits hold |
| `config` | `MCConfig.cfg` | an accepted file means what it says; a comment behind a value joins lines, but cuts and mixes no value; just the files that agree are accepted |
| `restart` | `MCSpsc_restart.cfg` | **violated**: after one restart of Thor the rest of the file arrives |
| `loki` | `MCSpsc_loki.cfg` | **violated**: a rejected chunk is tried again |
| `disk` | `MCSpsc_disk.cfg` | **violated**: Thor goes back to accept only when the send failed |
| `waits` | `MCSpsc_waits.cfg` | **violated**: Jane waits until Thor comes online |
| `occurrences` | `MCSubstring_occurrences.cfg` | **violated**: a pattern that occurs is found |
| `config_range` | `MCConfig_range.cfg` | **violated**: `USE_BUFFERS` is between 1 and `BUFFERS` |

### What the violated runs found

* `restart` (README.md:48): the reply holds the whole request and is compared with the
  bare hash, so it never matches and `failed`, once set, stays set.  After Thor was started
  again Jane sends the same chunk for ever.  Seen in the running programs too.
* `loki` (jane.c:313): the comment says "re-try"; the loop reads the next chunk.
* `disk` (thor.c:285): `errno` is also set by the write, so Thor leaves a connection on which
  he has just replied.  Jane then waits there for ever.
* `waits` (README.md:44): `client_socket_init` makes a socket for each try and closes none.  When the
  limit on open files is reached before Thor comes, `socket` fails for ever.
* `occurrences` (README.md:23): `ab` is not found in `aab`.  `MissesOnlyAfterPrefix` says how far
  this goes: bytes right before a missed occurrence look like the beginning of the pattern.
* `config_range` (config.ini:13): the test asks for a number at most 0 and above `BUFFERS` at once.
  The modules of the composition assume the range (`RealmAssumption`); `UseBuffers` outside it
  ends in a failed assertion of `shm_alloc` or `shm_dealloc`.

### Where code and comments disagree without a run of its own

* The range of `BUFFERS`: config.ini:9 and config.ini:30 say "range is <2, 102398>", the tests at ini_parser.c:208 and
  232 take 102399 too.  `Supported` follows the code, so `TypeOK` and `AcceptedIffAgreed` hold with 102399; the run `config` has
  files that ask for 102398, 102399 and 102400 buffers, and the first two are accepted.
* asgard.h:16, "guaranteed to be sequential": `shm_alloc` takes the first free blocks, wherever they are.  With two areas of
  two blocks, the first of them freed, an area of three gets the blocks 1, 2 and 5 and overlaps the one held.
* asgard.h:21, "frees up the entnire buffer": the loop at asgard.c:71 ends at slot `num - 1`, so an area that is not at the
  front of the busy pool is not freed, or not as a whole.
* Jane, who holds one area, meets neither of the last two.  `AreasAccounted` says for which clients all is well, and is false
  without `orderly`.

### Bounds

* Files of 3 chunks: a retry or loss involves the present chunk and
  its neighbours, and a short file leaves room for more faults.
* `MaxConns`: a connection is made at the start and after a kill or a death, a failed write or
  reply.  The 5 of `faults` are one more than those of its bounds can add up to, so that the bound never keeps
  Jane from connecting where she would otherwise; the other runs have one per kill and one more.
* At most four faults in one behaviour of `faults` (`FewFaults`), of any four kinds, which keeps the run short; all
  seven kinds together, in 5.5 million states, give the same result.
* `MaxCopies = 2` tells "once" from "more than once".
* Two blocks in the composition, since Jane holds one area; what the pool
  size changes is proved for all sizes (section 4).  The allocator has 11 blocks, for areas of two
  sizes, an array that is both full and empty at times, and numbers of one and two digits.
* Ring of 3 slots and 3 elements: every position of `head` and `tail`, full and empty.
* Search: patterns up to 3 and texts up to 11 letters out of two, pieces up to 3, room for 3
  locations, and a largest int of 7: each limit is passed.
* Configuration: more than six thousand files, of at most 14 lines: every choice of the values, the buffers at
  102398, 102399 and 102400, and a good file with two odd lines, parts of words among them, or four equal ones anywhere.  `MAX_CONFIGS = 5`, one more than the larger section of the good file has pairs
  or than needs the files' sections, so that insertions both fill and exceed it.
* `faults`, `disk` and the allocator's run do not check
  deadlock, because there the code does stop: both processes wait for each other after a failed
  write, and the assertion of `shm_dealloc` can be the only thing left to do.  All other runs
  check it; `Terminated` is the one state of the composition that is meant to last.

### Fairness

Weak fairness of Jane's and of Thor's own steps: the kernel schedules both, and whoever
runs them starts a killed process again (the README of the program speaks of a consumer
that comes back).  No fault has to happen.  No fairness is assumed of single actions:
a loop that repeats, like the endless resend, is a fair behaviour.

## 4. Proofs

`tlapm` checks every proof.  The theorems hold for every pool size, area size, file length,
number of connections and number of faults that the named assumptions allow.

* `ArrayOpsProofs`: what the sort and the shift return for the arrays that occur
  (`RadixSortResult`, `MoveArrayResult`); `RadixSortSorts`, the result is ascending and has the
  values of the array; `DigitPassesSort`, the passes over the digits give that result for every array of
  numbers below a million.
* `ShmPoolProofs`: `AllocFromFresh`, `DeallocRestores`.  One allocation from a fresh pool gives
  block 1, and its release gives the fresh pool back, for all sizes.
* `AsgardProofs`: `PoolInvariance` is `Spec => []AInv`; from it `PoolTypes`, `NoBlockListedTwice`,
  `FreePoolAscends`, `NothingLeaksOrIsShared` (whole and disjoint areas for an orderly client) and
  `AllocatorSorts`.
* `SpscProofs`: `Invariance` is `Spec => []IInv`; from it `TypeCorrect`, `SameArea`,
  `RetryIsSound`, `OneAtATime` and `ReadsAreWhole`.  `ReadableHashInjective`, of `Hex`: two hashes with the same
  text are equal, so that `Realm` may compare hashes where the code compares texts.
* `SpscCopyProofs`: `CopyInvariance` is `Spec => []CopyInv`; from it `OutputIsInOrder`,
  `CorruptionNeverWritten`, `SearchSeesOutput`, the action property `FailedWriteIsLast`, and
  `ImplementsCopy`: each step of Jane, Thor or Loki is a step of `FileCopy` or leaves it alone.
* `SubstringProofs`: `SearchInvariance` is `Spec => []SInv`; from it `SearchTypes`,
  `RoomForLocations`, `LocationsAreOccurrences` and `MissesAreShadowed`, for every pattern, every
  stream however cut, and every width of `int`.
* `ConfigProofs`: `Reading` is `Spec => []CInv`; from it `FieldsAreTyped`, `WhatIsWritten`, `ValuesKeptWhole`
  and `AcceptedMeansAgreed`, for all files, any number of lines, any alphabet and spelling, and every `MAX_CONFIGS`.
* `QueueProofs`: `RingConsistent`, and `QueueIsFifo`, the refinement of `Fifo` by `Queue`.

The theorems about the state machines, but for the invariances, state properties that the runs check too,
and each inductive invariant was checked on the configuration of its run before it was proved (`CInv` on the
odd lines alone, with `MAX_CONFIGS = 2`).

Assumptions: `BuffersAssumption`, `RealmAssumption` (`UseBuffers` from 1 to
`members`, as `config.ini` demands and nothing enforces), `ThorAssumption`, `QueueAssumption`,
`ClientAssumption` (sizes from 1 to `members`: `shm_alloc` asserts the upper end, and nobody asks for zero),
`SubstringAssumption` (a pattern is not empty) and `ConfigAssumption` (`MAX_CONFIGS` is positive, files are
sequences of lines, the end of a line is not a character of one, and words are not spelled alike).  `AllocatorSorts` assumes fewer than a million blocks;
`asgard_config_read` refuses more than 102399.

### Why the invariants need their parts

`IInv` (`SpscInv`).  `NoConcurrentUse` is not inductive: that
Thor serves only while Jane waits follows from `WireInv`, that on Jane's
connection there is a request, or its service, or its reply, and never two of them.  `WireInv` in
turn needs `ConnInv` (a connection that Thor has not opened carries nothing) and
`ThorInv` (he serves on an open one).  `ReadsAreWhole` needs `RequestInv` too: while Jane is
not killed, the request under way names her present area and hash, also when Thor
was killed and she connected again.  `RetryKeepsBuffer` rests on `PoolInv`: since her pool is
fresh or holds just her area at block 1, freeing and allocating gives the same one.
The proof of each part takes Jane's steps, Thor's and Loki's one by one.

`CopyInv` (`SpscInv`) adds to `IInv` what the output has to do with Jane's place.  The heart is `OrderInv`:
the last chunk written is the one Jane read last or the one before, and a reply on her connection, or Thor at
the search or the reply, means that it is the one she read last.  Without that clause nothing keeps
her from reading on over an unwritten chunk when the reply comes.  What Thor writes is what she
read because of `IInv`: the request in his hand is hers and the area is whole.  `PlaceInv` says that she is at the
end only when the whole file was read.  "Exactly once" needs `OnceInv`: while no process dies, a
request that is still to be served is for a chunk that is not written yet; it holds
only because there is one connection and Jane never fails then, which is `OneConnInv`.  The same part
carries `FailedWriteIsLast`: after a failed write Thor is on his way to `accept` or back there, `errno` is
set on the way, and no other connection will come.  `SourceInv` follows a chunk from the area to the hash, the
check and the file, without saying which chunk it is, so that it holds
while Loki writes too.  `PartInv` is the same for the write in two parts: what `fwrite` took is still what is in the area, so
that the rest of the chunk goes with its front, and what a kill leaves is a part of the chunk Jane offers.  Then `OrderInv` keeps her at that
chunk: a part is never all that is written of the chunk before the one she goes on to.  `SearchInv` counts the chunk that is written but not searched yet as
seen, since a kill of Thor may come between the two.

`SInv` (`SubstringProofs`).  `Placed` says what the number `state` stands for: the last bytes
of the stream, those of earlier calls included, are the beginning of the pattern; that is why cutting
does not matter.  `Located` and `Apart` follow each location back to its bytes.
`Settled` covers the misses: each place of the stream is that of the match under way, or
reported, or refuted by a byte, or lies in bytes that look like the beginning of the
pattern.  When a match breaks off, the places within it can only be of the last two kinds.

`AInv` (`AsgardProofs`).  `WellKept` holds for every client: no block is in two slots of the two pools, and the
free one ascends.  `shm_alloc` writes to slots at the end of the busy pool, and
`shm_dealloc` to the end of the free one, over what is there; so a free by a client that is not orderly may
lose blocks, but never doubles one.  That nothing is lost needs
`OrderlyInv`: areas of one size begin at multiples of that size (`Aligned`), so the first blocks of
an ascending pool are again one such area; blocks of the two pools add up to the segment, so the slots
written to are empty; and the busy pool ascends, so the lowest area is at its
front, where the loop of `shm_dealloc` looks.

Digit passes.  One pass (`TurnSorts`) orders the array by the digit and then by the index before the pass: the
slots of a bucket are filled downwards from its last index (`SlotOrder`), and they are all filled and each once
(`SlotsFilled`).  If the array was in order by its last digits before, it is then in
order by one more (`DigitThenRest`), and how often each value occurs stays (`RanksKept`).  A turn is left
out only when no value has that digit.

`CInv` (`ConfigInv`).  Three of the four invariants of `Config` speak of the end of a run; the work is done on the way there.
`LineInv` says for each kind of line (empty, header, pair, each perhaps with a comment) what mode, text and key are
at each place of it.  It compares them with `Sofar`, what was read of the line without its blanks.  Without comments
behind values they are just what was read; with them, something may stand in front (`Over`): what was read is then the end of
the text.  The value is what is behind the `=` in any case, since the text is cleared there, and that is why it stays whole.  From `LineInv` follows what each step of `ini_parse` does to the
sections (`ParseStep`: nothing, a section, a pair, or the end of the file), and by
`HeadersInv`, `GenuineInv` and `PairsInv` the sections and pairs stored are those of the lines behind, in order.
`LimitInv` counts them: while it reads there was room for all, and at the end these are all the file has.
While pairs are applied, those that remain (`Pending`) are behind those applied, so `AppliedInv` can say that a field has
the value of the first line applied that tells it one; and a number of buffers that is 0 or out of range has
ended the process, so the first number given is the one that counts.  `EndInv` needs the other direction as well: wherever the process stops,
the sections do not agree.

The facts about all indices of an array, and all places of a line, are proved by a least counterexample, since the
induction theorems of the library take an operator as a parameter and the provers cannot instantiate it.
`UpTo` in `ConfigProofs` is that argument once and for all, for a set in place of a predicate.  `RecursionUpTo` uses it
to show that a function that follows given steps exists, so what `atoi` and `Solids`, which choose
such a function, yield can be proved for every text.

### Model-checked only

* Liveness, out of the prover's reach: `RequestAnswered`, `JaneFinishes`, and `CopyCompletes`, the
  refinement of `FileCopy` with its liveness.
* The violated runs, which are counterexamples.

## 5. Not modelled

* The threaded reader (`jane.c` under `threaded`, with `free_buffers`): no build defines the macro,
  and the code does not compile with it.  `shm_buffer`, `thread`, `t` and `queue_init` are not
  declared, `get_ready_buffer` returns an `Elem *` as a `char *`, and the braces of `client_loop` do
  not balance.  It has no behaviour to model.  `q.c`, which it would use, is modelled by itself.
* The spin lock: each process has one thread as built, and no holder of a lock takes it again, so
  `lock` returns at once.
* Failures of `fopen`, `shmget`, `shmat`: they end in a failed assertion at the start.
* A `fread` that fails is an end of file to the code; I/O errors of the input are left out.
* `server_truncate_output_file`, `reverse`: no callers.  `toBin`, `nibbles` and the functions
  `test*`: only in tests that no build contains.
* A second producer or consumer at the same time: the program is for one of each.
* In configuration files: more than 1023 characters of text in a row (the size of `s`), negative
  numbers, numbers that no int holds, NUL bytes.
* What stdio keeps of a chunk when `fflush` fails, and would add to a later write: after a failed write nothing more is
  written until one of the two is started again (`NoHoleAfterDiskFault`), and of the output after that nothing is promised.
* Logging and all wording.

## 6. Plan

The modelling is complete but for section 5, and each safety property of the passing runs is proved.  What is left to
TLC is liveness.
