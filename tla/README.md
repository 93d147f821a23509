# A TLA+ project for jana4ml4fpga

jana4ml4fpga is a set of JANA2 plugins that reads detector data (from EVIO
files or, over TCP, from the cDAQ of a beam test), parses it, reconstructs GEM
and TRD hits and writes ROOT trees and monitoring histograms.  Beside them are
the tools of the streaming readout (SRO).  This directory models the parts in
which state outlives an event or is shared between threads or processes, and
the algorithms whose cases are hard to test.  Paths below are relative to the
repository; the C++ is under `src/`.

## 1. Inventory

A JANA application is a topology of one *source* (called by one thread at a
time), *factories* (called by any worker thread, for the event it holds),
*processors* (likewise, or one at a time) and *services* (shared objects).

| component | state it keeps | operations | talks to | what is hard | what makes it correct |
|---|---|---|---|---|---|
| `plugins/gemrecon2`, calibration of `libraries/gemreco` | pedestal averages and the event counter (one mutex), rolling baselines (another), `m_calib`, `m_frozen`, `m_freeze_once` | `Reconstruct`, `process_event` x2, `freeze` x2 | the flat tree writer, one event per worker | lock-free reads after a flag; two snapshots under two locks; `call_once` whose body may throw | frozen once, whole, never changed; learning bounded; the two halves made from the same events, up to those in flight; few events averaged without being counted |
| `libraries/gemreco` steps, `extmath` | none (a workspace per event), two mapping tables | group, decode, merge, peaks, clusters | `Reconstruct` | APVs that an event lacks, gaps, edges | agrees with the plugin it replaces |
| legacy `plugins/gemrecon` | pedestals learned over the first events, the mapping | one factory per stage, the monitoring processor | JANA, ROOT | the same; plots of one event drawn by three processors | every sample once, a peak on the APV that saw it, plots of one event together |
| `plugins/fpgacon`, `plugins/ml4fpa_dqm` | one static exchange buffer of the FPGA | cluster, exchange, draw | an FPGA, ROOT | more clusters than the buffer takes, edges of the time window | the energy of a window is kept; an answer goes to the event it was made for |
| `plugins/cdaq` | listener thread, `m_receive_fd`, count of ends of run, place in the TCP stream | `Open`, `WaitForClient`, `GetEvent` | cDAQ client; JANA | client and source start in either order; a read fails in the middle of a message; `kTRY_AGAIN` from six places; one accept only | framing kept; in order; complete if it says so; ends when the client is gone |
| `libraries/tcp_daq`, `tcp_sender` | static `TCP_FLAG`, socket, retry timer | `tcp_event_snd` | the source above | messages lost between an error and the retry | see above |
| `libraries/evio` HDEVIO, sources `CDAQfile` and `CDAQfileMT` | position, map of blocks and events, buffers of file and user | `readNoFileBuff`, `read`, `readSparse`, `rewind`, `GetEvent` | JANA | cut files, empty blocks, retry with a larger buffer, words against bytes, byte order | every event once and in order, then the end; what is lost is known |
| `plugins/CDAQfileMT` mmap reader | block and event position, events left | `NextEvent`, `Emit` | JANA | the same files, without a kernel that reports the end | the same |
| `libraries/rawdataparser` | the event being filled, positions in nested loops | `ParseEVIOBlockedEvent` and the banks below it | the sources | blocks of several events from several modules; a word lost; a damaged length | hits reach their event; a loss stays where it happened; the loops end |
| `libraries/evio_sro_parser` | open file and position, count of cut tails; cursors of three nested loops | `ReadNextBlock`, `ParseBlockBody`, `ParseBlockBodyLazy`, `DecodeDeferredFrame` | `evio6_file`, `sro_dump` | a cut tail followed by the next file; damaged lengths; two ways to parse one block | damage stays local; lazy gives what eager gives |
| `plugins/evio6_file` | body of a block that outlives the read, cursor over its frames, fill contexts per thread, one output file | `Emit`, `Preprocess`, `Unfold`, `ProcessParallel`, `Finish` | JANA (block level to event level), ROOT | parsing long after reading; parallel fills | bodies stay readable; every row once; the file closes |
| `executables/sro_stream_tools` | ring of records between two threads, the block being filled | `sro_send`, `sro_recv` | each other over TCP; disk | four framings told apart by the first words; ring full or empty; a sender that dies, a disk that fails, Ctrl-C | stored whole and in order; nothing dropped that need not be; the end is reached |
| `plugins/flat_tree` | one context per thread, the cap on samples | `Init`, `Process`, `Finish` | factories, ROOT file | an exception in the middle of a row; the cap by `fetch_add`; threads that never come back | a row is of one event; the cap is kept; every event once |
| services | ROOT file, monitoring period, loggers | `GetHistFile`, `ShouldProcessEvent` | all plugins | the period and the smallest event number | plots of the chosen events |
| printers, examples, deprecated plugins, `jana4ml4fpga`, `sro_dump`, original testers, Python and web | - | - | - | - | - |

`PROJECT.json` lists the same components with their files, and under `hazards`
each hard spot at its line with the properties aimed at it.

## 2. Modules

| module | models | proved about |
|---|---|---|
| `CalibrationLifecycle` | abstract: a snapshot is published once and every later event uses it | in `Refinement` |
| `GemCalibration` | `GemRecoService::Reconstruct` by several workers, `PedestalBuilder`, `SampleAnalyzer` | `GemCalibrationProofs` |
| `GemRecon` | the factories of the legacy plugin, `GemMapping`, and `extmath`: runs above the noise, peaks, their pairing | |
| `GemReco` | the stages of `libraries/gemreco`; EXTENDS `GemRecon` to be compared with it | |
| `DqmMonitor` | the three processors that draw, and which events; `F125ClusterFactory` and `FpgaExchangeFactory`; EXTENDS the two above | `DqmMonitorProofs` |
| `CdaqLink` | the TCP connection and the messages on it (external, and `tcp_event_snd`'s layout) | |
| `TcpEventSender`, `CDaqEventSource` | its two ends | |
| `CdaqStream` | composes the three | `CdaqStreamProofs` |
| `OrderedRead` | abstract: the events of a file in order, then its end | in `HdevioRefinesOrderedRead`, `MmapRefinesOrderedRead` |
| `EvioFile`, `EvioSwap` | blocks, events and cuts of a file; both copies of `swap_bank` | |
| `EvioReaders` | `readNoFileBuff` with the serial sources, `NextEvent` with `Emit`, on one file | `EvioFileProofs` |
| `HdevioModes` | `read`, `readSparse`, `MapBlocks`, the map file, `rewind` | `EvioFileProofs` |
| `DataBankParsers`, `EvioBlockParser` | the EVIO block parser: its state and the banks of a module, the walk over a block | |
| `EvioRoundTrip` | events as the DAQ writes them, whole or damaged, through the parser | |
| `LinkAssociations` | the walk with two pointers of `LinkAssociations.h` | `LinkAssociationsProofs` |
| `FlatTreeWriter` | `FlatTreeWriterProcessor` and the buffers of its rows | `FileWriterProofs` |
| `RowsWritten` | abstract: rows come to a file in clusters, each once | in `WriterRefinesRowsWritten`, `PipelineRefinesRowsWritten` |
| `SroPipeline` | `ReadNextBlock` over a list of files, by `fread` or `mmap`; `Emit`, `Preprocess`, `Unfold`, `ProcessParallel`, `Finish` | `SroProofs` |
| `SroFrameSetParser` | `WalkBlockBody`, `ParseRocBank`, the payload loop, `EnsureDecoded`, `DecodeDeferredFrame` | `SroProofs` |
| `SroLazyParse` | one block, possibly damaged, parsed eagerly and then lazily | `SroProofs` |
| `SroSend`, `RecordRing`, `SroRecv` | the senders of a stream; the ring; the receiver with its reader and writer threads | `FileWriterProofs` |
| `SroStream` | composes the three | `FileWriterProofs` |
| `ProofFacts` | facts about naturals, sequences and recursive functions that several proofs cite | |
| `MC...` | constants for TLC | |

Operators named "Mutant" are plausible bugs of the definition that follows
them; they are part of no specification, and `PROJECT.json` names the property
each of them breaks.

### GEM calibration

A worker is at one of the places of `Reconstruct` (`pc`).  Each call of a
builder is one step, because it holds its mutex throughout; the load of
`m_frozen`, the check, the entry of `call_once`, both halves of the freeze,
the store and the return are steps of their own, and so are the two reads of
`m_calib` on the lock-free path.  `std::call_once` is `m_freeze_once`:
"ready", "running" (others block), "done", and back to "ready" when the
lambda throws.  A sample is not a number: a pedestal is the *set* of events it
averages and a baseline the *sequence* of events in its window, so that a
property can say which events a calibration was made from.  What an event
holds for an APV is `absent`, `empty` (hits of a truncated frame, without
samples) or `data`; only that decides whether `Average::mean()` throws.  The
exception leaves the loop over the APVs in the order of their ids, so those
before the silent one are already averaged.  Memory order: the store is a
release and the load an acquire, so a reader that sees `m_frozen` sees all
writes before it, and interleaving is enough.

### GEM and TRD reconstruction and its monitoring

`GemRecon` and `GemReco` are operators from an event to the result of each
stage.  Samples are small integers; quotients are rounded down; the noise of a
channel is its variance, so that comparisons are made of squares and no root
is taken.  A chip has `Channels` channels (128 in the code) whose order is a
permutation, as in `APVChan`.  A line of the mapping file is a record.

`DqmMonitor` is one slot of JANA's event pool with its factories, stepped
through one factory and one processor at a time: the README of `gemrecon` runs
it with `-Pnthreads=1`, and with more threads its counter of events is a data
race of which nothing is claimed.  The processors count events on their own and meet in a directory
named by that count.  What the FPGA answers is a choice.  `GemReco` is compared
with `GemRecon` stage by stage (`ParityWithLegacy`), each fed with the legacy
result of the stage before, for the code says parity and not that errors
cancel.  Left out: integral histograms, canvases, the cells of the TRD table
and the electron flag.

### cDAQ stream

A message is a header of ten words, three cDAQ words and the payload, and its
payload is cut into `PayloadUnits` pieces so that the link can break inside
it.  `GetEvent` blocks in three reads and is three steps; the return without
a client (`kTRY_AGAIN`, nothing changed) is a stutter.  `TCP_FLAG` goes
0 -> 1 -> -2 -> -1 -> 0 as in the code, each call in an error state losing its
message, because `tcp_sender` does not repeat it.  A send on a broken
connection fails, is swallowed by the kernel, or kills the client (SIGPIPE is
not handled).  After an ignored read error the rest of the payload is
uninitialised: the parser may accept it or throw (both are allowed).  Left
out: the event number `GetEvent` counts (the parser replaces it) and the
ticker; a header shorter than ten words is a failed read like none at all.

### EVIO files

A file is a sequence of blocks of events with their lengths in words, and the
size at which it was cut.  Both readers of `EvioReaders` run on the same file,
each at its own pace: that is how "mirrors" is stated.  `readNoFileBuff` keeps
the quirks of the code: a block header is read together with the first seven
words of an event, the block length in words is compared with a position in
bytes, an empty block is the end of the file, an event below three words is
passed over.  `HdevioTooSmall` includes what the source does (the new buffer
length and `kTRY_AGAIN`).  In a file of the other byte order a word knows its
width and its order ("foreign", "native", "spoiled"), and the two copies of
`swap_bank` are operators on such words, with a recursive function for the
banks inside banks.  `swap_block` counts 16 bit numbers in a `uint16_t`: the
constant `Uint16` is how many values that has, 65536 in the program; the run has
8, so that banks and segments of four words and more show what is left of theirs.
A length of all ones (`AllOnes`) is -1, for one is added to it modulo 2^32.  `evio_events` is a set: the list of the code is in the order
of the file, and its front is the event that is before all others.

`HdevioModes` has the buffered and the sparse way to read, each call one step:
the chunk of the file in the buffer, the map of the blocks and the place in it.
The map is the set of the events in it, and the place in it (an iterator over the
blocks and one over the events of a block) the event that it comes to next or
has passed.  The file buffer holds a block header at least, and neither the
first buffer for blocks nor their limit is larger than it.
A map file of an earlier run leaves the iterator over the blocks unset; the
first sparse read then uses it, and the model stops ("wild"), claiming nothing.

### EVIO block parser

A word is described by all that it can be taken for: a length, the header of a
bank, a data type, a count.  A turn of a loop is a step.  A read that would
leave the block stops the parser as "wild": the code trusts the length and goes
on with whatever is in memory.  One word stands for a whole time bin of an APV
and one object for the 128 that the code makes of it.  The code refuses blocks
that were built of several events (`events.size()` is 1).  The formats of the
CAEN TDC and of the F1, configuration and control banks are skipped by their
lengths: they add objects, and nothing reads these while parsing.
`LossIsLocal` says of a lost word what it costs in its own bank and that it
costs nothing in another (`StaysInBlock`).

### SRO files

`SroPipeline` names a timeslice by its block and an event by block and frame.
JANA is external: its pools bound the timeslices and events in flight, it hands
any parsed timeslice to the unfolder, and takes one back when its events are
done.  `ReadNextBlock` is one step, because one thread calls it, and goes past
cut tails; a list of more than one file is what `sro_dump` gives the reader, the
plugin gives one.  The lists are kept as one sequence of items with the number
of their file, each with the frames of its
block: whether the finder passes them and how many hits they have.  The body of a block is followed by ownership, not by words: a
vector of the block's own, or a pointer into a file that somebody must keep
mapped.  Calls into ROOT are external: a context keeps rows until `ClusterRows`
of them ask for a flush.  `GetThreadContexts`, `Fill`, the lock and the commit
are steps of their own.  A frame passes the finder or not.

`SroFrameSetParser` has one action per turn of a loop.  A word is what it can
be taken for: a length, a tag, a segment header, entries of the payload map.
That lets a damaged length lead the walk into words that were not meant as
headers; lengths and their sums wrap at `Modulus`.  Hits are known by the
position of their word, so that "the same hit" needs no bit fields;
`payload_slot` is the payload id, from which it is computed.  A word past the
end of the block, which the code may read as a map header, can hold anything
(`MapLens`).  The counters other than `structure_errors` are left out.
A length that wraps around can send a loop back to where it was, and it then
appends or counts for ever: a walk is followed until it has counted more than
one walk of the block can (`Overrun`, with the bound `MaxErrors`).
`SroLazyParse` parses the same words twice to compare the two modes, which one
run of the program does not.  What damage may cost is said in two parts: the
banks being walked nest (`BanksNest`), and the hits of all other banks are
found (`HitsElsewhereFound`).  Both, and the end of the walk
(`EventuallyParsed`), are stated for blocks in which no length wraps
(`NoneWraps`): the run has blocks with one that does, and in them all three
fail.

### SRO stream

A connection carries words as their sender wrote them: the number, the byte
order and, for a payload, the record it belongs to.  A sender uses one of the
framings that `sro_recv` knows, or a fifth that it refuses, and may be killed
at any word.  The reader thread of `sro_recv` sees the first ten words, decides
the framing, and moves record after record into `RecordRing`, whose `Push` and
`Pop` are atomic because they hold the mutex; both wait with a timeout, so a
lost notification only delays.  The writer thread packs records into blocks and
may fail.  Ctrl-C, the idle timeout and the limit on bytes end the reader at
the places where the code looks at them.

### Flat tree

A worker fills a row group of branches by group of branches; a factory may
throw before any of them.  The buffers behind a row keep what they held.  With
one thread rows go to a tree in the histogram file, with more to a tree per
thread that a `TBufferMerger` moves to the file every `FlushEvents` rows.  The
index into the flattened samples counts modulo `IndexRange` (16 bits in the
code): the slices of a row are claimed to be its own as long as its samples are
fewer, for the last index of an event with that many wraps to the beginning.
`Finish` writes the trees of the contexts one after the other, each in a step,
after the last `Process` has returned.

## 3. Runs

| run | bounds | shows |
|---|---|---|
| `gem` | 2 workers, 2 APVs of which one may be missing or truncated; warm-up of 1; both windows and `freeze_after` are 2 of 5 events, for all three are 500 in the program | how far learning overshoots, how the halves of a calibration differ, what events that throw leave behind, when no event is reconstructed any more, that the freeze happens otherwise; refinement of `CalibrationLifecycle` |
| `gem_recon` | 1 slot, 5 kinds of events (whole, without an APV, truncated, empty), 4 events in 2 files, chips of 4 channels, a table of the FPGA for 4 clusters | plots of one event go together, a peak lies on the APV that saw it, the old and the new reconstruction agree, energy and answers of the TRD are kept |
| `cdaq_run` | a message of every kind around the data of a run, payload of 2 pieces, one failure at any unit | framing, order, completeness, end of the source |
| `evio_files` | closed files of up to 3 blocks of up to 2 events of 3 or 9 words; files cut at every word, one of them with a first event of less than a quarter of its block; files of the other byte order with every kind of bank, whole, damaged, or too long for a `uint16_t` of 8 values; first buffer of 8 words | both readers implement `OrderedRead` with its liveness; what a cut costs; the two copies of the swapping agree |
| `hdevio_modes` | closed and cut files, 11 kinds of events, chunk of 23 words, buffers of 16 (file) and 8 (user), a whole, a torn or no map file, 3 requests, 1 rewind | what the buffered and the sparse reading give |
| `evio_round_trip` | 8 blocks with every bank that is modelled; any one word lost; any length replaced by 0, 1, 5, 200 or 255 modulo 256 | whole events come out whole; a loss stays local; parsing ends |
| `link_associations` | every two sorted vectors of up to 3 of 6 addresses, at 4 levels | the walk links what comparing all pairs would |
| `flat_tree` | 3 workers or one in either mode, up to 5 events, any group may throw, 2 events with samples, flush after 2 rows | a row is of one event; the cap is kept to one event per thread; refinement of `RowsWritten` |
| `sro_pipeline` | 2 workers, pools of 2, clusters of 2 rows; lists of files with cut, empty and malformed ones; eager, lazy and no parsing, both readers | bodies stay readable, totals agree, nobody waits for ever before the file is closed (deadlock); refinement of `RowsWritten` |
| `sro_parse` | three blocks of up to three ROC banks of every kind, each with any one word replaced by any of some 18 lengths, 6 tags or 2 segment headers; four of the lengths wrap, and lead back to the bank itself, one word, into the bank before it or into another ROC bank | damage costs no more than its bank and the parser ends, unless a length wraps (section 6); lazy agrees with eager even then, wherever the walk ends |
| `sro_stream` | every framing, two senders in turn, damage, a full disk, Ctrl-C, limits; ring and link of 11 words, blocks of 5 | stored whole and in order, nothing dropped, each record unchanged from the reader through the ring to the file (`HandedOver`), the end reached with the ring drained |
| `sro_keep_listening` | the same inputs | (violated) the sentence of the README on `--keep-listening`, section 6 |

Why the bounds are enough.  A freeze needs one worker inside `call_once` and
one learning; a silent APV needs one with data beside it; `FreezeAfter` lies
between the warm-up and the end, and the windows are full when it is reached, so
that an event past it is not averaged and pushes the oldest out of a baseline.  The stream properties relate a message to the
next one and to the ends of run around the data; a payload of two pieces has an
inside to break at; a second failure only matters for the client, whose later
connections are never read.  Event lengths of 2, 3, 7, 9, 10 and 16 words are on
both sides of every constant of the readers (3, 7, 8, 15, the user's buffer and
the chunk), and empty blocks stand first, in the middle and last.  In the
parser every module is followed by another of the same kind and every bank by
another bank.  Walking two sorted vectors, a turn of the loop sees a range of
equal addresses on each side and what follows them: three entries give ranges
of one and two with a neighbour on either side.  Two workers are one in the file
and one waiting; frames that pass first, in the middle, last and not at all are
the cases of `Unfold`.  In a ring of 11 words records of 2 to 10 words wrap at
every place and the largest fills it; one record more than a block makes the
writer begin another.  A third worker in `flat_tree` lets one event overtake
two.  A slot of the monitor keeps the objects of its factories from event to
event: four events fill and pass the warm-up of the pedestals (2), and the
second file starts the numbers again.

Deadlock is checked in the runs that do not say otherwise; `Done`, `Stopped` or
`Returned` is the step of a state in which everything came to its end.  It is
not checked in `gem_recon`, `hdevio_modes` and the `sro_stream` runs, which stop
when their bounded input is used up.

## 4. Fairness

* `GemCalibration`: weak fairness of `Reconstruct(w)` for each worker.  A worker
  inside `Reconstruct` is a running thread; `call_once` may block it, and then
  it is not enabled.  No fairness for `Start`: JANA need not have another event.
* `CdaqStream`: weak fairness of `GetEvent`, which JANA repeats until the source
  finishes, and of the listener thread.  None for the client and the network.
  `ClosedLinkEndsSource` is therefore a promise of the source alone.
* `EvioReaders`: weak fairness of each reader, again because JANA repeats the
  call until the source finishes or throws; `OrderedRead` demands as much.
* `EvioRoundTrip`, `LinkAssociations`, `SroLazyParse`: a loop of one thread goes
  on.
* `SroStream`: weak fairness of the sender's program and of each thread of
  `sro_recv`, three processes that the system schedules.  None for dying, for
  Ctrl-C, for the disk and for the idle timeout.
* `DqmMonitor`, `FlatTreeWriter`, `HdevioModes`, `SroPipeline`: none; only safety
  is claimed.

## 5. Proofs

`GemCalibrationProofs` proves, for any finite set of workers, any set of APVs
and any parameters:

* `TypeCorrect`, `OneEventOneWorker`, `FreezeRunsOnce`: the inductive invariant
  is `IInv == TypedInHand /\ OnceProtocol` with `TypedInHand == TypeOK /\
  EventsInHand`.  `TypeOK` is not inductive by itself: that a worker that is
  not idle has an event in `1..dispatched` is needed where `result` and `used`
  are updated.  `OnceProtocol` ties `m_freeze_once`, `m_frozen`, the parts of
  `m_calib` and the places of the workers together: mutual exclusion in the
  lambda and "the parts are there once the flag is" hold only jointly.
* `LockFreeReadsAreWhole` and `FrozenStaysFrozen` follow from `IInv`.
* `Refinement`: every step of `GemCalibration` is a step of
  `CalibrationLifecycle` or a stutter; the store of `m_frozen` is `Publish`,
  the end of the lock-free path is `ApplyTo`.
* `LearningBound`, `AveragesAreCounted`: from `LearnedInv`.  Each event counted
  past `FreezeAfter - 1` is charged to a worker that cannot count (again) before
  the freeze, or to a lost event: an event whose freeze throws was counted and
  lets its worker go back.  The events that were lost *before* they were counted
  are some set `U` of lost ones, which the invariant quantifies over
  (`Uncounted(U)`): they are in some of the averages although the counter does
  not know them.  But for `U`, what is averaged was counted, within the window.
* `SnapshotsAgree`, that is `SnapshotsAgreeUpToInFlight` for all windows, those of
  the defaults included.  `Known(a)` are the events in the rolling window of an
  APV and those that workers bring there.  `LearnedInv` says that of the averages
  only `U` and what is older than the window is not known (`DroppedBut`), and that
  what is known and not averaged came too late for it (`LateBound`).  While a
  worker is between the two snapshots none of the others comes back from the
  freeze, so that the windows move away from the first snapshot only by what the
  others have in hand (`BetweenSnapshots`), one event each; `FewTorn` keeps the
  bounds from the second snapshot on.
* `SilentApvIsFatal`, that is `ClosedWindowIsForever`: with the window closed no
  step gives the silent APV an average, and none gets past the freeze.

`CdaqStreamProofs` proves `StreamInvariant` and from it `KeepsItsPlace`, that
is `StreamInStep`, for every script of messages, every size of a payload and
any number of cuts.  The property looks at the next unit on the wire; the
invariant looks at the whole stream, the wire and, while the link is open, what
the client has still to send.  `SourceInv` says that the stream is the rest of
the message whose header the source has taken, followed by whole messages, each
later than the one before; `SenderInv` says where in its message the client is;
`DeliveredInv` says that what was delivered is in order, whole but for the
last, and before all that is in the stream.  A cut keeps a prefix of the
wire, and a prefix of such a stream is one whose last message may be torn,
which is why the torn message has to be allowed for as the last one.
`RunCompletes`, that is `RunIsComplete` for a client with the messages of one run
(`OneRun`), needs one thing more, that no message is skipped while the connection
lasts.  Then an end of run that was counted stands behind the events that were
taken since the one before, and the second of two can only be the last.

`SroProofs` proves three results about the pipeline.  `BodiesReadable`, that is
`BodyStaysReadable`, holds for every list of files, all sizes of JANA's pools, any number of workers and either
reader.  The invariant, `BodyInv`, says what keeps a body readable: a timeslice
that points into a file pins that file itself, so that what the reader does
next does not matter.  It also says that the timeslice being unfolded has not
been taken back; without that the last step of `Unfold` could mark a recycled
one.  `BlocksAccounted`, that is `NoBlockLost`, and `PipelineRefinesRowsWritten`
rest on `PipeInv`, which follows a frame from the reader to the file: `ReaderInv`
and `ParsedInv` (what was emitted is what is before the cursor, and what is
unfolded is the frames of the block itself), `UnfoldInv`, `HandsInv` (an event is
in the queue, with one worker, or done), `RowInv` (a row is in one cluster or in
the file, once; the rows of an event are all filled when it is done, and those
that are not are with its worker), and `TotalsInv` and `WrittenInv` for what
is counted.  `RowInv` does not outlive the end of the file, when the clusters
are gone: it is the conjunct of which `closed` is the alternative.

`LinkAssociationsProofs` proves `LoopInvariant` and from it `LinksComplete`,
that is `LinksAsPairwise`, for vectors of any length sorted by any level: at
every turn of the loop exactly the matching pairs of what was passed over have
been linked.  It rests on a lemma that a non-empty set of naturals has a least
number, which finds the ends of the ranges of equal addresses, and on the
transitivity of the order.

`FileWriterProofs` proves about `FlatTreeWriter`, for any number of threads, list
of events, set of enabled groups and limit:

* `WriterInvariant`: `IndInv` says where each event is (`Hands`, `OncePlaced`:
  with one worker, in one tree, or in the file, once), what the buffers of a
  worker hold at each place of `Process` (`OwnInv`: own values in the groups
  that were filled, none in those still to come), and that a context that has
  rows is one that `Finish` will visit (`ContextsLeft`).
* `EveryRowIsOwn`, that is `RowsAreOwn`, from `OwnInv`; that each slice is
  its own samples needs that the recursive functions which cut them only append.
* `LimitIsSharp`, that is `CutoffIsSharp`, from `SharpInv`: a place under the
  limit belongs to a row or to a worker's hands, and a later event with a place
  was overtaken only by those that were in other hands when it was given.
* `WriterRefinesRowsWritten`: every step is a step of `RowsWritten` or a stutter.

and about `SroStream`, for every capacity of the ring, every size of a block and
of the link, and every set of sessions, in any framing and cut or damaged
anywhere:

* `StreamInvariant`: `StreamInv` says what the sender, the reader and the writer
  hold at each of their steps, all of it words, and that the ring agrees with
  itself (`RingHolds`): going from the read position over `m_records` records by
  the length word before each, wherever they wrap around, covers `m_used` words
  and ends at the write position.
* `NothingIsDropped`, that is `HandedOver`: what the file, the block, the writer
  and the ring hold, one behind the other, grows by the record that is counted
  and is not changed by any other step, while the disk works.  Two lemmas carry
  it: `PushKeeps` (a record copied in two pieces is the last of the queue, and
  no word of those before it is overwritten) and `PopKeeps` (the oldest is read
  back whole and the rest is the queue that is left); both rest on the fact that
  the offsets of the records are the same as long as their lengths are
  (`OffsetsAgree`).

`SroProofs` also proves, about the parser, `SlicesPartition` for every block,
whatever its words are: `SlicesInv` says at which hit the open frame and the open
bank began, as the cursors of the loops are nested.  `BanksNesting` is
`BanksNest` for every block: whether a length wraps is decided by the words,
which no step changes (`WordsKept`).

`LazyGivesEager` is `LazyAsEager` for every block of typed words, sound or
damaged, in which no length wraps (`NoneWraps`; TLC finds the property in the
others too, but the proof follows chains of banks that only go forward).
Each of the two ways of parsing is compared with
what the words alone say.  A `Chain` is what is reached from a start by going from
bank to bank; `OpenSets`, `Rocs` and `Payloads` are the banks that the loops of the
parser come to, each on a chain that goes forward in the bank around it, so that the
hits of two banks never meet (`RocsApart`).  `ParseInv` says, of every place of the
walk, that the hits so far are those of the banks before it, each once
(`WalkInv`); of the frame that is decoded later, that it has the FADC hits of the ECAL
that it came with, and the hits of the ROC banks deferred for it that have been
taken (`DecodeInv`); and of what eager parsing gave, that it has the hits of all banks
(`EagerInv`).  Frames of the same sets are the same frames (`FramesAlike`), and two
sequences that have each hit of a set once are the same bag (`EachIsBag`).

`EvioFileProofs` proves about every file and every cut.  Its base is where blocks
and events begin, which are sums: lemmas say that they grow (`BlocksApart`,
`EventsApart`), so that what is behind a cut is cut and no event begins behind
the end.

* `HdevioInvariant` and from it `EventsGivenOnce` (`GivenOnce`), `LossIsKnown`
  (`ReadLossIsKnown`) and `SparseComplete` (`SparseFindsAll`).  `HdevioInv` has a
  part for each way of reading.  By blocks: what was given is the whole blocks
  before the place; the place in the stream is that of the block, unless a seek
  went wrong; the chunk in the buffer begins at a multiple of its size; and the
  buffer for blocks has grown to the largest block so far, which decides whether
  the next one has to be read twice.  Sparse: what was given is the events of the
  map before the place, and the map is complete.
* `ReadersInvariant`: `ReadersInv` says of `readNoFileBuff` that what it gave and
  what is in its record is what is mapped of the blocks before `NB_next`, and of
  the mmap reader that it gave exactly the events before `m_event`.
* `CutIsLocal`, that is `CutCostsOnlyTheCut`.  The property was stated too
  strongly before: the proof stopped at a block of which less than a quarter
  is left, and TLC shows that its whole events are lost
  (the file of events of 9 and 60 words in `MCEvioReaders`).
* `HdevioRefinesOrderedRead` and `MmapRefinesOrderedRead`: every step of a reader
  is a step of `OrderedRead` or a stutter, whatever the other does.  Of the
  swapping they assume that it gets through an undamaged event
  (`UndamagedAreSwapped`, which TLC evaluates for the events of the run), because
  that is a statement about recursion over data.

`DqmMonitorProofs` proves about the monitor, for every mapping, selection of
events, size of the display and of the tables, and whatever the network answers:

* `EnergyKept`, that is `EnergyIsKept`, for any number of slots.  The clusters
  of a slot are those of the display of its event (`SlotInv`); a place that is
  added raises the energy of one cluster, or begins one, by what it holds, until
  the table is full (`PlaceAdded`, `EnergyAdded`); and the loops over the bins
  meet every bin once (`ClustersOf`).
* `SamplesWritten`, that is `NoSampleLost`, which no run repeats, for any number
  of slots, from `IdsFit`: at most 1000 channels, places of chips up to 99, chip numbers up to
  255 and 30 time bins.  The id of a sample is a sum of these, each in decimal
  digits of its own, in which only the time can overflow: `10^9` times the time
  bin is taken modulo `2^32`.  Up to 29 bins apart that leaves more than the
  digits below can make up for (`TimesApart`); 30 or more bins apart it need not,
  so that longer windows could give two samples one id.  TLC evaluates `IdsFit`
  for the events of the run.
* `PeaksOnTheirApv`, that is `PeakOnItsApv`, for any number of slots, on planes
  read by one chip or two (`InPairs`: `PeakFactory` tells apart no more, and TLC
  evaluates it for the mapping of the run).  `PeakInv` says that each object a slot
  has made is made of those before it, of its event; and that the sums of the
  pedestals count as many samples on all channels of a chip, so that a mean of
  the first channel is a mean of all.  The rest is about one event: a run of the
  peak finder has its top above zero and inside the time bin (`PeaksFound`), the
  joining of time bins and the choice of the highest only take from what they are
  given (`BinsAreOfSlices`, `CommonPeaksFound`), and what is above zero on a plane
  is on a chip that has data, at its own place (`TopsOnChips`).
* `StagesArePorted`, that is `ParityWithLegacy`, for any number of slots, from
  `InPairs` and from `SameTables`: that both programs read the same chips and
  planes from the mapping file, which TLC evaluates for the file of the run.  It
  rests on `PeakInv` too.  About one event, stage by stage: what `group_by_apv`
  collects word by word has on each channel the last samples the event holds of it,
  which are those `RawDataFactory` keeps; cut into time bins by `div` and `mod` they
  are the same rows; so the same chips have data, with the same common mode and the
  same decoded samples.  The columns of a plane are then merged from the same chips
  at the same places, and on planes of one chip or two the peaks name the same
  chips and the clusters are the same.  `InPairs` is
  what both programs provide for: neither names a third chip of a plane.
* `PlotsTogether`, that is `EventPlotsTogether`, for one slot (`OneSlot`), any
  number of files and events: `CountInv` says how far each of the two counters
  is at each step of an event.  With more slots the increments of
  `m_total_event_num` race, as section 2 says, and the counters part for good.
* `MarkersOwn`, that is `MarkersAreOwn`, for one slot: the buffer is a static
  object, and `ExchangeInv` says that what was sent, and what the answer is of,
  is the event in the slot.  An answer that names fewer or more clusters than
  were sent is one of the cases.

The assumptions are the named ones in the modules: finite sets of workers,
parameters that are naturals, items that know the number of their file, vectors
that are sorted; and the hypotheses that the theorems name.

Only model-checked:

* Liveness (`EventuallyFrozen`, `ClosedLinkEndsSource`, `EventuallyParsed`,
  `ParsingEnds`, `EndIsReached`, and that of `OrderedRead`): it needs fairness
  and ENABLED.
* `ForeignFilesAlike`, `WholeEventKept`, `LossIsLocal`, `HitsElsewhereFound`:
  what a parser makes of words that were written from a structure, which is
  induction over that structure.
* `StoredInOrder` and `NothingDropped`: that what is handed over stays as it is
  is proved (`NothingIsDropped`); that it is what the sender sent is not.  The
  receiver tells four framings apart by the words themselves, so that an
  invariant is about all that may be on the way in each framing.

## 6. Where the code and its documents differ

One difference has a run of its own, `sro_keep_listening`:
`executables/sro_stream_tools/README.md:68-70` says that with
`--keep-listening` "protocol errors and end-of-run disconnects then close the
connection but keep the receiver alive".  A connection that breaks off
between its second and its tenth word makes `ServeConnection` return false
(`sro_recv.cc:387`), whatever the option says, and the receiver ends.

Others met while modelling; the properties are stated so that they describe
what the code does:

* A mapped APV that never has data makes `freeze()` throw; `calibration.hpp:91`
  says it keeps the warm-up constants.  From then on every event loses its GEM
  data (`SilentApvIsFatal`, proved).  The baselines may come from fewer than
  `freeze_after` events (`GemRecoService.h:36`; by how many is
  `SnapshotsAgreeUpToInFlight`), and an event that throws is averaged for the
  APVs before the silent one without being counted (`calibration.hpp:3`;
  `AveragedAreCounted` bounds how many).
* `CDaqEventSource` counts two ends of run, of which the first only books
  memory: a client with two modules, which sends one for each, ends the run
  before any data.  A payload that breaks off is parsed and may be delivered
  (`CDaqEventSource.cc:345` ignores the result).
* `readNoFileBuff` refuses a block that "extends past end of file"
  (`HDEVIO.cc:559`), but adds words to bytes: a cut block is refused, with the
  whole events in it, only when less than a quarter of it is left, and is
  mapped otherwise.
* The mmap reader is said to mirror HDEVIO; at an empty block HDEVIO ends
  (`HDEVIO.cc:578`) and the mmap reader goes on.  Its "truncated header" error
  (`MmapEvioReader.cc:43`) is unreachable, so a file cut inside a block header
  is a complete file to it.
* `HDEVIO::rewind` is for reading a file again and again, but seeks before it
  clears the stream: after the end of a file the buffered reading finds nothing
  more.  `ReadFileMap` (`HDEVIO.cc:1535`) leaves the iterator over the blocks
  unset.
* `swap_bank.h:3-7` says that it "just prints" errors; it throws.
* `swap_block` for 16 bit numbers takes their count as a `uint16_t`
  (`HDEVIO.h:310`, `swap_bank.h:45`), which `swap_bank` calls with twice the
  words of the bank (`HDEVIO.cc:1026`): of a sound bank or segment of 32768 words
  or more only the first words, the count modulo 65536, are swapped, and the call
  says that all were, so that both readers give the event with the rest in the
  other byte order (`ForeignFilesAlike` excepts these words and no others).
* The length of a bank inside an event is checked after one was added to it
  (`HDEVIO.cc:999`, `swap_bank.cc:29`): one of 0xFFFFFFFF passes.  The words
  behind the event are written, or, for bytes and 16 bit numbers, the bank counts
  as no words, at which HDEVIO gives up the file and the mmap reader goes on with
  the rest of the event unswapped.
* The trailer of a block of f250 words (`EVIOBlockedEventParser.cc:1232`) ends
  the event and does not go back to the first one, as that of f125 words does:
  hits of later modules of a bank go to no event (`WholeEventKept` leaves them
  out).  The parser also trusts lengths: one of 0xFFFFFFFF makes a walk stand
  still (`ParsingEnds` leaves it out).
* `LinkAssociations.h:336` and `:408` ask for vectors sorted by ROC and slot;
  the walks also compare the channel, and the pulse, and need them sorted too.
* When `Average::mean()` throws in the legacy pedestals the plane data are
  null, and `GemReconDqmProcessor.cc:380` reads them.
* The parameter `dqm:every` is bound to `m_min_event_index`
  (`DataQualityMonitorService.h`), so it overwrites `dqm:min_event` and the
  period stays what it was.
* `ReadBank` (`SroFrameSetParser.cc:31`) accepts a bank whose length wraps,
  although it "returns false if the bank does not fit".  A length of 2^32 - 1
  leads to the bank itself, again and again: a ROC bank outside the ECAL is
  noted by lazy parsing until the memory is full.  A slightly smaller one leads back into
  other banks, whose hits are then found twice.  `BanksNest`,
  `HitsElsewhereFound` and `EventuallyParsed` except such lengths in their
  formulas.  The header of the payload map is read without the check
  that "all structure walking" is said to go through.  Lazy parsing loses the
  DCRB hits of a ROC of the ECAL, which `SroFrameSetParser.h:35` does not allow
  for (`LazyAsEager` allows for no others).  An empty file is skipped by
  `fread` and an error with `mmap`.

## 7. Not modelled

In the order in which they would be worth adding:

* `tcp_event_get` and `tcp_receiver`: a second receiver of the protocol of
  `CDaqEventSource`, in a test program.
* `async_filebuf`: compiled out (`USE_ASYNC_FILEBUF` is 0).
* The formats of the CAEN TDC and F1, configuration and control banks of the
  parser, and the bit fields and counters of the SRO parser: they fill objects
  and steer nothing.
* The coincidence finder of `SroFrameUnfolder`: a frame passes or not; a bin
  width that does not divide 16384 would index one past the array.
* The services other than the monitor: logging, the ROOT file (JANA calls
  `Finish` of the processors before it destroys the services) and the lookup of
  a torch model.
* Integral histograms, canvases, the cells of the TRD table and the electron
  flag of the monitoring: layout and arithmetic of one event.
* The executables other than `sro_send` and `sro_recv`, printers, examples and
  deprecated plugins: they keep no state that anything else reads.
* Python, scripts, web and build files: no part of the program.
* A network that goes silent without an error blocks `recv` for ever in the
  cDAQ source, which has no timeout to model.

Candidates for further theorems: that the reader of `sro_recv` cuts the words of
each framing at the records of the sender, and with `NothingIsDropped`
`StoredInOrder` and `NothingDropped`; `LossIsLocal` for each kind of bank.
