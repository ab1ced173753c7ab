# A verification of gnuradio4-blocks

This directory holds TLA+ models of the stateful parts of gnuradio4-blocks, TLC configurations
that check them on small instances, and TLAPS proofs of what holds for every value of the
constants. Below, E is `src/blocks/network/include/gnuradio-4.0/network/ZmqEnvelopeIo.hpp`, S is
`StreamPacketIO.hpp` and T `TcpByteIo.hpp` of the same directory; other files are named.

To check: `tlc -config StreamPair.cfg MCStreamPair` (module and configuration of each run are
listed under [Runs](#runs)); to prove: `tlapm StreamPairProofs.tla`, and so for every
module whose name ends in `Proofs`.

## The system and its parts

The repository is a library of blocks for GNU Radio 4. A block is an object the framework's
scheduler drives: `start()` and `stop()` from the owner's thread, `processBulk()` again and again
from a worker's, with spans of samples and tags at its ports. Most of the library is signal
processing without control of its own. What is hard to get right lies where a block shares state
with a thread that is not the scheduler's, or keeps a promise about the stream over many calls:
the network module first, then the data sinks, the SDR blocks, the audio blocks, and the blocks
that cut streams into pieces.

### Network (`src/blocks/network`)

| part | state | operations | what is hard | what makes it correct |
|---|---|---|---|---|
| `SendQueue` (E 75-288) | queue, its byte count, stop/opened flags, counters, all under one mutex; a socket owned by one I/O thread | `start`, `stop`, `enqueue`, `sendLoop` | three threads; two bounds at once; PUSH peers that never come; send errors; restart of the same object | every accepted envelope is sent or counted; order; bounds; nothing of an old run in a new one; start and stop return |
| `Receiver` (E 296-462) | flags, failure, message count; a socket owned by one I/O thread | `start`, `stop`, `failed`, `readLoop` | a reader that dies; stop while a message is being decoded | nothing is decoded after `stop()`; start and stop return |
| `StreamPacketSink` (S 118-439) | sequence, stream position, rate, counters | `start`, `stop`, `settingsChanged`, `processBulk` | a refused chunk is cut and offered again; rejected chunks between sent ones; tags of a span of several chunks | positions and numbers are true; samples and tags cross once; the rate stated is the one in force |
| `StreamPacketSource` (S 445-991) | receive queue and byte count under a mutex; the packet in hand; what is still to be said; the place in the sender's stream | `start`, `stop`, `handleMessage` (reader thread), `processBulk` (worker) | loss found only when a later packet is taken; a peer that restarts; one packet published over several calls; the order of two looks at shared state | every gap is announced with its exact length; tags in place; rate stated; an error only when nothing is left |
| `MessagePacketSink/Source` (`MessagePacketIO.hpp`) | numbering; queue; a gap decided and not yet emitted | `start`, `processMessages`, `handleMessage`, `drainToPlane` | a gap is decided at the take and emitted later, to a plane that may be full; restarts of either end | a gap is said once, in order and exactly |
| `ZmqStreamSource`, `ByteRing` | a ring of bytes shared by reader and worker | push, pop, shed | index arithmetic; the shed count is computed beside the ring | whole samples in order, losses counted exactly |
| `TcpByteSink/Source` | one peer, a ring, a chunk in the I/O thread's hands | connect, accept, read, write, deadlines | half-written chunks; a peer that takes nothing during `stop()`; strangers; two threads on one ring | bytes arrive in order and once; within a run every byte is passed on or counted; the ends find each other again |
| `TcpPacketSource` (`SocketPacketIO.hpp`) | framing reader, sequence tracker, queue | `feed`, `dropIfOverdue`, `processBulk` | resynchronisation against two deadlines | every whole envelope is found; the one slot is never held for ever |

Sink and source meet only through the wire: the sink's `processBulk()` calls
`SendQueue::enqueue()`, the send queue's thread calls `zmq_send`, the far receiver's thread calls
`zmq_recv` and then the source's decoder, which appends to the source's queue, from which the
source's `processBulk()` takes.

### Elsewhere

| part | what is hard | what makes it correct |
|---|---|---|
| `DataSink`, registry, listeners (`blocks/basic/.../DataSink.hpp`) | a registry mutex over a listener mutex; `processBulk()` waiting for a poller; `stop()` that has to end the wait; two rings for samples and tags; windows that end in later calls or at `stop()` | no lock cycle; stop returns; a poller sees samples and tags of the same stream and learns of the end; windows complete |
| `SoapySink/Source` (`blocks/sdr`) | burst marks shared by the scheduler and the I/O thread; a device several blocks start on; a stop requested from the I/O thread | END_BURST exactly once per burst; none activated early; the thread never waits for itself |
| `MeasurementSlot` (`library/algorithm`) | a seqlock of relaxed atomics and fences | a read returns one publication, never a mixture, never an older one than a previous read |
| `SyncBlock` (`blocks/basic`) | state across calls over tags of several inputs | drops counted and said once; inputs agree after synchronisation |
| `AudioSource`, `AudioSink` (`blocks/audio`) | a device thread and an I/O thread on one ring; times extrapolated over losses; reconfiguration requested by one thread and done by another | the time of a frame is that of its capture; no span into a ring that was replaced; every staged sample counted once within a run |
| gr-zeromq compatible blocks | `close()` against a waiting call | the wait ends; a reopened socket is not cancelled by an old request |
| digital framers | bit-serial state machines | frames found once, resynchronisation |
| filters, Fourier, FEC, OFDM, measurement, math, analog | floating-point or bit-level data | out of reach of a model checker over integers: tests with data are the right tool |

## Modules

| module | models | variables and actions |
|---|---|---|
| `SendQueue` | E `SendQueue` | Owner: `Start`, `StartReturns`, `StartThrows`, `Stop`, `StopReturns`. Worker: `BeginWork`, `EndWork` (a call of `processBulk`), `Offer` (`enqueue` takes the mutex), `Shed` (one turn of its loop), `Refuse`, `Push`. I/O thread: `Open`, `Take`, `SendOk`, `CountSent`, `AbandonAtStop`, `SendError`, `SeeStop`, `Drain`, `Close`. Every action that takes `_mutex` in the code waits for `MutexFree`. |
| `Receiver` | E `Receiver` | `StartReceiver`, `StartReturns`, `StartThrows`, `RequestStop`, `StopReturns`; reader: `Open`, `Poll`, `Receive`, `Timeout`, `Fail`, `CountMessage`, `Decoded`, `CloseSocket`. Has no specification of its own: the module of the block that owns it adds the decoder. |
| `StreamPacketSource` | S `StreamPacketSource`, over `Receiver` | `Start`; decoder: `HandleMessage`, `Shed`, `Enqueue`; worker: `BeginWork`, `Take` (with `notePlacement`), `Publish`, `EndFilling`, `ReadFailed`, `EndWork`; external: `PeerSend`, `PeerRestart`. |
| `StreamPacketSink` | S `StreamPacketSink` | `SinkStart`, `SinkStop`, `BeginSpan` (with `collectTags`), `RejectChunk`, `OfferChunk`, `ChunkTaken`, `ChunkRefused`, `SpanDone`, `Consume`; external: `UpstreamWrites`. |
| `AnnouncedStream` | what the pair promises (header of StreamPacketIO.hpp) | `Produce`, `Deliver`: pieces in order, none twice, each saying how much is missing before it. |
| `StreamLink` | the pair over a wire | instances of the sink, `SendQueue` (`Q`) and `StreamPacketSource` (`R`), with the actions in which they meet: `OfferEnvelope`, `TakeEnvelope`, `RefuseEnvelope`, `Transmit`. |
| `MessagePacketLink` | `MessagePacketIO.hpp`, both ends | sink: `SinkStart`, `PublishMessage`; source's reader: `HandleMessage` (`Enqueue` with `Shed`); scheduler: `TakeArrival`, `EmitGap`, `EmitMessage`, `SourceRestarts`; external: `EnvelopeLost`, `PlaneRead`. |
| `ByteRing`, `ByteFifo` | `ByteRing.hpp`, and the queue it implements | operators on a ring record: `Reset`, `Room`, `Peek`, `DropOldest`, `Push`. |
| `ZmqStreamSource` | `ZmqStreamIO.hpp`, over `Receiver` and `ByteRing` | `Start`, `Stop`, `HandleMessage`, and `processBulk` in the steps the reader can get between: `AskFailed`, `DrainRing`, `SawFailed`, `WorkReturns`. |
| `TcpConnection` | what both TCP ends share (T): the I/O thread's life, the taking, keeping and losing of a peer | `Launch`, `RequestStop`, `StopReturns`, `ThreadEnds`, `Accept`, `Connect`, `Connected`, `AttemptEnds`, `Lost`; external: `StrangerConnects`, `StrangerLeaves`, `ConnectionReset`. |
| `TcpByteSink` | T `TcpByteSink` | `SinkCalled`, `SinkPushes` (`processBulk`), `SinkTakes`, `SinkSends`, `SinkWrote`, `SinkFellShort`, `SinkFlushes`, `SinkFlushed`. |
| `TcpByteSource` | T `TcpByteSource` | `SourceWorks` (`processBulk`), `SourceServes`, `SourceReceives`, `SourceEnqueues`, `SourceLosesPeer`, `SourceHearsNothing`, `SourceLeavesLoop`, `SourceEnds`. |
| `TcpBytePair` | both ends over one network, either listening, each with either policy | joins the steps; the properties of the pair. |
| `PacketReader` | `SocketPacketIO.hpp`, receiving side | `feed` a state at a time: `Seek`, `Header`, `SkipBody`, `ReadBody`; `Waits`, `DropIfOverdue`, `PollExpires`, `PeerCloses`, `Heard`, `Publish`. |
| `DataSink` | `DataSink.hpp`: who waits for whom | `WorkBegins`, `WorkOffers`, `WorkPublishes`, `WorkReturns`; `StopBegins`, `StopUnregisters`, `StopTakes`, `StopFlushes`, `StopEnds`; `LookupBegins`, `LookupEnds`; consumer: `Poll`, `LetGo`. |
| `StreamingPoller` | the two rings of a streaming poller | `SetMetadata`, `Process` and `Put` (samples and tags in the order the code publishes them), `HandOver`. |
| `DataSinkWindows` | the trigger, multiplexed and snapshot listeners | `ProcessBulk`, `Stop`. |
| `SoapySinkBursts` | `SoapySink.hpp`: the burst marks | `ProcessBulk`, `ProcessEpilogue`, `Start`, `RequestStop`, `Stop`; I/O thread: `FormWrite`, `DeviceTakes`, `DeviceStalls`, `DeviceUnderflows`, `DeviceFails`, `LoopEnds`, `SendOwed`, `RampDown`. |
| `SoapyActivation` | `SoapyRaiiWrapper.hpp` and `start()`/`stop()` of the Soapy blocks | `Start`, `Settles`, `Forgets`, `RunsCallback`, `Activated`, `RequestStop`, `Work`, `StopReturns`, `StreamFails`, `IoEnds`. |
| `AudioCapture` | `AudioSource`, `SoundIoBackend.hpp`, `AudioBackends.hpp` | device thread: `DeviceOverflows`, `DeviceOffers`, `BeginSegment`, `Publish`, `CountChunk`, `CallbackReturns`; I/O thread: `CollectLosses`, `DiscardOldest`, `CountEvicted`, `ReadToOutput`, `Answer`, `Retry`, `PollFails`, `LeaveLoop`. |
| `AudioSink` | `AudioSink` of `AudioBlocks.hpp` | scheduler: `Call`, `Reserve`, `Push`, `SettingsChanged`, `Request`, `Start`, `Stop`, `StopReturns`; I/O thread: `TakeRequest`, `ReadRequest`, `OpenSucceeds`, `OpenFails`, `Transfer`, `LeaveLoop`, `DrainEnds`. |
| `MeasurementSlot`, `PublishedRegister` | `MeasurementSlot.hpp`, and the register it implements | every store and load: `BeginPublish`, `StoreCell`, `EndPublish`; `LoadBefore`, `LoadCell`, `LoadAfter`, and `Learns` for what a reader comes to know in other ways. |
| `SyncBlock` | `SyncBlock.hpp` | `Synchronize`, `CopyBefore`, `DropOverflow`; external: `Arrives`. |
| `Sums` | | the sum over a sequence, as a recursive function, for the byte counts. |
| `DataInduction`, `...Proofs` | | lemmas; theorems and their proofs. |
| `MC...` | | the values TLC needs, and the systems a run joins. |

An action is one critical section, one turn of a loop that runs inside one, or one call of a
library made outside. Definitions such as `StartKeepingQueue` or `GapThroughPacket`, whose comment
calls them a mistake, are errors one could plausibly make in that code. No specification uses
them: put in place of the definition they stand beside, they make a property fail, which shows
that the property notices.

Abstractions, and why they lose nothing the properties ask about:

- An envelope is a number and a size. Its payload never influences a decision of the queue.
- A chunk is its place, length, tags and rate. `first`, its true place on the edge, is a history
  field that travels with no packet. A packet of n samples and k tags counts 1 + n + k bytes.
- Everything that is wrong with a message (version, kind, type, sizes, metadata) is one flag,
  `sound`: each refusal has its own counter but the same effect on state.
- A carried tag is its position; whether it holds gap keys is the constant `CarriedGaps`.
- `packets_lost` and `n_dropped_samples` are numbers; the cast of the second to `gr::Size_t` is the
  constant `SizeModulus` (2^32 in the code).
- A byte of the TCP stream is its place in the input, and a connection a sequence of such bytes
  with the ends that know it; faults, strangers and restarts are drawn from one budget, `MaxFaults`.
- A message to the raw stream source is a range of bytes with a fault or none; only that its
  samples follow those before it matters (`ZmqAssumption`).
- A burst's marks are a set of places; the code's flags per sample are that set's indicator.
- A framed envelope is four symbols or fewer: magic, the rest of the header in one, a body.
- A deadline that only bounds a wait may pass at any time; where the code counts towards one
  (`PacketReader`, the idle polls of `TcpByteSource`) the count is kept.
- Audio and SDR devices have one channel: the channels of a block run in step.
- The pool thread that runs an I/O loop exists: see [Not modelled](#not-modelled).

### What each model leaves aside

- `MessagePacketLink`: after a restart of the sink, a first surviving number above the last one seen
  is not read as a reset, in the code and in the model alike; a sink under backpressure drops a
  message its queue refuses, although `validate()` says "leave the message on the plane".
- `DataSink`: the update of a signal's name; callback listeners. `getMultiplexedPoller` and
  `getSnapshotPoller` do not set `finished` on a sink that has stopped, where the other two do
  (`DataSink.hpp:656`, `:666`), and `_listeners_finished` is not reset by a restart: the model has
  pollers of the first two kinds and no restart. A stop of one sink may wait on a poller of another,
  through a lookup that holds the registry while it waits for that sink's listener mutex.
- `StreamingPoller`: deferred metadata that is delivered later is still counted in
  `droppedTagCount`, and the tags of dropped samples are not; both as in the code.
- `DataSinkWindows`: a history whose capacity grows.
- `SyncBlock`: documentation figure 3b shows another cut than the code makes; `nPre` looks at the
  first earlier tag only. The model follows the code.
- `MeasurementSlot`: the counter's wrap after 2^31 publications during one read. The fence at the
  end of `publish()` and the one at its start are what `SequenceBehind` and `CellsBehind` say.
- `SoapySinkBursts`: `_lastTransmitted` is not reset by `start()`, and `_taper.isOff()` is ignored
  where nothing was written; device settings and tuning are left out.
- `SoapyActivation`: the framework sets a block's state to active while `start()` still runs, which
  is external.
- `AudioCapture`: estimation of rate and drift, clock tags. What the ring holds at shutdown is
  dropped uncounted by design.
- `AudioSink`: prefill and drift correction. Three things the code does are in the model and break
  no property, but a reader should know of them: after an I/O loop that a `poll()` error ended, the
  block takes input until its staging is full, then no more, and never says ERROR; a change of the
  settings from A to B and back to A before the I/O thread applies it leaves B applied and written
  back; and after a switch that failed, setting the old format again does not reopen.
- `StreamPacketSink`: a tag whose relative index is negative, which `collectTags` moves to offset 0
  (S 363-369). `StreamPacketSource`: a carried tag's `gr:sample_rate`, which overwrites the
  prologue's as its gap keys do (S 770-771).
- `PacketReader`: the bound in bytes of `enqueue` (`SocketPacketIO.hpp:1857`).
- `SoapyActivation`: `work()` of a block whose activation was refused returns ERROR
  (`SoapySource.hpp:254`); the model stops the block. `SoapySinkBursts`: a `max_underflow_count` of
  0, which in the code sets no limit.
- `TcpConnection`: the listening socket closes when the I/O thread's function returns, just after
  it has stored that it is done (T 541, 566), so that a `start()` right behind a `stop()` may find
  its own port still bound and throw. The model closes the socket in the same step; what follows
  for the caller is the failing branch of `Launch`.


## Runs

A run whose system is "one of" several holds them in one graph: a variable `which`, chosen at the
start, says what the behaviour is about, and the other components rest in their initial states. A
property that begins with `which = ...` asks of its component only; the coverage of every action is
that of a run of its own.

| run | module, configuration | asks | expected |
|---|---|---|---|
| `send_queue` | `MCSendQueue`, `SendQueue.cfg` | the send queue, as a PUB queue that sheds and is restarted, as a PUSH queue whose peer may never come and whose `stop()` falls into a call, and as the link of a stream under backpressure; and two data sinks of one registry, with pollers of every policy, lookups and stops | holds |
| `stream_pair` | `MCStreamPair`, `StreamPair.cfg` | the path from edge to edge; the source alone before a peer that restarts; and the source's life, where open and receive fail, stop and start at any moment | holds |
| `stream_blocks` | `MCStreamBlocks`, `StreamBlocks.cfg` | safety of seven components, each alone: the stream sink, the socket reader, the raw stream source with its ring, the streaming poller, the windows of the other listeners, `SyncBlock`, and the audio source twice (`audio` with holes and a reopened device, `times` longer without) | holds |
| `fair_blocks` | `MCFairBlocks`, `FairBlocks.cfg` | six systems with threads: the message pair, a SoapySink's bursts, two blocks on one device, an `AudioSink` under reconfiguration, a stream source whose socket fails, the measurement slot | holds |
| `tcp_bytes` | `MCTcpBytePair`, `TcpBytes.cfg` | both TCP ends, either listening, over one fault, stranger or restart | holds |
| `send_queue_late_enqueue` | `SendQueue`, `SendQueueLateEnqueue.cfg` | is every envelope counted when `stop()` overtakes a call? | violated |
| `tcp_sink_restart` | `MCTcpBytePair`, `TcpSinkRestart.cfg` | is every byte the sink took sent or counted, over a restart? | violated |
| `tcp_source_restart` | `MCTcpBytePair`, `TcpSourceRestart.cfg` | is every byte read under backpressure delivered, over a restart? | violated |
| `audio_totals` | `MCAudioSink`, `AudioSinkTotals.cfg` | is every staged sample written or counted, once, when a stop has returned? | violated |
| `audio_eviction` | `AudioCapture`, `AudioEviction.cfg` | is evicted audio counted when stored silence lies behind it? | violated |
| `source_relay` | `MCStreamPacketSource`, `SourceRelay.cfg` | is a gap announced when the packet after it carries a gap tag already? | violated |
| `soapy_callback` | `SoapyActivation`, `SoapyCallback.cfg` | does a destroyed registration release its callback? | violated |

### Bounds, and why they are enough

Each bound lets the case happen in which the code decides otherwise:

- Queues hold one or two entries and three to five bytes, with entries of several sizes, so that
  the count and the byte bound each refuse alone, shedding removes one entry or several, and an
  entry is too big for the whole queue. The shortest queue that shows an order is two.
- `stream_pair`: packets of one, two and four samples into spans of one or two: a packet of two
  samples is published by two calls in both systems, two packets of one fit the source's queue
  and one of four does not. Three packets and two runs of the peer are a loss between two packets,
  a loss before a restart and a refusal before either. In the source's life there are two starts of
  the block, so that whatever an earlier run leaves is met by a later one, and two rates. The
  systems share the source's variables, so that what `StreamPacketSource` promises is checked in
  all.
- `send_queue`: four envelopes and two runs; three and two where a call overlaps the stop.
  `FreshRuns` states freshness for both: in the first, what a stop finds has been discarded before
  the next `start()`; it is where a call overlaps the stop that the clearing in `start()` matters.
  The data sinks: one poller from the start and one that a lookup attaches to either sink, rings of
  two samples and chunks of two, three calls in all: a full ring, a call that waits and one that a
  stop overtakes.
- `stream_blocks`: seven samples with tags on three of them, two stating a rate, chunks of at most
  three: a chunk, its remainder and its successor. The reader is sent two pieces over two
  connections in reads of one to three symbols. Rings of three are wrapped around twice; two pushes
  at the capacity or above it occur. The audio source's device takes five frames, or three where
  there are holes and it is opened twice, in chunks of up to two, into a ring of two with two segments.
- `fair_blocks`: `MaxNumbered = 3` messages are two with a gap between them; two runs of each end.
  `MaxPublications = 3` for the slot are two that fall into one read; the third shows that the read
  is not mixed from the first and last.
- `tcp_bytes`: one fault is enough for every way of losing a peer, two bytes for an order, a wire
  of one for a peer that takes nothing. The proofs do not depend on these numbers.
  `tcp_sink_restart` and `tcp_source_restart` have the same bounds.

A run of a system that can rest (all bounds used up, a block down) has `CHECK_DEADLOCK FALSE`; what
must go on is asked as a liveness property instead. `send_queue` and `stream_pair` check deadlock
too.

### What the properties say

Invariants of one component are often joined into one property (`MessagesTrue`, `CaptureTrue`,
`BytesAccounted`): its comment names the parts, and each part has a comment of its own.

- Send queue. `Conservation`: accepted = sent + counted as lost + queued + in the thread's hands.
  `WireInOrder`; `FreshRuns`: nothing accepted before a `start()` is sent after it; `QueueBounds`;
  `NothingWaits`: `start()`, `stop()` and a waiting call return, and the linked edge is read to its
  last sample.
- Stream pair. `KeepsTheirPromise`: the pair implements `AnnouncedStream`. `GapsAnnounced`: between
  two pieces of one run of the peer exactly what is missing is said at the first sample behind it.
  `SamplesAccounted`, `TagsInPlace`, `SamplesComeThrough`; `RateStated`; `ErrorOnlyWhenDry`;
  `QuietAfterStop`; `SourceLives`: `start()` and `stop()` return and a dead reader is told.
- Stream sink. `PositionsTrue`: a chunk states the place of its samples on the edge, and
  consecutive numbers are adjacent samples; `SamplesConserved`; `TagsCarriedOnce`; `SinkSound`: the
  rate stated is the one in force where the chunk begins, and no call consumes beyond its span.
- `MessagesTrue`, `ReaderTrue`, `SlotIsBounded`, `StreamSourceTrue`, `RingIsFifo` (a refinement of
  `ByteFifo`): the same questions of the other network blocks.
- TCP pair. `DeliveredInOrder`: a byte comes out once, behind every byte taken before it.
  `BytesAccounted`: within a run of an end each byte is in hand or counted under one reason, and a
  sink whose thread is done has in hand only what was pushed behind its last flush; each lost
  connection is counted; undisturbed and under backpressure nothing is lost; nothing follows an
  ERROR. A run is counted from its `start()`: what that throws away of the run before is in none of
  its sums, and is what `DiscardsCounted` and `OffTheWireIsDelivered` ask about, which fail.
  `StopsReturn`; `PairReconnects`: two ends that stay up find each other after the last fault.
- Data sink. `ConsumersServed`, `NothingAfterFinished`, `StopsReturn`; `ConsumersTrue`: tags on
  their samples, windows where their triggers say.
- SDR and audio. `BurstsTrue`, `DeviceTrue`, `CaptureTrue`. `AudioSinkTrue`: spans go into the ring
  they were reserved in, within a run each staged sample is in staging, written or counted, once,
  until a device error ends the run, and settings and device agree. `TotalsAccounted` asks for the
  sum over all runs, whatever ended them, and fails.
- `ImplementsRegister`: every `read()` of the slot returns one publication whole, never an older
  one than the reader has seen, under the language's memory model. `SyncTrue`: whoever adds up the
  dropped-samples tags knows each sample's place. `ThreadsGoOn`: the liveness of the systems of
  `fair_blocks`; of the stream source, `SourceLives`.

### Fairness

Fairness is asked of what the code runs by itself, never of a peer, a device or a user:

- A thread that can take a step takes one (weak fairness). Strong fairness is asked of the send
  queue's thread, whose step needs a mutex that others take and release again and again: a mutex is
  not given away for ever to others. `DataSink`'s `stop()` and lookups wait for mutexes too; weak
  fairness is enough for them, since the calls and lookups of a run are finitely many.
- `stop()` and `start()` wake when what they wait for has happened.
- The scheduler calls the source's worker again and again in `fair_blocks` and `tcp_bytes`; the
  sink of a data stream owes nothing.
- `DataSink`: only consumers that asked for Backpressure on windows are assumed to poll, since the
  flush of a `stop()` waits for their room without looking at a flag.
- TCP: the sending and the receiving end's threads, the source's worker, `StopReturns`. Nothing is
  assumed of the network and of strangers; `PairReconnects` asks only for behaviours in which
  strangers leave in the end.
- `fair_blocks`: each system has the fairness its own module states.

## Findings

Seven runs end in a counterexample; each shows that a comment or a test and the code disagree.

1. `send_queue_late_enqueue`: `enqueue()` (E 138) tests neither the stop flag nor the thread, so a
   call that `stop()` overtakes queues an envelope after the thread has drained. No counter takes
   it, though E 72-73 says what is queued at teardown is counted in `droppedAtStop`.
2. `tcp_sink_restart`: in the same way `processBulk()` (T 433) fills the ring behind the last
   flush, and `start()` (T 386) empties it without counting, where T 336 says queued bytes
   discarded are counted.
3. `tcp_source_restart`: `start()` of the source (T 932) empties a ring of bytes it has read and not
   published, under backpressure too, where T 832, T 1415 and `qa_TcpByteIo.cpp:851` say that a
   byte off the wire is a byte delivered.
4. `audio_totals`: what the drain leaves is counted but not taken out (`AudioBlocks.hpp:822`), so
   that the next `start()` counts it again (line 919); what is staged behind a loop that a device
   error ended is not counted. `qa_Audio.cpp:594` and `:638` assert that staged is written plus
   dropped.
5. `audio_eviction`: evicted captures ahead of stored silence are not counted
   (`AudioBackends.hpp:390`, against `:386`).
6. `source_relay`: a gap tag carried on the first sample after a gap overwrites this link's own
   (S 771), where S 455 says "A gap is announced, never spliced".
7. `soapy_callback`: a callback taken from the list runs on a stream its block has given back
   (`SoapyRaiiWrapper.hpp:335`, against `:202`).

Seen while reading and not made a run of: the tags of an empty packet are dropped as malformed (S
949), though S 538 and S 713 say that they move to the next packet; the close tag of a burst states
a rate that no sample runs at (S 375, against `network/README.md:57`); a restart of the producer
whose first packets are lost is not read as a reset (S 730, against S 220); an empty packet between
two gaps overwrites a gap not yet said (S 745), for which `GapsAreSaid` assumes that none is empty;
a gap of 2^32 samples or more is narrowed (S 745); a PUSH-side REQ retry loses samples the sink has
consumed.

## Proofs

`tlapm <module>.tla` checks every leaf; nothing is assumed but what a theorem's `ASSUME` or the
assumptions on constants say, each as weak as the code's own validation.

| module | theorem | states | invariant behind it |
|---|---|---|---|
| `SendQueueProofs` | `TypeCorrect` | types; the thread holds an envelope exactly while it sends | `TypeOK`, `Phases` |
| | `OrderOnTheWire` | `WireInOrder` | `Numbering`: what is on the wire, in hand, queued and offered is numbered upwards in this order |
| | `NoStaleEnvelope` | freshness of a run | the same |
| | `BoundsHold` | `QueueBounds` | the byte count is a sum over the queue |
| | `EveryEnvelopeCounted` | `Conservation`, if `stop()` waits for the call in progress | `NothingLeftBehind`; without that assumption it is false: finding 1 |
| `StreamPairProofs` | `SourceTypeCorrect` | types of the source | `Sound` = `Places`, `Records`, `Calls`, `Phases` |
| | `ReceiveQueueBounds`, `TagsStayInPlace` | `QueueBounds`, `TagsInPlace` | sums over the queue; the records |
| | `ErrorMeansDry`, `RatesAreTrue`, `NothingAfterStop` | `ErrorOnlyWhenDry`, `RateStated`, `QuietAfterStop` | `Dry`, `RateKnown` |
| | `EverySampleAccounted` | `SamplesAccounted` | `Account` |
| | `GapsAreSaid` | `GapsAnnounced`, without gap tags of an earlier link, empty packets and positions beyond 32 bits | `InOrder`, `Told` |
| | `SamplesAreTrue` | `SamplesComeThrough`, from edge to edge | `PairInv` = `SendingEnd`, `ReceivingEnd` |
| | `PairKeepsItsPromise` | `KeepsTheirPromise`: the refinement of `AnnouncedStream` | the same |
| `StreamBlocksProofs` | `SinkTypeCorrect` | types of the stream sink | `Shape` |
| | `PositionsStayTrue`, `NoSampleLost`, `TagsCrossOnce` | `PositionsTrue`, `SamplesConserved`, `TagsCarriedOnce` | `Places`, `Tally`, `TagTally` |
| | `RateStaysTrue` | `SinkSound`, for `PortMinimum = 1` (the port is a plain `PortIn<T>`, S 152) | `RateRuns` |
| | `StreamSourceStaysTrue` | `StreamSourceTrue` | `ZmqInv` |
| | `RingImplementsFifo` | the refinement `RingIsFifo` | `ZmqInv`, `RingIsQueue` |
| | `CaptureStaysTrue` | `CaptureTrue`, of both audio systems of the run | `CaptureInv` = `CaptureTypes`, `Closing`, `CaptureTally`, `NoSilence`, `SegmentsTimed` |
| `FairBlocksProofs` | `SlotInvariant`, `SlotIsRegister` | the refinement `ImplementsRegister` | `SlotTypeOK` |
| | `StagingStaysTrue` | `AudioSinkTrue` | `SinkInv` |
| | `PacketPlane`, `MessagesStayTrue` | `MessagesTrue` | `PacketInv` = `PacketTypes`, `InOrder`, `Told` |
| | `DeviceStaysTrue` | `DeviceTrue`, where no callback is run for a block that another thread has begun to stop; without that it is false: finding 7 | `CallbacksHeld` |
| | `BurstsStayTrue` | `BurstsTrue` | `MarksExact`, `WriteExact`, `Owing` |
| `DataSinkProofs` | `ConsumersStayServed`, `NothingFollowsFinished` | `ConsumersServed`, `NothingAfterFinished` | `SinkInv` = `Types`, `Locks`, `ListedOnce`, `InTurn`, `ToldInTurn`, `Counted` |
| `TcpBytePairProofs` | `BytesStayInOrder` | `DeliveredInOrder` | `Sound`, `Linked`, `InOrder` |
| | `BytesAreAccounted` | `BytesAccounted` | `Sound`, `Linked`, `Accounts`, `Lossless` |

`DataInduction` and `ByteRingProofs` hold lemmas the others cite.

The arguments, where they are not read off the invariant's name:

- **Sums.** Byte and sample counts are sums over sequences, recursive functions. A lemma over all
  sequences would need induction over data, for which the library's theorems take an operator the
  provers cannot instantiate. `DataInduction` proves what is needed from the least counterexample:
  a non-empty set of naturals has a least element, so that a set which contains 0 and with n also
  n + 1 holds every natural; functions that solve the sum's recursion exist up to every length and
  agree; hence a sum of a sequence with one entry more or without its first changes by that entry.
- **Memory order.** A read of the slot that has loaded a cell newer than the counter it began with
  must find the counter changed at its end, because the writer announces before it stores. So an
  accepted read has loaded one publication. The invariant is stated on what a reader is bound to see,
  which is all the fences give.
- **From edge to edge.** The queues and the wire of a link only lose, they never overtake
  (`Thins`): what is on its way is a part of what the sink has sent, in its order. So each envelope
  is a chunk (`EnvelopesStand`), and a chunk holds what stands at its place on the edge
  (`ChunksStand`). At the other end, what has been published ends where the packet in hand goes on,
  but for the gap that is still to be said (`PlaceStands`, `HandStands`): a piece published is thus
  the next part of some chunk, and what `AnnouncedStream` has to see announced before it is the
  difference of two places both known.
- **Gaps.** Whatever is on its way (on the wire, in the reader's hands, queued, being published) is
  in the sender's order, `InOrder`. Of two packets taken in a row, the source knows the end of the
  first and the place of the second, and what it will say is the difference, `Told`, over any number
  of calls that publish nothing.
- **The message pair.** The same argument with one more place: a gap is decided when a message is
  taken, and said when the port has room. Until then it is owed, and `Told` counts it on the side of
  what has been said.
- **Two blocks on one device.** A callback is in the device's list, or with one thread that took it
  out, or has run; until it has run its block is set up and holds its stream (`CallbacksHeld`).
  The list is not empty only while some block is still being configured (`Registered`), and
  whoever is last takes it whole. The exception is the case of the finding.
- **Bursts.** A mark is a place in the stream of samples. Marks ascend, each lies ahead of what the
  device has taken, and the write in the I/O thread's hands begins at the first sample not yet
  taken and ends at the first mark or before (`MarksExact`, `WriteExact`). A burst that the device
  took in part owes its end (`Owing`), and only such a one does.
- **Turns at a data sink.** The invariant says who holds which mutex and where it stands (`Locks`),
  that a poller has one listener at most, and none while it is looked up (`ListedOnce`), that
  whoever holds a listener mutex has yet to serve the last of the listeners, in their order
  (`InTurn`), and that a poller is told of the end with its listener's turn in a `stop()`, not
  before (`ToldInTurn`). So the sample that a `processBulk()` in the same turns could still offer is
  one that was offered before the word that there are no more.
- **The audio sink's settings.** A change is asked for by one thread and done by the other. What
  was asked for last is the active format only if the settings are too (`Handed`): the one direction
  in which the two may differ without a request under way is excluded.
- **A ring is a queue.** `ByteRingProofs` shows of the index arithmetic of `ByteRing.hpp` that
  pushing, dropping and peeking cut and join the ring's content as a queue would (`RingIsQueue`),
  with the wrap, at the capacity and beyond it. The other proofs see a ring as a sequence, and
  `RingImplementsFifo` says so of a block that uses one: each of its steps is one of `ByteFifo` or
  none. That what its reader pushes stays in order rests on what a message is: samples that follow
  those of the message before it, whole or not (`Coming`).
- **Bytes in order.** From the output back to the input, bytes stand at seven places: published,
  in the source's ring, read, on the wires the source holds, in the sink's chunk, in its ring, not
  yet taken. Every byte at one place is smaller than every byte at the next, and each place
  ascends (`InOrder`). A step moves bytes from the front of a place to the back of the one before
  it, or takes bytes away; a restart takes away a whole place. The hard case is the wire: there may be
  several, since a listening source can hold a peer and a backlog. `Linked` says which
  descriptors each end holds (those it knows of, and no others), from which it follows that the sink
  writes to the last connection only, and that whoever is adopted after another carries later bytes.
- **Capture times.** A frame's time is extrapolated from the start of its segment, so no
  segment with a time may go on over a loss: whatever of a segment is in the ring was captured at its
  time plus its distance (`SegmentsTimed`). What was lost is in the block's count or still to be
  collected, and each thread's steps move a part of that sum (`CaptureTally`). While no silence was
  ever stored, an eviction counts what it evicts (`NoSilence`); `Closing` says that the device's
  thread has ended before the block collects for the last time.
- **The accounts.** `Accounts` is kept step by step, with the terms of one sum moved from one to
  another; the balance of connections is that of `adoptPeer` and `losePeer`, whichever exit the
  loop takes.
- **Losslessness.** While no fault and no stop has occurred and each end has been started at most
  once (`Calm`), which then has been so all along, there is no connection but one that both ends
  hold (`Untroubled`). Hence nobody gives up a write, no peer is lost, no start finds a byte in
  its ring, and what a read asks for has room. Then the bytes run on without a gap: the output, the
  ring, the read, the wire, the chunk and the sink's ring are consecutive pieces of the input
  (`Unbroken`), and the output is its beginning.

### Only model-checked

- Liveness (`NothingWaits`, `SourceLives`, both `StopsReturn`, `PairReconnects`, `ThreadsGoOn`) and
  whatever speaks of fairness or of ENABLED: the prover has no rule for it.
- `ReaderTrue` and `SlotIsBounded` of `PacketReader`: what the reader finds in a stream of symbols
  is defined by concatenating pieces of several lengths, and the reference it is compared with reads
  them recursively. Both speak of every input, by an induction over data.
- `ConsumersTrue`: the lists of windows and captures are filtered sequences (`SelectSeq`), of which
  the provers know nothing beyond the definition.
- `SyncTrue`: sums over sets of tags, folds of the community modules.

## Plan

1. Proofs: `TriggersCut` and `SnapshotsTaken` of `DataSinkWindows` with the lists as functions;
   `PlacesKnown` of `SyncBlock` over a sum of its own.
2. Models: the gr-zeromq blocks' `close()` against a waiting call; `LoopbackDevice`; the sending
   side of `SocketPacketIO.hpp`; the digital framers; `StreamToDataSet`.
3. Settings as variables: a change of queue bounds or overflow policy while a block runs (S 233).

## Not modelled

- **Settings changed while running**: constants, except where the change is the question
  (`AudioSink`, `MaxChanges`). Hazard S 233 is listed without a property for this reason.
- **The framework**: the scheduler, ports, buffers, tag propagation and message ports are outside
  this repository. They are modelled from how the blocks use them, and marked as external. The pool
  thread that runs an I/O loop is taken to exist: the Soapy blocks' `start()` waits on the default
  I/O pool, and with all its threads taken it would wait for one.
- **libzmq, the kernel, SoapySDR, the sound card**: external; what they may do is drawn freely. An
  overflow of the audio device is reported on the thread of the read callback, between two
  callbacks, as its library does.
- **Byte layout**: envelopes and framing are records or symbols; the wire formats of
  `ZmqEnvelope` and `PacketEnvelope` have round-trip tests in the repository.
- **Numbers**: filters, transforms, FEC, OFDM, measurement, SVD, images and plotting. They are most
  of the repository's lines and keep no state a model checker would find wrong; what can be wrong in
  them is arithmetic, which tests with data find. A large part of the implementation is therefore
  not covered, and is not meant to be.
- **gr-zeromq compatible blocks** (`ZmqCommon.hpp:208`): hazard listed, planned.
