# A TLA+ model of the video streaming program

TLA+ modules for the parts of this repository whose correctness depends on order or
on the limits of numbers: the RTP path (packetizer, jitter buffer, depacketizer and the
codecs below them), the pipeline that runs it in two threads, the RTSP server with a
thread per client and the RTSP viewer that takes packets out of a byte stream, the
relay, the bitrate control, the sender session, the programs that send and view
datagrams, and the classes that own sockets and coroutine frames.  TLC checks
every module on small instances; TLAPS proves the central invariants for all
values of the constants.  `PROJECT.json` maps each definition to its source lines.

To repeat a check: `tlc -config <run>.cfg <module>.tla` (the table of runs names
both), and `tlapm <module>.tla` for each of `JitterBufferProofs`, `PipelineProofs`,
`H264DepacketizerProofs`, `RtpFragmentationProofs`, `RtpCodecsProofs`,
`SimpleRTSPServerProofs`, `ViewerClientProofs` and `ProgramsProofs`.

## The system

| component | state | operations | talks to |
| --- | --- | --- | --- |
| `core/transport/rtp/h264_packetizer` | `m_sequence` | `packetize_nalu`, `packetize_frame`, `extract_nalus` | called by the pipeline's capture thread |
| `core/transport/rtp/h264_depacketizer` | `m_fu_sessions`, `m_expected_sequence`, counters | `process_packet`, `reset` | called by the pipeline's process thread |
| `core/video/jitter/jitter_buffer` | `m_buffer`, `m_last_popped_seq`, `m_first_packet`, under `m_mutex` | `push`, `pop`, `get_ready_packets`, `reset` | the same |
| `core/pipeline` | `m_running`, two threads, two sockets, the three above | `start`, `stop`, `capture_loop`, `process_loop`, `get_metrics` | client thread, UDP, encoder, `LoggerManager` |
| `core/transport/network` | a descriptor | `open`, `bind`, `send`, `receive`, `close` | pipeline, sessions, applications |
| `apps/rtsp/simple_rtsp_server` | listener, table of sockets, table of sessions, `m_active_threads`, `m_rtp_sequence` | `start`, `stop`, `server_loop`, `handle_client` (detached, one per client), `streaming_loop` | RTSP clients over TCP, FFmpeg |
| `apps/rtsp/viewer_client` | socket, assembler, receive thread | `start`, `stop`, `receive_loop` | an RTSP server |
| `apps/exp/streaming_server` (relay) | listener, list of clients, two loops, a detached thread per client and per browser | `start`, `stop`, `server_loop`, `metrics_loop`, `handle_client`, `handle_metrics_request` | TCP clients, browsers, an RTSP server to which it takes each request |
| `apps/exp/metrics_adaptive` | metrics, configuration and target under one lock; two loops; a detached simulation | `start`, `stop`, `update_packet_stats`, `apply_adaptive_adjustments`, `generate_metrics_report` | its own simulation |
| `core/session/sender` | running and stop flags, thread, socket, statistics under a lock | `start`, `stop`, `sender_loop`, `send_frame`, `get_statistics` | `apps/basic/network_sender`, `simple_sender`; encoder, UDP |
| `core/session/receiver` | running flag | stubs | nobody |
| `apps/basic/sender` | `m_running`, thread, socket, encoder, `m_frames_sent` | `start`, `stop`, `send_loop` | a viewer, over UDP |
| `apps/vis/ffplay_viewer` | `m_running`, thread, bound socket, `m_packets_received` | `start`, `stop`, `receive_loop` | a sender, over UDP; ffplay on its output |
| `core/async` | `Task`: one coroutine frame | call, move, `get`, destroy | its own sender, receiver and generator, which nobody calls |
| `core/common/logger` | map of loggers under a lock | `create_`, `get_`, `remove_logger` | everybody |
| `core/transport/rtp/rtp_packet`, `rtcp` | none (codecs) | serialize, deserialize | packets on the wire |

What is hard here: 16-bit numbers used as the keys of an ordered map; one map
keyed by a number that differs for each member of a group; threads that share
nothing but a flag and sockets that are closed under them; snapshots used after
their lock is released; file descriptors that the system gives again to somebody
else; detached threads that outlive the count that stands for them; state that is
kept over a stop and a restart; a `join` before the `close` that would end what it
waits for; statistics read between the two changes a frame makes to them; numbers at
the limits of their bytes.  The list `hazards` in `PROJECT.json` places each
of these at its line and names the property that watches it.

## The modules and the code

`RtpSequence` - the 16-bit sequence numbers.  The constant `SeqSpace` is 2^16 in the
code and small here, so that numbers wrap in a few steps.  A packet is
identified by its *position* in the sender's stream, which does not wrap and which
no program variable holds: the code sees `SeqNumber(position)` only, the
properties speak of positions.

`JitterBuffer` - one action for each call under `m_mutex`.  `m_buffer` is a partial
function from numbers to packets, and `Begin` its smallest key, as in `std::map`.
`get_ready_packets` is repeated `pop`.  `PlayoutBuffer` is its abstract
specification, without numbers: it holds positions, plays the oldest when due or
when more than half full, and gives up the oldest when there is no room.
`JitterBufferProps` states the properties and the refinement mapping.

`AnnexB` - `extract_nalus` over the bytes of a frame, the only place where bytes of media
matter; `DividesFrame` is the format's own definition of what it should find.

`RtpFragmentation` - the packets of a frame, as operators.  A NAL unit is its size, a
payload the range of bytes it carries: `FramePackets` is `packetize_frame` with single
units, FU-A fragments, numbers and markers.  `H264Packetizer` adds the state,
`m_sequence`.

`H264Depacketizer` - a packet is its number, its kind and its start and end bits; a
unit is the sequence of positions whose payloads were joined.  `process_packet` is a
disjunction of its ways out, counters included.

`RtpPacket` - `serialize` and `deserialize`, bit fields and bytes as arithmetic.
`RtcpPacket` - the same for a report, whose length and SSRC pass through `htons` and
`htonl` before they are shifted out.

`Pipeline` - composes the three.  `client` is the thread that calls `start` and
`stop`, `capture` and `process` are where the two threads are in their loops:

| state | code |
| --- | --- |
| `capture = "check"` / `"send"` | the `while` of `capture_loop` / the loops over encoded frames and their packets |
| `process = "check"` / `"receive"` / `"pop"` | the `while` / `receive` and `push` / `pop` and `process_packet` |
| `client = "joining"` | `stop` between `m_running = false` and the end of the joins |
| `same_ms` | the clock may still show the millisecond after which the last logger was named |
| `network` | positions of the packets on their way |

The network may lose, duplicate and reorder, as far as the constant `Network` says;
`SocketsMayFail` lets `open` and `bind` fail.  `sent`, `received` and `delivered` are
history variables: the code never reads them.  `MediaChannel` is the abstract
specification: what is sent comes out in order, each packet at most once, and all of
them if `Lossy` is false.  Both enable flags of `PipelineConfig` are taken to be on.

`SimpleRTSPServer` - main, acceptor, streamer and one handler for each client, over
a table of file descriptors (`files`) in which the lowest free number is given
out and closing a number closes whatever it stands for now.  Each handler step is one
stretch between two points where another thread can interfere: `m_running`, `recv`,
the lock, the reading of `m_rtp_sequence` (`LoadSeq`, kept in `seq` until it is sent), the
`send` of the answer (`AnswerPlay`), `close`, the count, the notification.  `announced` is
history: the number in the answer that a client had from its own thread.
The FFmpeg set-up, the SDP text and the base64 of the parameter sets are data.

`ViewerClient` - main, the receiving thread and, external, the server at the other end
of a connection that delivers bytes in order and in pieces of any size.  A byte is
`<<packet, offset>>`; a packet is known by its first byte, and `LookAlikes` says which
other bytes are a `$` and what size and kind the code then reads.  `Scan` is the loop of
`process_tcp_data`; `parsed`, `cut` and `missed` are history.  STAP-A packets are of kind
`"single"`: they come out at once and leave `fu_buffer` alone.  `m_socket = "stale"` is a
closed descriptor whose number is kept, which `stop` then closes again.

`StreamingServer` - the relay, with the same table of descriptors as the RTSP server:
main, both acceptors, a thread per client and per browser.  No socket has a time-out,
so `accept` is enabled only when somebody is queued.  `m_clients` is the sequence of
descriptors in the order of their entries.

`BitrateControl` - the arithmetic of an adjustment, in tenths of whole bits per second
(the code's doubles, truncated where the code assigns to an integer).
`MetricsAdaptive` - main, `monitoring_loop`, `adaptive_loop` and the detached thread that
simulates packets and asks for reports.

`VideoSender` - `VideoSender` as its two programs use it: `session_main` is their `main`,
`sender_loop` where the thread is.  A frame is `[left, sent]` packets; it changes the
statistics twice (`CountPackets`, `CountFrame`), as `send_frame` and `sender_loop` do.

`DatagramViewing` - the sender and the viewer of datagrams with the network between
them, two processes of two threads each.  `late` is history.

`UdpSocket` - constructor, moves, `open`, `bind`, `close` and destructor of any number of
socket objects; `CoroutineTask` - the same for `Task`, and what `get` answers.  Both
implement `UniqueOwner`: a handle is made for one owner, changes hands whole, and is
given back once.

The modules `MC*` give the constants their values for TLC; `*Proofs` hold the proofs.
`MCRtpCodecs` and `MCPrograms` gather what does not interact: at the start of a
behaviour the codec or program it is about is chosen, and the others do not move.

## Runs

| run | module | shows |
| --- | --- | --- |
| `jitter_wrap_drop` * | `MCJitterBuffer` | after a wrap the *newest* packet is dropped when full |
| `rtp_codecs` | `MCRtpCodecs` | frames are divided into their units, units are carried whole, fragments and markers are proper, numbers run on; any order and repetition over three laps of the numbers: a unit handed over begins with its start and ends with its end; RTP packets come back as they were |
| `rtcp_byte_order` * | `MCRtpCodecs` | the length of an RTCP report is not in network byte order |
| `depacketizer_fua` * | `MCRtpCodecs` | a fragment never joins the fragment before it |
| `pipeline_lossy` | `MCPipeline` | loss and restarts: order is kept, every loss is noticed and none invented, `stop` ends |
| `pipeline_network` | `MCPipeline` | loss, duplicates, reordering, failing sockets: threads own their sockets, the buffer never passes one above half, and so never drops |
| `pipeline_lossless` | `MCPipeline` | without loss, over the wrap: nothing is left out, everything sent is handed over, and nothing is counted lost or out of order |
| `rtsp_clients` | `MCSimpleRTSPServer` | the tables agree with the connections, no packet is missed after PLAY, at most one goes astray before it, a handler answers PLAY on its own connection and closes that one while the server runs, nothing is left after `stop` but a last notification |
| `rtsp_stop` | `MCSimpleRTSPServer` | `stop` ends |
| `viewer` | `MCViewerClient` | whatever the pieces: a loss begins with a packet cut by two reads, nothing is parsed twice or out of order, complete units are assembled whole, `stop` ends |
| `viewer_cut` * | `MCViewerClient` | a packet cut by two reads is dropped, though every byte of it arrived |
| `programs` | `MCPrograms` | the relay's list has exactly the clients being served; the sender's statistics fit together whenever they are read; the viewer writes at most one datagram after `stop`; sockets and coroutine frames have one owner; any calls of the jitter buffer in any order keep within its capacity, and it implements `PlayoutBuffer` while numbers do not wrap; the target bitrate settles, and within its bounds; every `stop` ends, the relay's and the viewer's once somebody calls or sends |

A run marked * ends with a counterexample to a sentence of the documentation or of a
comment; `findings` quotes the sentence.  The models show more that no run states:

- Two packets that change places on the way are handed over out of order
  (`InOrder` fails with `Network = {"reorder"}`): the first packet is played at
  once, and a late one is played when the buffer is half full.
- `m_lost_packets` is one short for every gap (`diff - 1`, where `diff` is already the
  number of packets missing), so a gap of one adds nothing to it; the packet after the
  gap counts as out of order instead.  A packet that comes one late adds almost a whole lap.
  No document says what the two count, and no program shows them.  `LossIsNoticed` says what is
  left of their use over a network that keeps the order: none is counted lost that is not
  missing, together they cover what is missing, and both are 0 while nothing is.  It
  does not speak of late packets.
- Every fragmented unit of a frame ends with a marker, not the last packet only.
- `stop` throws when its logger is named after the same millisecond as the one `start`
  made (`result = "threw"`); the threads and sockets are then in order, but for their log.
- `m_active_threads` is 0 before the handler calls `notify_all` on it: `stop` can end, and
  the server be destroyed, before that last use.  `OnlyNotifyAfterStop` says that this is all.
- The viewer takes media that arrives during the handshake for an answer.
- After a start that failed halfway `stop` leaves the sockets open.
- After `stop` has closed a handler's descriptor the handler closes the number again,
  when it may be another connection's; and the streaming thread may send to a
  descriptor that has changed hands.  In the same time the handler's answer to PLAY can
  reach a client that was accepted on the number, and announce to it a packet it did
  not get.  `OwnConnectionWhileRunning` says that before `stop` neither happens, and
  `StrayMediaIsOnePacket` how much media goes astray; `NothingMissedAfterPlay` is about
  answers that a client has from its own thread.
- An RTCP report is written with the bytes of its length and SSRC reversed (`htons`, then
  the high byte first again), against the comment beside it, and read without.  A length of 0 makes the reader take a range that ends before it begins.
- The relay's `stop` joins each acceptor before it closes what that acceptor waits on, and
  so needs one more caller for each; the metrics socket stays open afterwards; a start
  that failed closes its number twice.  Each request goes over a connection of its own
  that is closed after one answer, so media does not come back through it, and the counters
  per client that the page shows are never changed.
- The report of `metrics_adaptive` divides by `keyframe_count`, which is 0 before the
  first key frame (`ReportCrashes`); the target does not move by
  1000 bit/s or less, so a tenth up or down is too little from 10 kbit/s down, where it stays
  but for one step into the bounds, and it may stay outside a bound by such a change; `--log-file` is read with `stoi`
  (`metrics_adaptive.cpp:324`).
- The sender session writes its test picture's second colour plane beyond the frame
  (`video_sender.cpp:203`).
- A viewer whose `bind` failed runs and hears nothing, and its `stop` does not end; a sender
  without an encoder goes through a null pointer.  Neither constructor's result is looked at.
- `create_logger` gives one object to two owners (`logger.cpp:377`).

Bounds, and why they suffice:

- `SeqSpace` 4 to 8 (16 where a whole lap of numbers must exceed what was sent):
  two laps or more fit in the packets of `rtp_codecs` and `pipeline_lossless`.
  The jitter buffer of `programs` keeps below the wrap on purpose: its refinement does not
  hold beyond, as `jitter_wrap_drop` shows.
- Capacities of 2 to 4: full, more than half full, half full and empty are different
  states; one more packet than room can be in play.
- `MaxSent` 3 to 7 packets: enough for a gap, a late packet and the restart
  between them; the encoder then yields nothing, which it may do at any time.
- Frames of one unit that fits a packet and of one that needs two fragments.
- Two clients and three descriptors: two connections and the listener, so that every
  number can be taken over; `MaxPackets` 0 to 2.
- `MaxStats`, `MaxUnits`, `MaxFragments` stop the depacketizer's unbounded counters.
- Six packets of 4 to 8 bytes in three units, read in pieces of any size; answers of two
  bytes, so that an answer can be cut too.  One look-alike reaches into the next packet
  and passes for a piece of a unit, one reaches exactly to the end of the next.
- `rtp_codecs`: units of 1 to 12 bytes with payloads of at most 4, that is every
  remainder of up to six fragments; frames of up to 8 bytes of 0, 1 and another, which hold
  two start codes of either size with bytes between and after them; header
  fields at the limits of their bits and bytes; in `rtcp_byte_order` RTCP payloads whose length field
  is small, just below and above a byte, and its own mirror image (the one that comes out right).
- `programs`: the relay with two clients, one browser and three descriptors, so that a
  client's number passes to the other client, to a request's connection or to the metrics
  socket; targets far below, just below, at, between and above the bounds, which lie three steps
  apart and on both sides of the 10 kbit/s from which the target stays; six packets without a
  wrap for a jitter buffer of four; `MaxUpdates` 3 with a report
  every 2, before and after the first key frame; two frames of two packets for the
  session; four datagrams, of which two are queued; three objects and three handles, so
  that a handle can be passed on while another is made.

Deadlock is checked in every run but the viewer's two and `programs`, whose programs end:
the other systems never have nothing to do, as idle clients may start and idle loops go
round.

## Fairness

Liveness is checked under weak fairness of each thread, which is what the
scheduler of the system gives a runnable thread, and of the end of `stop`: once the
threads it joins have ended, `join` returns.  The encoder never has to yield a frame
(the fairness of `CaptureThread` and `Streamer` leaves out the step that asks it for
one), so a stream may end at any packet.  Nobody has to call `start` or `stop`, and
a client never has to connect.  `accept` and `recv` come back without a connection
or a request (`AcceptNobody`, `ReceiveNothing`) because the server sets time-outs of
500 ms and 2 s on its sockets; the pipeline's `receive` does not block.  The viewer's
`recv` has no time-out; what brings it back is the server, which gives a silent client up
after 2 s (`WF` of `HangUp`): without that `stop` does not end, as it joins before it closes.
The relay's `accept` and the datagram viewer's `recvfrom` have no time-out either, and
nobody must call or send: the properties of their `stop` (`StopNeedsOneCaller`,
`StopNeedsOnePacket`) say what is enough for it to end.  The sleeps of the bitrate control
and of the sender session end, and a key or a signal that stops a program need never come.

Strong fairness is assumed of two steps.  One is `ReceivePacket`.  The loop
polls its socket for ever, and a packet that was not lost is there at some poll; `ReceiveNothing` stands for the
polls before that, so a behaviour that polls for ever and never finds it would be one
in which the packet was lost.
The other is the end of the datagram sender's inner loop: the encoder may hand out
packets of one frame again and again, but not for ever.

## What is proved

For every capacity, modulus and set of packets (`JitterBufferProofs`):

- `TypeCorrect`.  Inductive as it stands, by the lemma that the smallest key of a
  nonempty map of naturals exists and is one of its keys (`BeginIsLeast`), which rests
  on the library's theorem on well-founded minima.
- `CapacityRespected`.  `push` adds at most one key and, above the capacity, erases one
  that is there; `pop` only removes.  Needs the types: that `Begin` is a key.
- `PlaysByPositionUnwrapped`.  While numbers do not wrap the map is the identity on
  positions (`PositionInv`, inductive), and each action is the abstract one of the
  same purpose under the mapping in `JitterBufferProps`.

For every buffer size, every frame and every order of `start` and `stop`
(`PipelineProofs`), over any network:

- `ThreadsKeepTheirSockets`.  The property is not inductive: that no thread runs after
  `stop` says nothing of the sockets while it joins.  `SocketInv` adds that sockets are open
  while the pipeline runs, and that threads exist only while it runs or is being joined.
- `HalfIsAlwaysEnough`.  Needs that keys are naturals (or `Begin` might be none of
  them and `pop` remove nothing), hence that nothing is anywhere that was not sent and the
  buffer has each packet under its own number (`PlacesInv`), and `SocketInv`: a second
  process thread between `push` and `pop` of the first would break it.
- `PipelineIsTyped`, on `SendingInv`: the packet at each position sent is numbered by it.
- `PacketsComeInOrder` and `LossIsAlwaysNoticed`, under `FirstLap`: a network that loses
  and does nothing else, and no more than 2^16 packets.  The second half is no
  convenience.  A loss may be longer than a lap, after which an old number is a new one, and
  order really breaks; the code has nothing against it.  `OrderInv` says that positions
  ascend from the output through the buffer into the network, whatever was dropped or
  left over from before a restart; `GapsInv` relates the two counters to the last position
  handed over.  The first theorem is the refinement of `MediaChannel`.
- `NothingIsLeftOut`, under `Network = {}`, for a pipeline that is started and not stopped
  (`Unstopped`; a packet on its way at a stop is lost): for any number of laps, as the positions from the
  first not yet handed over to the last one sent lie in the buffer and then the network
  without a gap (`LosslessInv`), so that the number expected next is always the one that comes.
  `NoFalseAlarm` adds, under the same assumptions, that the depacketizer expects the number of
  the packet due next, so that neither counter moves, at the wrap either (`QuietStep`).

For every frame, payload size, modulus, header and payload (`RtpFragmentationProofs`,
`RtpCodecsProofs`):

- `AllIsCarried`, `FragmentsAreAlwaysProper`, `MarkersAlwaysEndUnits`, `NumbersAlwaysRunOn`.
  They are about a sequence of sequences flattened: `FlattenSeq` is a recursive function of
  the library, so what it returns is proved by the smallest counterexample to it
  (the theorem on well-founded minima takes no operator).  One unit needs the arithmetic
  of whole fragments; `OneHop` carries a property of neighbours across the joints
  between two units.
- `ReadBack` and `PacketsAlwaysComeBack`: `deserialize` undoes `serialize`, whatever packet
  the object held before.  They rest on the division of 16- and 32-bit numbers into bytes
  and of the first two bytes into bit fields.
- `EveryFrameIsDivided`, for any bytes, and `FramesAreAlwaysDivided`: `From` is a recursive
  function over the offsets of a frame, proved to exist and then followed from its end to
  its start (`StepAtCode`, `OneMoreUnit`).  What it takes is that the bytes between two start
  codes belong to none (`BetweenCodes`): a code cannot begin in the last two bytes of the
  one before, which are 0 and 1, and a zero before the next would have made that a long one.
- `CodecsAreTyped`.

For any number of clients and descriptors, with more descriptors than clients
(`SimpleRTSPServerProofs`): `ServerTypeCorrect`, `TablesAlwaysAgree`, `NothingIsLeft`,
`OnlyNotifiesAreLeft` and the action property `OnlyItsOwn` from one inductive invariant,
`Inv`; `NothingIsMissed` and `StrayMediaIsBounded` from `Inv` and `MediaInv`.

- None of them is inductive: that a table is empty after `stop` depends on who may still
  write to it.  `Inv` has the types, the count of threads as the cardinality of the set of
  handlers that have not yet counted themselves out (`ThreadsInv`), who has each open
  descriptor and who will erase each entry (`FilesInv`), and that while the server
  runs every handler's number is its own connection's (`RunningInv`).
- That a descriptor is free when the acceptor needs one is a pigeonhole argument over the
  types (`OneIsFree`), and that it is no handler's follows from `RunningInv`.
- `MediaInv` follows one number, from the moment it is read (`Promised`: in the handler's
  hands, then announced), for packets go out before the answer does.  Whose handler holds or
  has sent one plays until `stop` clears the tables, and after that no handler on its way to
  an answer has its connection any more (`AnswersInv`); a client that plays was sent every packet
  from the promised one on but perhaps the one being sent (`NoGaps`, `AnsweredInv`); and a
  list of targets that is stale is used for one packet only (`StrayInv`).
- `NothingIsLeft` says nothing of the handlers' threads: of those, `OnlyNotifiesAreLeft`.

For every set of packets that are known by their position (`H264DepacketizerProofs`):
`UnitsAlwaysFramed`.  `SessionsInv` says what a session under way contains: nothing
if it has not started, and else a start and then no start and no end.  That every
unit is framed then follows from the step that completes it.

For every stream of packets, every set of look-alikes and reads of any size
(`ViewerClientProofs`): `ViewerIsTyped`, `ParsedAlwaysInOrder`, `UnitsAlwaysWhole` and
`LossAlwaysBeginsWithACut`, from `Inv`, whose five parts are invariants of the run's
instance too.

- `Scan` is a recursive function of which nothing is known before it is proved to exist
  (`ScanExists`, by a smallest counterexample).  `ScanClosed` then says that sets closed
  under its steps have its result, and `ScanTakes` what that is: all of the buffer is
  looked at; the packets taken are complete, none inside another; and no complete one is
  anywhere but inside one of them.  `FoldClosed` does the same for the fold of `assemble`.
- `WireInv`: bytes on their way ascend, and after any of a packet comes the rest of it.
- `ParsedInv`: what was parsed comes before what is on its way, and if it was the first
  byte of a packet then none of that packet is left.  `ParsedInOrder` alone is not
  inductive, for it says nothing of what the next read brings.
- `UnitsInv` (`Assembled`): every unit of which all packets were parsed is among those made,
  and `fu_buffer` holds exactly the packets of one under way while the last packet parsed
  is one of them.  `OneMore` carries it over one packet.
- `LossInv` adds that a packet on its way is whole, or cut, or missed.  One that lies whole
  in a read and is not taken begins inside one that was taken; as a packet's own
  bytes are all its own, that is a look-alike, and its packet and all between are lost
  (`SkippedAfterLookAlike`).

For any number of clients, browsers, objects, descriptors, frames, packets and datagrams
(`ProgramsProofs`):

- `TableIsAlwaysExact`.  The list of clients has each descriptor once and only those of
  connections being served; the invariant says where each handler is between `accept`
  and `erase`, and that no other thread closes its descriptor.
- `SocketsOwnUniquely`, `HandlesAreAlwaysOwned`: `UdpSocket` and `CoroutineTask` implement
  `UniqueOwner`, as an object not constructed owns nothing (`OwnersInv`); and
  `SocketsAreExact`, that hence the open descriptors are exactly the owned ones.
- `ReadingsAlwaysMakeSense` counts the frame that is between its two changes of the
  statistics; `AtMostOneLate` adds that after one late datagram the thread is not waiting
  for another; `ProgramsAreTyped`.

The assumptions are those named in the modules that declare the constants: frames are
sequences of sizes, a payload has room for more than the two bytes of a fragment's header,
the relay and the RTSP server have more descriptors than clients need, and the packets
that `MCRtpCodecs` writes are RTP packets.

Model-checked only: liveness, as the prover has no fairness rules (`SentIsDelivered`, both
`StopCompletes`, `EveryStopEnds`, `Settles`), and everything about RTCP.  The jitter buffer's order is proved for the
first lap; beyond it, it does not hold (`jitter_wrap_drop`).

## Not modelled, and the plan

- Part of the logger and of the UDP classes: formatting and socket options are calls into
  other libraries.  Of the logger the pipeline's model has the names.
- `core/async` but for `Task`: the coroutine sender, receiver and generator have no caller,
  and `get` runs each to its end on the calling thread.
- `core/transport/rtp/rtsp_client`, `core/video/media/rtsp_server`,
  `core/session/receiver`: stubs whose operations do nothing that could go wrong.
- The encoders: calls into FFmpeg.  The models take any sequence of unit sizes, or any
  number of packets, as what an encoder yields.
- `apps/vis/visual_demo`, `apps/vis/sdl_viewer`, `apps/basic/viewer`, `simple_viewer`,
  `apps/rtsp/test_rtsp_client`: one thread, one loop, drawing or printing.
- SDP and HTML text, base64, command lines: data.  `set_config`, `get_config` and
  `get_current_metrics` of the bitrate control have no caller.
- Data races on plain values: the doubles that `get_metrics` copies are left out, and
  `m_server_socket`, an `int`, is read as the old number or as -1.  Both are among the hazards.
- `SIGPIPE`: an answer of an RTSP handler, or what the relay sends, to a client that has left
  may end the program (`broadcast_packet` alone passes `MSG_NOSIGNAL`).  In the models such a
  send has no effect.

Every safety property that a run checks and finds to hold is proved; `LossIsNoticed` in two
parts, loss in the first lap and any laps without loss, as across both it does not hold.  What could be added
is an abstract specification of the whole way of a packet, from capture to playing, which
`Pipeline` would implement step by step.
