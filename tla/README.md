# A verification of yodel in TLA+

yodel is a software modem and TNC for amateur packet radio: a `no_std` library
(audio samples to AX.25 frames and back, APRS, digipeating, KISS, FX.25, IL2P,
M17, FT8, WSPR) and the command `yodel` around it. This directory holds TLA+
modules translated from that source, TLC models of them on small instances, and
TLAPS proofs. Paths below are relative to the repository (`src/ring.rs`); in
`PROJECT.json` the repository's root is `src/`, so the same file is
`src/src/ring.rs`. `PROJECT.json` maps every definition to the lines it models.

## 1. Inventory

The receive path is a pipeline of small push-one-item state machines; the
transmit path a pipeline of lazy iterators. Concurrency appears only at the
edges: an interrupt feeding the sample ring, the threads of the TCP bridge, the
sound device's callbacks, the tokio and embassy tiers, and the radio channel
shared by several stations.

| Component | State | Operations | Interacts with | What is hard | What makes it correct |
|---|---|---|---|---|---|
| Sample ring (`ring.rs`) | buffer, head, len, overruns | push, push_slice, pop, pop_slice, clear, take_overruns | audio interrupt / main loop | interleaving, wrap-around, saturation | FIFO, nothing repeated or spliced, exact drop count |
| KISS (`kiss.rs`) | encoder position, deframer buffer and flags | encode_into, frame_iter, push | serial or TCP peer | damaged bytes, shared FEND, capacity | re-sync, no phantom or truncated frame, the encoders agree |
| FCS (`ax25/fcs.rs`) | 16-bit register | update, finish, locate_single_bit_error | HDLC, dedup keys | bit order, off-by-one in the locator | locates every single flip |
| HDLC (`ax25/hdlc.rs`) | run of ones, accumulated bits, raw window | frame_bits, push, repair, voted window | each receive chain | a bit error may become a flag, an abort or a stuffing bit | later frames unaffected, flips mended, nothing forged |
| Receiver bank (`tnc.rs`) | chains, seen ring, statistics | push_i16, push_f32 | slicers, HDLC | chains complete the same frame at different samples; votes; repairs | emitted once, counted once |
| Digipeater core (`digipeat.rs`) | duplicate ring | relay_decision, check_and_insert | stations | copies by several routes, expiring window, full ring or path | hop budget conserved, floods end |
| Stations (`examples/digipeater_station.rs`, `examples/esp32-riscv/src/digipeater.rs`) | ring, rendered relays | per-frame decision | one another over the air | lost receptions, order of check and decision | a frame is relayed once, a named hop is served, a relay fits its buffer |
| KISS TCP bridge (`bin/yodel/serve.rs`) | client list, flag, two channels, counters | five kinds of threads | peers, audio in, sink | shutdown races, full channels, slow peers, failing sink | no lost burst, no gap, always returns |
| Keying (`bin/yodel/ptt.rs`, `transmit.rs`) | control lines, player or stream, flags | open, assert, play, drop | driver, player, sound device, clock | hung player, stalled callback, error racing the end | keyed only when held, bounded, released, whole |
| FX.25 / IL2P (`rs.rs`, `fx25.rs`, `il2p.rs`) | tag and sync correlators, block buffers, duplicate memory | push, wrap_with, encode, decode | receiver bank | FEC block and plain frame of the same packet; errors up to and past the radius; slips | corrected within the radius, delivered once, back for the next frame |
| tokio tier (`asynk.rs`) | feeds, chunk and frame channels, client list | decode_many, pump_feed, serve_kiss | readers, peers | back-pressure, a silent reader, a stream dropped early, a stalled or failing client | no lost sample, no task left, no starvation |
| embassy tier (`embassy.rs`) | one task around the receiver | run_decoder | sample ring | none of its own | that of the ring and the receiver |
| APRS-IS client (`bin/yodel/aprsis.rs`) | session, counts, back-off, sink | login, read lines, reconnect, flush | server, pipe or file | disconnects, overlong lines, failing sink, a pipe nobody reads, bounds across sessions | back-off respected, bounds kept, counted lines saved |
| Line coding and slicer (`nrzi.rs`, `scrambler.rs`, `slicer.rs`) | shift register, level; phase and lock | encode, decode, push | modem | error propagation, wrapping phase | self-synchronisation, one decision per cell |
| AX.25 frames (`ax25/addr.rs`, `ax25/frame.rs`) | none | parse, build | HDLC, IL2P, APRS | reserved bits, end of the path | round trips |
| APRS (`aprs.rs`, `aprs/*`), geodesy and units (`geo.rs`, `units.rs`) | none | parse and build each report, conversions, monitor lines, third-party traffic | each other: a report's coordinates move between spellings | rounding, ambiguity, two places that split one number | what is written reads back, settles, and never gets finer |
| M17 (`m17.rs`, `m17/fec.rs`) | receiver state, packet assembler | packet_frame_encode, push_i16, start, feed | `yodel m17 decode` | damaged sync, missing LSF or end, frames of two transmissions | only payloads that were sent |
| FT8 and WSPR (`ft8*`, `wspr*`) | decoder path and threshold | standard, free_text, unpack, fano_decode | `yodel ft8`, `yodel wspr` | mixed radix at the ends of ranges, fades, backtracking | shown is sent |
| Front end (`modulator.rs`, `discriminator.rs`, `demodulator.rs`, `baseband.rs`) | filters | push | samples | numerical | numerical |

`PROJECT.json` lists these under `components`, with what is not modelled and
why, and the hazards at the lines where they bite.

## 2. Plan

Written, in this order:

1. the components with concurrency or a noisy channel: `SampleFifo`,
   `SampleRing`, `SampleRingProofs`; `Kiss`; `Fcs`, `Hdlc`; `Digipeat`,
   `DigipeatNet`; `TncReceiver`; `KissBridge`; `Keying`;
2. the APRS codecs on a common base (`Text`, `Geo`, `Extension`, one
   module per report family, `Aprs` for dispatch) and `Ax25`, with their
   composition `Bridge`;
3. line coding and the slicer (`LineCode`), `ReedSolomon`, `Fx25`, `Il2p`, `M17`, `WeakSignal`;
4. the programs at the edges: `Feeds` and `ServeKiss` (tokio), `Capture`
   (APRS-IS), with the ring and the keying commands in one composite instance.

5. the proofs of section 5, component by component.

The modules that are to be proved about declare no recursive operator and state
their invariants as conjunctions of parts.

## 3. Modules

Every module keeps the source's names. Definitions introduced by a comment
`Mutant:` are deliberately wrong variants of the definition that follows them;
nothing uses them, they serve to show that each property can fail.

**SampleFifo** is what `ring.rs` promises: a bounded queue that drops the newest
samples and counts the drops. **SampleRing** is the ring as written: buffer,
`head`, `len`, modular slots; one action per method (`push` is split by its
early return; `pop` on an empty ring is a stuttering step). The crate takes no
lock: callers wrap each method in a critical section, so a method is one atomic
step. Samples are stamps, because the ring never looks at their value.
`Fifo == INSTANCE SampleFifo` maps `queue` to the live slots from `head` on.

**Kiss** runs `KissFrameIter` (one byte a step), a serial line that delivers,
loses, damages or inserts bytes, and `KissDeframer::push`. The deframer's buffer
holds its live bytes only.

**Fcs** and **Hdlc**: bytes are runs of eight bits, least significant first, so
`FrameBits`, the deframer, the CRC and the repair searches all work on bit
sequences; `len` and `nbits` of the code are `count \div 8` and `count % 8`.
`Emit`/`Settle` are `FrameBits::next` (one tail flag); `push`, `OnFlag`, `OnOne`,
`close_frame`, `try_repair`, `try_predestuff`, `try_voted_window` are the methods
of the same names. `UiFrame::parse` is the constant `Sane`. The channel flips,
loses or inserts a bit at any place, flags included. `Vote` hands the deframer a
window on which the other chains agreed, up to one wrong bit.

**Digipeat** has `relay_decision` and `check_and_insert` as operators; times are
replaced by ages, since only differences are used, and the 64-bit fingerprint by
the packet's identity. **DigipeatNet** composes stations of both tiers on a
channel: a transmission is heard by any subset of the stations in range; a relay
is rendered when heard and goes out later. `consider` and `relay_one` are the
per-frame functions of the two examples, which call the same two operators in
opposite orders. Rendering may fail (`Renders`: the frame buffer, and on the
embedded tier the sample buffer `TxBuffer`), after the duplicate ring has recorded
the packet: `push` and `relay_one` then relay nothing. Stuffed bits are left out of
the samples, which can only make fewer renderings fail. The workstation is one run
with `--transmit`.

**TncReceiver** is the merge of `push_envelopes`: one step is one sample, with
each chain's deframer event, in chain order, through `register`, the emission
rule, the primary-chain statistics, the vote and the final parse. What each chain
reports and when is chosen freely within `Skew` samples of a transmission's end,
including frames nobody sent (a repair accepted by mistake), and a transmission may
repeat the one before it. The history behind `EmittedOnce` distinguishes what a
made-up frame of the same transmission took (`claimed`, `preempted`) from what an
earlier transmission left in the ring, which excuses nothing.
`push_baseband` is its own action. Deframer errors other than the two in `Events`
cannot be produced by `close_frame`.

**KissBridge** is `run_tcp`. Each thread is a program counter; an action is what
happens between two points at which another thread can intervene (an atomic
access, a channel operation, a socket call, a critical section). The client list
is only touched inside critical sections that contain no blocking call, so each
is one action. Peers connect, send, read slowly or not at all, and hang up
freely; a write may fail or time out at any moment. The audio input may fall silent
while it is open: the decode thread reads the shutdown flag only when a sample has
arrived (`DecodeStop`).

**Keying** is `ptt` and `transmit`: the command's thread, the control lines, the
player or the sound device with its buffer, its data and error callbacks (the
error callback's two stores are two steps), and a clock that moves while the
thread sleeps. The driver may raise either line when the port is opened.

**LineCode** has two instances in one module. Coding: `transmit` is the
transmitter's NRZI, then scrambler (`frame_samples_i16`), `receive` the receiver's
descrambler, then NRZI (`push_baseband`), over a line that may flip any bit; the
registers and the levels of both ends start in every state. Timing: `Slicer::push` on a line whose edges
wander; the 32-bit phase accumulator has `PhaseBits` bits.

**ReedSolomon** is `RsCodec` over GF(256) as functions on byte sequences:
syndromes, Berlekamp-Massey, Chien search, Forney, verification. **Il2p** is the
header with its bit layout, the scrambler, the block plan, `encode`, `decode` and
`Il2pReceiver`, and sends two frames over a line that damages the first.
**Fx25** is `Fx25Receiver`: its plain path, its block path and the memory of
recent deliveries between them. Time there runs in units (a tag, a frame, parity)
and a spoilt unit stands for errors; that a block within the radius is corrected
is what `Il2p` checks byte by byte.

**M17** is packet mode from callsign to coded frames and back: base-40 addresses,
CRC, convolutional code with both puncturings, Viterbi decoder, interleaver and
randomiser as operators; `push_unit` is `M17Receiver::push_i16` over a frame's
worth of samples, and `start`/`feed` are `PacketAssembler`. **WeakSignal** is the
packing and unpacking of FT8 and WSPR messages, FT8's CRC, and WSPR's
convolutional code, interleaver, channel symbols and Fano decoder.

**Text** is what the APRS parsers share: fields are sequences of byte codes, a
parser returns `Ok(value)` or `Err`, and `Then` is Rust's `?`. **Geo** (both
`geo.rs` and `units.rs`) keeps the code's exact integer units, scaled where they
would not fit TLC's integers. **Position**, **MicE**, **Messages** (with
telemetry, objects and items), **Weather** (with the Ultimeter consoles), **Nmea** and **Extension** each have
the parser and the builder of a report family; **Aprs** is the dispatch of `AprsPacket::parse`,
`Decoded::decode` and `to_vec`; **Ax25** the frame around it, the
TNC2 line and third-party traffic. **Bridge** composes them all: a client of the
library that decodes, respells (compressed or not, Mic-E to position and back,
a weather console's record to a report), builds, and sends through AX.25, a monitor
line or third-party traffic, any number of times in any order. It is the
canonicalising path of `docs/APRS_CONFORMANCE.md`, and `rebuild_verdict` is that of
`yodel decode --verify-rebuild`.

**Feeds** is `decode_many`: per feed, a task that reads and a blocking thread that
decodes, a chunk channel between them and one frame channel to a caller who may
drop the stream; a reader may yield nothing for ever. **ServeKiss** composes it with `serve_kiss`, whose one task
accepts, takes frames and writes to every client in turn. **Capture** is
`yodel aprsis` with its buffered sink, composed with the line reader of
`yodel decode --tnc2` behind a pipe or a file. What the sink hands to a pipe is in
`output` at once, but the write returns only when the pipe has room for all of it
(`WriteReturns`), which its reader may never give.

*Composite instances.* `MCTnc`, `MCPrograms` and `MCCodecs` hold several components whose
states are disjoint; `part`, `program` and `running` say which one a behaviour runs, the
others stay in an initial state. They save nothing but runs: the state space is
the sum of the parts, not the product, and a property of one part is trivially
unaffected by the others.

*The map.* A definition is mapped to the function, constant or type it
translates, the doc comment attached to that item included; one that stands for a
step inside a function is mapped to those lines, and an operator that only names a
part of another's lines is mapped with that other one. Definitions for a peer, a radio
channel, a disk or the operating system are marked external. `Err` stands for
the whole error type.

## 4. Runs

| Run | Instance | Shows |
|---|---|---|
| `tnc`: kiss | N = 2, ports 0 and 12, 2 frames, 2 noise events | `IntactDelivered`, `NoPhantom`, `EncodersAgree` |
| `tnc`: tcp | 2 connections, 1 client slot, channels of 1, 3 frames in, 2 out | `BurstsAccounted`, `NoGap`, `EventuallyReturns` |
| `tnc`: bank | 3 chains, 3 slots, window = skew = 2, 2 transmissions | `EmittedOnce`, `SingleReceiverStats` |
| `hdlc` | N = 4 bytes, raw window 48 bits, 2 frames, 1 noise event, all policies | `IntactDelivered`, `NeverForges`, `FlipRepaired` |
| `digipeat_net` | 3 stations of both tiers, 2 packets (one sent twice; 10 and 40 bytes), paths up to 3 hops, window 1 tick, the documented sample buffer | `BudgetConserved`, `RelayedOnce`, `EmbeddedServesNamedHop`, `FloodsEnd` |
| `programs`: ring | N = 3, ceiling 2, slices up to 4, 8 samples | `TypeOK`, `InOrder`, `OverrunsExact`, `ImplementsFifo` |
| `programs`: keying | lead 1 or 5, tail 2, max 4, hold 0, 1 or 9, drain 1 or 2, device buffer 2, both lines, both polarities | `KeyedOnlyWhenHeld`, `KeyDownBounded`, `WholeTransmission`, `EventuallyReleased` |
| `programs`: capture | 2 lines, 8 sessions, a sink of 3 pieces, a pipe of 2 and a file, every bound | `Courtesy` (back-off), `LineForLine`, `EndsInTime` |
| `programs`: decode_many | 2 feeds, one of odd length and one that fails, reads of 2 bytes, channels of 1 | `NothingLost`, `NoneLeft` |
| `programs`: serve_kiss | 2 clients that come, go and hang up, sockets of 1 frame, a feed of 2 frames | `EveryoneElseServed` |
| `codecs`: bridge | the reports of `MCBridge` (every kind the library builds, and edges of every grid), chains of 14 steps | `ReadsBack`, `Canonical`, `NoDrift`, `NeverFiner` |
| `codecs`: coding, timing | a register of 5 with taps 3 and 5; 8-bit phase, 8 samples a cell, edges 1 sample off, up to 7 cells without an edge | `SelfSynchronises`, `OneDecisionPerCell` |
| `codecs`: fx25 | 2 frames, 3 transmissions, 2 spoilt units | `DeliveredOnce`, `OncePerWindow` |
| `codecs`: il2p | 3 frames (one, two blocks, transparent), blocks of 6 and 7 bytes, both FEC levels, damage to sync, header and blocks | `MendedAndResynced` |
| `codecs`: m17 | 4 conversations of two packets of 1 to 3 frames, 2 damaged or missing units | `PacketsIntact` |
| `codecs`: weak | callsigns of every alignment and none, the ends of every range, fades of 48 symbols, bursts of 3, 800 visits | `ShownIsSent` |
| `named_hop` | as `digipeat_net` | finding 1 |
| `relay_buffer` | as `digipeat_net` | finding 6 |
| `graceful_shutdown` | as tcp in `tnc`, without peers that leave | finding 2 |
| `silent_audio` | as tcp in `tnc`, without an audio input that goes on or ends | finding 7 |
| `hard_limit` | the player commands of `programs` | finding 3 |
| `stalled_client` | as serve_kiss in `programs`, with clients that may stop reading | finding 4 |
| `mic_e` | the traffic of `codecs` | finding 5 |

*Why the bounds are enough.* The ring wraps more than twice (8 samples through 3
slots) with slices longer than the ring and a counter that saturates. KISS
payloads fill the capacity exactly, exceed it, are empty, and contain the special
bytes; two noise events allow a damaged frame next to a damaged delimiter. HDLC
contents include a runt, one that outgrows the buffer, and runs of ones that need
stuffing inside the content, across bytes and in the FCS; the single error is
tried at every bit of both frames, flags included. The digipeater
network has a station whose ring is smaller than the number of packets, so that
eviction happens, a window that expires at any moment, and a packet that fits the
embedded station's buffer only with a short path. Three slots and three
chains are the tight case of "as many slots as chains"; the second transmission
may repeat the first. One client slot and channels of depth one make every queue
full and every blocking send block. The keying times put the limit before,
during and after each sleep.

Eight sessions are enough for the back-off to reach its ceiling (5 doubled to
300 s) and to be reset below it. Two feeds of five and four bytes with one-entry channels put a read
boundary inside a sample, an error behind undelivered frames, and every sender in
a blocking send. The traffic of the bridge is fixed but its steps are not: 14 of
them let a report be decoded, respelled, built and carried three times over. `AltMaxExp` (40 of the
code's 8280) bounds the altitude exponents, whose fixed-point table is
otherwise the same. `LineCode`'s property is about taps and register only,
and every state of both ends is an initial one, so a short register with both taps in it has every case of the long ones. Two
spoilt units and three transmissions let a stale tag lock hide the block of the
next transmission; they do not fill FX.25's memory of four frames. The IL2P
block limits (239 and 247 bytes in the code) are lowered so that frames of a
few bytes need one and two blocks. M17 damage covers a sync that still reads
right, one that reads as the other, one that reads as neither, bits the Viterbi
decoder mends and a run it cannot. A fade of 48 symbols is more than a quarter of a WSPR
transmission; with fewer than about 100 visits of the code tree the same fades
fail, so the decoder does back out of wrong branches.

*Deadlock* is checked in `tnc`, `digipeat_net` and the findings on the same modules
(in `tnc` the serial line is allowed to stop once all is sent). In the others the
system really stops: no more frames to send, the command has returned, the message
has been shown.

*Fairness.* `DigipeatNet`: weak fairness of each station's `Transmit`, a channel
that is clear now and then; nothing makes a reception succeed. `KissBridge`: weak
fairness of each thread (the operating system schedules it; a blocking send is
not enabled, and `CasterWrite` always ends because of `WRITE_TIMEOUT`), and nothing
of the surroundings. What these must do is named where it is assumed: `SinkTakes`
(the audio output takes or refuses each burst), `PeersLeave` (peers hang up sooner
or later) and `AudioYields` (the audio input does not fall silent for good while it
is open). `EventuallyReturns` assumes all three; `graceful_shutdown` shows that it
needs the second and `silent_audio` that it needs the third. `Keying`: weak fairness
of the thread and of the clock, none for the player or the sound device. `Capture`:
weak fairness of the client's next step and nothing else: a connection and a read
have a timeout, a sleep ends, but a write to a full pipe is not enabled, and nothing
is assumed of the server or the pipe's reader. `EndsInTime` therefore says that the
command ends or waits in a write for ever. `Feeds`: weak fairness of the steps of
each task and thread that wait for no reader, and of the caller doing something with
an item it is offered (taking it or dropping the stream); nothing makes a reader
yield. `NoneLeft` therefore says that a feed ends or waits for its reader alone, with
nothing it has read held back. `ServeKiss` has the same, the server's task, and the
clients that read; in `stalled_client` one that has stopped reading owes nothing.

### Findings

1. `named_hop`: the workstation digipeater checks for duplicates before it
   decides, so overhearing a frame before its turn makes it suppress the copy
   that names it. The embedded digipeater decides first and does not.
2. `graceful_shutdown`: the sweep at audio EOF misses a client admitted just
   after it and a client already dropped from the list by a failed broadcast;
   the bridge then waits for that peer.
3. `hard_limit`: `--tail` is slept after the last look at `--max`, so the
   documented hard limit can be exceeded with a successful exit.
4. `stalled_client`: `serve_kiss` writes with no timeout, so a client that stays
   connected and stops reading is not dropped, as documented, but stops
   everybody else.
5. `mic_e`: `encode_destination` truncates the longitude to degrees where
   `encode_info` rounds it to hundredths of a minute first; a longitude that
   rounds up to 10 or 100 degrees reads back a hundred or twenty degrees off. (That
   one which rounds up to 180 cannot be encoded follows from the same lines; the
   trace stops before it.)
6. `relay_buffer`: the embedded digipeater's documented sample buffer, "a comfortable
   upper bound", holds 66 octets of frame: two hops and 37 bytes of information are too
   much. Such a relay is dropped, and since it was recorded before it was rendered, a
   copy with a shorter path that would fit is then suppressed as a duplicate.
7. `silent_audio`: the poll that should let the bridge end after its sink has failed
   sits in the body of the loop over the audio input; an input that is open and silent
   never gets there.

### Observations

Behaviour the model shows that no sentence of the repository denies, or that a
property states as its exception:

- `EmittedOnce`: when two chains complete two *different* frames on the same
  sample, only the first is emitted, and the second, having been registered, is
  suppressed for the rest of the window; likewise a wrongly repaired frame with the
  key of the one that was sent. Both take a wrong repair within the same transmission.
- `Keying` takes a control line to be set when `set_line` is called; `ptt.rs:156`,
  170, 196 and 197 ignore its error, so a driver that refuses to lower a line leaves
  the radio keyed until the operating system drops the lines at close.
- `Canonical` (`SignLost`): a small southern or western coordinate that rounds
  to zero is written with its letter and read back without it.
- `Bridge` (`Deviates`): a compressed position with a digit as overlay is read as
  an uncompressed one; `Item::parse` wants 19 bytes, so a compressed item with a
  short comment is built and refused. `docs/APRS_CONFORMANCE.md` section 4
  already notes that `--verify-rebuild` does not look at Mic-E.
- `!4903.5 N/07201.75W-` is rebuilt as `value_changed`: the parsed longitude keeps
  digits the builder blanks (`position.rs:1443`). `position.rs:1554-1559` says of such
  reports that respelling "changes no value", which is so of the position that
  `coordinates` returns, not of the field; the comment in `json.rs:428-437` explains
  why it is reported. `position.rs:14` still says ambiguity is not supported.
- FX.25: on the bit that ends a block a plain frame that completes on the same
  bit is dropped, also when the block turns out to be uncorrectable or another
  frame (`fx25.rs:833-838`); only the first frame of a block is returned.
- IL2P has no checksum behind Reed-Solomon: more errors than the radius may be
  mended into something else, and a header mended wrong may swallow up
  to `RX_FRAME_MAX` bytes. `il2p.rs:137-139` calls a false lock harmless because the
  header's parity rejects garbage; while it is collected the receiver looks for no
  other sync word. `il2p.rs:1451-1454` still says that the parity is not signalled in
  the header, but `decode` reads the FEC level from it (`il2p.rs:1221`).
- M17: `SYNC_LSF` and `SYNC_PACKET` differ in two bits, so a single flip turns a
  packet frame into an LSF and loses it; after a missing LSF a packet is printed
  under the previous transmission's.
- `Capture` (`Stalled`, the exception of `EndsInTime`): `--seconds` ("Stop after this
  many seconds.", `aprsis.rs:111`) is looked at between lines, and a write to a pipe
  that is kept open and not read (`aprsis.rs:423`) never returns to that place.
- `Feeds` (`Waiting`, the exception of `NoneLeft`): `examples/decode_pcm_tokio.rs:108-110`
  says of a dropped stream that "the channel closes and its task stops". `pump_feed`
  notices only at its next frame (`asynk.rs:436`): with a reader that has fallen silent
  the task and its thread stay for good, with one that brings no frame as long as it
  goes on.
- `aprsis`: EPIPE during login is taken for a downstream that closed; after a
  broken pipe the final flush still returns its error; a sleep may overshoot
  `--seconds` by one back-off.

## 5. Proofs

Each proof module extends the module it is about. Its theorems hold for every value
of the constants that the named assumptions of that module allow; TLC evaluates
those assumptions in the runs, and checked each inductive invariant on its
instance before it was proved.

### `SampleRingProofs`: the sample ring

For every capacity, overrun ceiling, slice length and number of samples:
`TypeCorrect`, `OverrunsCorrect`, `OrderCorrect` and `RingImplementsFifo`.

`TypeOK` is inductive by itself. `OverrunsExact` is inductive given `TypeOK`: the
history `lost` does not saturate, and saturating twice (in `push` for the first
refusal, in `push_slice` for the rest) is saturating once. `InOrder` is
inductive given `TypeOK` because it speaks of what was handed out *and* of what
is live *and* of what was produced: a new sample is greater than everything
produced, and what is handed out next was live, after everything handed out
before. The work is in the arithmetic of slots: `ModOneLap` and `ModDistance`
give `%` over the one lap that occurs, `SlotIndex` and `SlotShift` say that a
slot is a valid index and that advancing `head` shifts the live samples, and
`StoreSliceAt` that storing a slice leaves the live slots alone and puts sample
`k` of it `k` slots after them.

`RingImplementsFifo` is the refinement `Spec => Fifo!Spec`, with `queue` mapped to
the live slots from `head` on: every method of the ring is the corresponding step
of the bounded queue, or a stutter, given `TypeOK`.

### `ProgramsProofs`: the transmitter is keyed only when it should be

For every lead, tail, limit, hold, drain, device buffer and set of well-formed
command lines (`CommandsAssumption`): `KeyedOnlyWhenHeldCorrect`,
`KeyDownBoundedCorrect` and `WholeTransmissionCorrect`. The inductive invariant
has three parts beside the types: `KeyedOnlyWhenHeld` itself, which ties the lines to
the place of the program; `OnTime`, which says for each place the latest tick at
which its sleep can end (`Deadline`), so that the bound on the whole key-down time
is a sum the steps pass on; and `AudioSound`, which ties what was asked of the
player, what it played and `done` together: done means that every frame was asked
for unless an error callback said so, and a device holds no more than its buffer,
so a drain as long as the buffer puts every sample on the air.

### `KissBridgeProofs`: bursts and broadcasts of the TCP bridge

For any finite number of peers (`ConnsAssumption`), client cap, channel depths and
numbers of frames: `TypeCorrect` (the client list keeps its cap and names admitted
connections only, channels do not overflow), `BurstsAccountedCorrect` and
`NoGapCorrect`. The invariant has four parts. `Types` and `Admission`: a connection
not yet admitted is in no list, and the list keeps its cap. `Accounts`: each counted
burst is written, in the transmit channel or held by the reader that counted it
(`Senders`), exactly so as long as no write to the sink failed. `Order`: the
broadcast channel holds the frames after the one under way, in order, and a client
on the list is one frame behind until it is written to and level after that; one
whose write failed stays behind but leaves the list. `WriteEffects`, `DrainEffects`
and `BurstEffects` state once what the steps with the largest effects change, and
the parts cite them.

### `KissProofs`: KISS re-syncs at every frame

For every deframer capacity, set of ports, set of payloads and set of noise bytes
(`PortsAssumption`, `BytesAssumption`, `BoundsAssumption`) and any amount of noise: `TypeCorrect`,
`IntactDeliveredCorrect`, `NoPhantomCorrect` and `EncodersAgreeCorrect`. The heart of the invariant is
`InStep`: while a frame's own bytes arrive, the deframer holds exactly the encoder's
first `pos` content bytes (as many as fit), its escape flag is set exactly while the
encoder's second escape byte is pending, and it has overflowed exactly when `pos`
passed its capacity. Nothing is assumed of the deframer before the opening FEND:
`FendExact` says that FEND takes any state to the one with nothing received, which is
why damage to earlier bytes costs no later frame. `InStepDelivery` is one byte
(opening, plain, escape, escaped, closing); at the closing FEND `CloseWhole`
reads the command byte back (`CommandByte`: every command but Return keeps its port)
and the payload, or reports the frame as too large.

`EncodersAgreeCorrect`: the lazy encoder ends with the bytes of `encode_into`, as many
as `encoded_len` says. Its invariant `WireFollows` says what is on the wire at each
state of the lazy encoder: the opening FEND and the first `pos` content bytes as
`encode_into` writes them (`Opened`), and FESC behind them while its second byte is
pending. `encode_into` is a recursive function over the content; that there is one
(`LoopsExist`), that it yields bytes (`EscapedType`) and that its length is the number
of content bytes plus that of the special ones (`EncodedLength`, a cardinality) are
shown by least counterexample.

### `HdlcProofs`: a frame that arrives intact, and the single-bit repair

For every buffer, shortest frame, raw window (`SizeAssumption`), set of contents of
whole bytes (`ContentsAssumption`), recovery policy and amount of noise:
`TypeCorrect` and `IntactDeliveredCorrect`. The invariant `HdlcInv` has a part about
each side and one that joins them. `Sending`: a stuffed zero is owed exactly after
five ones, and there is always a bit to send. `Stores`: whatever arrived, the
deframer holds as many bits as fit of those it counted, and none outside a frame.
`InStep`, while no bit was damaged: it holds exactly the data bits sent so far, its
run of ones is the sender's, and within the closing flag the flag's own; before the
opening flag nothing is known of it, which is why earlier damage does not matter.
`Delivery` is one bit of each kind (preamble, data, stuffed zero, closing flag);
nothing about the CRC is needed but that it is a function of the content, sixteen
bits long (`CrcType`).

The second half is about `fcs.rs`, for content of any length. Shifting is linear
(`StepLinear`), so two registers that differ only by a flipped bit go on differing by
what the shifts leave of it (`RegistersDiffer`, by least counterexample). That gives
`SyndromeOfFlip`, the sentence on linearity in the comment of
`locate_single_bit_error` (`fcs.rs:152-155`), whose off-by-one is the mutant of
`FlipRepaired`. From it: a flipped content bit never goes unnoticed (`FlipDetected`:
no shift makes a difference vanish); whatever was received, what `try_repair` accepts
differs from it in one bit and has the received check sequence (`RepairMatches`);
and if one bit was flipped the locator finds it, provided no other bit has its
syndrome and it is not taken for a bit of the check sequence (`FlipLocated`). Both
provisos hold up to the order of the polynomial, 32767 bits, far beyond a frame.

### `DigipeatNetProofs`: a network of digipeaters

For any stations, topology (`StationsAssumption`), tiers, policies, ring sizes,
window, finite set of packets (`PacketsAssumption`) and requested paths
(`RequestsAssumption`: sequences of hops), with receptions lost and rings evicting
as they like, and with buffers of any size: `TypeCorrect`, `RelayedOnceCorrect`,
`EmbeddedServesNamedHopCorrect` and `BudgetConservedCorrect`. The second and third are
not inductive; they follow from two invariants that bind a station's ring to the
history of its decisions to relay (`accepted`), whether the relay was rendered or not:

- `Remembers`: on a ring with a slot for every packet, a packet accepted within the
  window has an entry at least as young as that decision. It rests on `RoomLeft`, a
  pigeonhole argument: no fingerprint occurs twice (`Unique`) and the ring fills
  from the front, so one that does not hold the packet has a free slot at its
  cursor and evicts nothing.
- `RecordsAccepted`: an entry of an embedded digipeater is no younger than its latest
  decision to relay the packet, since `relay_one` reaches the ring only after one.
  The workstation's `consider` breaks exactly this, which is finding 1. That such a
  relay may then fail to be rendered is finding 6; the property promises a relay or
  an earlier decision, not a transmission.

`CheckAndInsert` says once what the ring does to any packet (re-arm, insert, refuse)
and `HeardInv` what a transmission does to the invariant; sending, transmitting and
the clock follow. `TypeCorrect` uses `RelayedPathFits`: every rule of
`relay_decision` yields a path AX.25 can carry, requested path or not.

`BudgetConservedCorrect` strengthens the flood law with the shape of the paths
(`FloodLaw`: a hop still unused is an address with a number). `RelayedBudget` is its
core: by each of the three rules (`RelayRules`) the sum over the hops falls by exactly
one, and `ChangedBudget` and `InsertedBudget` say what changing a hop and inserting a
used one do to that sum, for paths of any length; the sum is a recursive function, so
its existence and its values are shown by least counterexample. It needs
`AliasesAssumption`: an exact alias is served whole, as one relay, so none may spell
WIDEn-N with another N. Both digipeaters build their alias table from their own
callsign and a WIDE limit only; a table that listed `WIDE2-2` as an exact alias would
spend two requested relays on one.

### `CodecProofs`: line code, bit timing and FX.25

`SelfSynchronisesCorrect`, for every register length and pair of taps
(`LineCodeAssumption`; the run has 5, the code 17) and any registers and levels at
the start: with `k` line bits since the latest flip the descrambler's register agrees
with the scrambler's in its first `k` bits, since it shifts in what it hears. When
they agree in all of them both sides add the same taps, and adding them twice changes
nothing (`AddTwice`): the next NRZI level is the one sent, and the data bit after that
one too.

`OneDecisionPerCellCorrect`, for every width of the phase, number of samples to a
cell, jitter and longest run that `TimingAssumption` allows: no cell vanishes, the
drift of the rounded step over a run is less than 1/56 of a cell (with the code's 32
bits it is some millionths), and an edge wanders by less than 3/16 of a cell, half
that drift and two phase units less. The run has jitter of 1/8. The invariant `TimingInv` bounds how far the clock is from the
line: on an edge not yet seen the phase is within `Bound`, an eighth of a period and
the jitter, of where the edge should be (and the drift of the run before it); behind
it the phase at the cell's end is within `Bound` and the drift so far. It is
claimed while the lock counter is above zero, whether that was reached from the search
or not. `NudgeCloses` is why a constant bound is inductive: an eighth of the offset, or
more, taken off a clock that was within `Bound` and the drift brings it within `Bound`
again, as far off as the edge itself may have been; and an edge in the window seen by
an idle slicer (the only way the counter rises from zero) halves an offset of at most
a quarter. `AtEnd` turns the bound into the property: a
phase that far from a half is never at a wrap, so a cell has one decision.

`DeliveredOnceCorrect`, for every set of frames, number of transmissions and spoilt
units: no entry of the duplicate memory is younger than the frame's latest delivery
(`NoneYounger`), so a suppressed frame did come out within the window. `PushExact`
reduces a unit on both paths to two outcomes: nothing was recovered, or one frame
was and the memory decided.

`OncePerWindowCorrect` is the converse and has a hypothesis: the frames about are no
more than the memory has slots. `MemoryOk` says the slots are filled in turn, so the
one to be overwritten is the oldest; were it still within the window, all four would
be, with four different frames, and the new one would be a fifth (`FiveInFour`). The
hypothesis is needed: the same frame after four others within one window does come
out again. The source reckons with less ("a block can hold only a couple of
frames", `fx25.rs:742`).

### `TncReceiverProofs`: the chain bank returns a transmission once

For any number of chains and slots (`ChainsAssumption`: no more chains than slots),
window, skew and gap (`TimingAssumption`: the chains report within the window, and
transmissions end further apart than both), counter width, set of frames and keys,
colliding keys included, with any repairs and votes: `TypeCorrect`,
`SingleReceiverStatsCorrect` and `EmittedOnceCorrect`.

The invariant about the ring of seen keys is `ToneBank`. `Room`: the entries still
live a sample later are the latest `r`, and `r` and the chains that have not reported
together are no more than the chains, hence than the slots; so a key that may still
be needed is never overwritten. `Expiring`: keys are registered within `Skew` samples
of a transmission's end, so none survives until the next. `Remembered`: once a
transmission has been decoded, or a made-up frame with its key completed, that key is
live until no chain can report it. `Unclaimed` is the converse: before that the key is
not live, so nothing an earlier transmission left can withhold this one, which is why
the property need not excuse that case. Within a sample, `Following` says that the key
comes to be known only because a chain completed a frame that has it (`Keyed`), which
is emitted unless another frame was before it on that sample.
`RegisterSound` states once what `register` does under these, `AbsorbOk` takes one
chain's event through the merge and `VoteSound` the vote, for which the failed chain
leaves its share of the ring (`Failing`). `Merge` is a recursive function over the
chains: `ChainedExists` (there is such a function) and `MergeSound` (every partial
merge is sound) are inductions by least counterexample, which needs only that a
non-empty set of numbers has a least member (`LeastOf`).

### `ProgramsProofs`: feeds and the capture

`NothingLostCorrect`, for any feeds, lengths, read size (`FeedsAssumption`: these are
numbers) and channel capacities. `FeedOk` accounts for every byte of a feed: the
worker has done with the first `lo`, holds the next ones, the chunks under way are
consecutive pieces (`Pieces`: there are points `cut` at which the reads split the
feed), and what the task holds follows on them. `Worked` says what the consumer has
had or finds in the channel: the frames of those `lo` bytes, then the odd byte's
error, then the read error. The read error can come last only because the task waits
for its worker first. Each of the nine steps of a feed has a lemma about that feed's
part alone (`ChunkSent`, `ChunkReceived`, `SamplePushed`, ...), and `OneFeed` says that
the others are not disturbed, though all share the channel: `ItemsOf` picks one feed's
items out of it, and `ItemsAppend` and `ItemsTail` are what a send and a receive do to
them. While the stream is open this gives a prefix of the whole (`FeedDelivers`); when
the consumer drops it the channel is cleared, and what it has had stays a prefix.

`LineForLineCorrect`, for any sink buffer and any number of lines and sessions. The
invariant looks at all that was written, `output \o buffer`, which only grows
(`PutLine`: by a text and its end, by the text alone, or not at all). It has no more
packet texts than the client counted, just as many while no write has failed, and then
texts and line ends alternate (`Paired`), so that the decoder, which finds its lines
again by their ends, is always between two lines (`LinePaired`). After a failure the
pieces need not pair up, a text may run into the next line, and only the inequality is
left. The last flush is why the counts agree at the end.

`CourtesyCorrect`, likewise: since the latest session that brought a packet there have
been some `k` waits, `waited` is their sum, `backoff` is the next one (`Patient`), and
no two sessions lie between two waits.

### What stays with TLC

- Liveness (`EventuallyReturns`, `EventuallyReleased`, `FloodsEnd`, `EndsInTime`,
  `NoneLeft`, `EveryoneElseServed`): out of the prover's reach.
- What a finding says of an instance (`RelaysFit` and the other violated properties).
- What the CRC detects beyond one flip (`NeverForges`), and `FlipRepaired` as a whole:
  that no other candidate of the searches over the raw window matches is a matter of
  code words, true for the contents of the run. What the single-bit search does is
  proved (`RepairMatches`, `FlipLocated`).
- The codecs whose definitions recurse over data or work on bits of bytes, for which
  the provers have no induction and no operators: Reed-Solomon, IL2P, M17, FT8 and
  WSPR, the APRS parsers and builders (`MendedAndResynced`, `PacketsIntact`,
  `ShownIsSent`, `ReadsBack`, `Canonical`, `NoDrift`, `NeverFiner`). Where an
  induction over a sequence was needed in a proof (CRC, KISS escapes, hop counts, the
  chain merge), it is by least counterexample on a recursive function; these have too
  many such functions, one inside the other.

## 6. Not modelled

- The analogue front end (modulator, discriminator, demodulator, baseband
  filters), M17's filters and symbol timing, FT8's LDPC code and both weak-signal
  demodulators: numerical, their correctness is a matter of sample values and
  error rates. M17's `Confirm` state only moves the sampling instant.
- WAV and other file formats, JSON printing, command-line handling: pure I/O or
  layout. Of `yodel decode` only `rebuild_verdict` and the third-party depth of
  the output are modelled.
- `tnc/config.rs` and, but for the order of NRZI and scrambler (`LineCode`),
  `tnc/tx.rs`: validated constants, and a lazy chain of `FrameBits` (`Hdlc`) and the
  modulator with no state of its own.
- The embassy tier: one cooperative task whose steps are `pop_slice` (`SampleRing`)
  and the push loop (`TncReceiver`).
- `decode_wav`, `decode_stream`, `pump_bytes`: one feed of `Feeds` without the
  channel. `DefaultTncReceiver::new` failing, which `pump_feed` cannot meet, and
  interrupted reads, which it retries.
- The alignment of bit histories inside `try_vote`: `TncReceiver` takes any
  outcome of a vote, `Hdlc` checks the window it produces.
- `run_stream`, the single-client bridge: no concurrency beyond that of `run_tcp`.
- FX.25's bit padding and the choice of a tag by payload size; M17's Golay code,
  which packet mode does not use; distance, bearing and floating-point
  conversions in `geo.rs`.
- Fingerprint collisions, poisoned mutexes, panicking threads, scheduler overshoot
  of a sleep in `Keying`. A client dropped by a failed broadcast still has a reader
  thread, so that `MAX_CLIENTS` does not keep "the thread count bounded"
  (`serve.rs:105-107`): `KissBridge` shows it, but it has the cause of finding 2 and no
  property of its own.
