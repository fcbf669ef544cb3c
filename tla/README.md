# GPSUDP in TLA+

GPSUDP streams audio over UDP: transmitters record with PortAudio, encode with
Opus, put packets into Ogg pages and send each page as a datagram; a receiver
takes pages of many transmitters apart, decodes, resamples and mixes them. Its
hard parts are the ones this directory models: three threads of the receiver
around sixteen stream slots, a lock-free ring buffer, a linked list that a
control thread changes while an audio callback walks it, and a clock by which
independent transmitters have to agree.

## The system

| Part | State | Operations |
|---|---|---|
| Ring buffer (`pa_ringbuffer.c`) | `writeIndex`, `readIndex`, the memory | initialize, flush, write, read, available |
| Stream slots, network thread (`gsp-opus-rx-ogg.c`) | `streams[16]`: `id`, `os`, `lastSeen`, `tp`, `ma`, `ratio` | `find_stream`, assignment, pagein, `movingAveragePageTime`, `checkStreams`, `resetStream` |
| Stream thread (same file) | `ossi`, `op`, decoder, resampler, `streamPCM`, `resamplerPCM` | `punchPacket` of each slot in turn |
| Audio callback (same file) | `active`, `mixbuf` | `mixAudio`: read each ring, then mix |
| Page timing (`ma.c`, `timef.c`) | `elementArray`, `elementPtr`, `elementTotal`, `established` | push, average, constrain, reset |
| Transmitter, control thread (`control.c`) | `txDestList`, the elements, the receive buffer, `Args` | receive, parse, dispatch; ANNOUNCE, SEND, STOP |
| Transmitter callback (`gsp-opus-tx-net.c`, `gsp-opus-tx-ogg.c`) | `ssm`, `ssmSamples`, `paCallbackRunning`, `pagesize` | wait for a second boundary, encode, page, send |
| Transmitter main thread (`gsp-opus-tx-ogg.c`, `gsp-opus-tx-net.c`, `gsp-opus-tx.rawudp.c`) | `stream`, `oe`, `arg_bitrate`, the terminal | set-up, keys, `cleanup`, `sig_handler` |
| Control program (`gsp-ctl.c`) | its receive buffer and `Args` | broadcast typed lines; receive TIMESYNC |
| Logger, clock test, build, start-up | | |

How they interact. `gsp-ctl` broadcasts command lines; the control thread of
each `gsp-opus-tx-net` parses them and changes the list of destinations, which
the PortAudio callback of the same process reads without a lock. The callbacks
send pages to receivers. In a receiver the network thread fills the
`ogg_stream_state` of a slot (under `page_mutex`), the stream thread empties it
(under `page_mutex`) and writes the ring (under `packet_mutex`), the audio
callback reads the ring (under `packet_mutex`). `id`, `active`, the assignment
of a slot and everything `resetStream` touches are guarded by nothing. The
encoder of `gsp-opus-tx-ogg` and `gsp-opus-tx.rawudp` is main's to create and
destroy and the callback's to use.

What makes each part correct:
- the ring: a FIFO, no slot written while it is read, full told apart from empty;
- the slots: one per serial, demultiplexing that serial, with nothing left of
  the stream before, given up when the senders are gone;
- the receiver's threads: blocks mixed in the order their pages arrived, in the
  name of the stream they belong to, and everything accepted is played;
- the page timing: a total that stays the sum, a ratio that follows the sender;
- the list: sound links after any commands, every destination served, no
  callback caught on a removed element or in a circle;
- the transmitters: the same position for the same moment as far as their sound
  cards agree, contiguous pages, an encoder that is there while it is used, and an
  end that puts the terminal back;
- the parser: the arguments are the fields of the message, and of this message.

Hard to test are the interleavings of threads that share without locks, the
reuse of a slot or of a freed address, what happens at limits (the seventeenth
stream, a full ring, the third destination), at the wrap of an index and at
midnight, lost pages and missed callbacks, the timeout that only comes when all
senders are silent, a flush between two index loads, and a signal in the middle
of a clean-up. `PROJECT.json` lists each at its line.

## Modules

Base modules hold one component each, `MC...` modules and `.cfg` files make TLC
instances of them, `...Proofs` modules hold the theorems.

**RingBuffer** (implements **BoundedFifo**). One writer, one reader: the
contract of `pa_ringbuffer.h`. `Write` is `PaUtil_WriteRingBuffer` in its four
observable steps: `GetWriteRegions` (loads the reader's index), `WriteCopy1` and
`WriteCopy2` (the memcpys), `AdvanceWriteIndex` (the store); `Read` likewise;
`Flush` only between calls, as the header demands. `w` and `r` are the locals of
the two calls. An element is its number, so loss, repetition and reordering
show. The barriers of `pa_memorybarrier.h` are why the steps happen in program
order. BoundedFifo is the promise of the header: a call accepts or returns what
there was room for when it was called, and takes effect when its index is
stored. The refinement reads the abstract queue out of the concrete buffer.

**SlotRing**. The ring of one receiver slot as the receiver really uses it:
writes and reads under `packet_mutex`, but flushed by `resetStream`, and by the
callback before a slot's first read, without. One step is one load or store of
an index; the loads of a call and the stores of a flush may be seen in either
order. The memory is left out; `overlap` notes that a flush met a call.

**StreamTable**. One step is one iteration of `network_thread_function`, seen by
that thread alone: a page of a serial that has a slot, of a new one, of one too
many, or the timeout with `checkStreams`. Time is in ticks; `idle` is how long
select has waited. `movingAveragePageTime` keeps the element pointer and
`established`; whether a page time lies within 10 percent of an established
average is left open, and so is a timing of exactly 0, which needs fifty pages
at the same nanosecond. The `uint16_t` that a serial is put into is
`% SerialMod`. `checkStreams` runs when the select timed out; the code runs it
whenever `recvfrom` returns -1 on its non-blocking socket, so also after a select
that a signal or a datagram with a wrong checksum ended early. Those are left out,
and `KilledTogether` rests on that.

**PageTiming**. `ma.c`, `timespec_diff` and `movingAveragePageTime` for one
stream, with their arithmetic: the 10 percent rule as the code computes it, 64
bits as `% TimeMod`, the 0 that a stream's first page enters. Pages are lost, a
gap is seen longer or shorter than it was (`Offsets`: the delay varies, the
sender's card drifts, the receiver's clock is set on or back), the sender changes
its page size. An instance of StreamTable with one slot is what the steps are
checked against (`AsInStreamTable`).

**Receiver**. The three threads with every step one of them can observe of
another: naming a slot and initializing its `ogg_stream_state` are apart, and
so are, in `resetStream`, the id, the buffers and the flush, and in
`punchPacket`, packetout, decoding and the ring write. Whether a packet still
points into memory that libogg moves is `opBody`. Which streams are lost when
is left to StreamTable, so the timeout may come whenever the network thread
waits. UDP may lose, reorder and repeat pages, and nothing in the program puts
them back in order: `ogg_stream_pagein` takes a late or repeated page as one after
a hole, and it is played when it came. So a block is "the n-th of stream q to
arrive", and whether a page leaves a hole before it is left open in `PageIn`.
Mixing looks at each id once per block, where the code does for each frame.

**TxDestList**. `control_addTxDestToEnd` and `control_removeTxDest` step by step
against the walk of the callback. `next`, `prior` and `dest` are the fields per
address; `life` says what the memory of an address holds, and `calloc` may
return a freed address. The search of `control_getLastTxDest` is what its
`first++` does: right for a list of one, otherwise it reads on behind the first
element and ends in a crash or at some word that is 0, a wild pointer. `Link` then
stores the new element through it. Two things are assumed: that this store hits a
word nothing else reads (it was 0), if it does not crash; and that a freed element
keeps its `next` until its memory is used again, so that a callback standing on
it walks on (or crashes, `CallbackCrashes`). The wild pointer stays in the third
element's `prior`; head, `next` and the callback's iterator never hold it
(`TypeOK`). That element is `lost`, and `ListSound` is about the listed ones.

**TxClock**. The gate of `paCallback` (first callback, wait, start), the
position it counts, and `pagesize` per destination, for several transmitters.
`gsp-opus-tx-ogg` is the case of one destination. The code reads the clock only
until it starts and then counts the buffers of its sound card, so a tick of the
clock is one audio buffer, and a callback may be missed, or a tick left out by a
slow card (`MissCallback`), or a further one come of a fast card or a late
callback (`FurtherCallback`); `behind` is the difference. Local time may shift
(`Offsets`). `ogg_stream_flush` is libogg's: the first page of a stream holds its
first packet only, with position 0, and the packets left over come with the
second; a page is split after what fits on it (`PageLimit`: 4096 bytes, but no
fewer than four packets, or 255 segments), and then the rest comes later.
Assumed: the machines agree on the clock and on local time; daylight saving
changes at a second's boundary; what part of a buffer a callback comes after the
boundary is left out, so "the same moment" is to be read to a buffer; `-g` asks
for no more packets than fit on a page, as else they would pile up for ever.

**TxMain**. The main threads of the three transmitters as sequences of calls
(`Startup`, `Loop`, `cleanup`, `sig_handler`), one call a step, with the
callback that may be inside `opus_encode_float`. Linux gives SIGINT to the main
thread unless that blocks it. So the first is handled there; the handler does not
return, and replaces what main had still to do; if it interrupted a library it
may wait for a lock for ever (`unsafe`, `Hang`). `sigaction` blocks SIGINT in that
thread only, so a second one is handled by another thread beside it: the control
thread of `gsp-opus-tx-net` or one of PortAudio's (`SigintElsewhere`), which may
wait for itself in `Pa_CloseStream`. More than these two are not modelled.
Undefined behaviour goes on or kills the process (`MayDie`): freeing the encoder
twice or while the callback uses it, `ogg_stream_destroy` of a static object,
`Pa_CloseStream` of a stream that is being closed or was, for the pointer is not
cleared. `SetBitrate` is Opus's: a value that is neither positive nor one of its
two negative constants is refused, any other taken to what it supports
(`Clamped`: 500 to 300000 per channel).

**ControlMessage**. The control thread from `memset` and `recvfrom` over the
rounds of `control_parseMessage` to the command that reads its arguments.
`Args` outlives the message, as in the code. Any text may be a command's name;
what SEND and STOP do is TxDestList. The buffer never fills: a datagram is
shorter than its 65536 bytes. `gsp-ctl` has a copy of it with TIMESYNC.

## Runs

| Run | Shows | Bounds |
|---|---|---|
| `ring_buffer` | `NoDataRace`, `UnreadIntact`, `ReadsInOrder`, `Available`, and that the ring implements `BoundedFifo` | 4 slots, calls of up to 3, 10 elements: both indices pass the doubled range once, calls wrap, fill, drain and flush the ring |
| `slot_ring` | `SaneUnlessOverlap`, `Recovers` | 4 slots, writes of up to 2, reads of 2: nothing counts up, so every interleaving of calls and flushes is covered, also the ones that make the free count negative |
| `stream_table` | `UniqueIds`, `OsMatches`, `TunedByOwnPages`, `FreeSlotsFresh`, `KilledTogether`, `PagesTaken`, `AllFreed` | 2 slots, serials 1, 2, 3 and 5 in two bits (5 collides with 1), averages of 2, one second of 2 ticks: slots are reused, exceeded and collide |
| `page_timing` | `TotalIsSum`, `NeverStuck`, `Settles`, `AsInStreamTable` | averages of 12 (the least for which a jitter is left), packets of 241 units with a jitter of 1, 15-bit times, pages of 1 or 2 packets, 2 lost pages, one gap off its time per stay in the slot, by the jitter, by a fifth or a half, or by a step back of more than two packets: totals wrap, averages get stuck and recover by a reset |
| `receiver` | `ForeignNeedsOverlap`, `MixedInOrder`, `Drained` | 2 slots, 2 senders, rings of one block, 2 pages received in all: holes, overflow, underrun, reset and takeover during a punch all happen; that a stream comes back to another slot takes more pages, and is left to the theorem |
| `tx_dest_list` | `ListSound`, `DanglingNeedsOverlap`, `ServesAll`, `CallbackEnds` | 3 addresses, 2 destinations, 4 SENDs: duplicates, reuse of addresses, a lost third element |
| `tx_clock` | `OnTheClock`, `InStep`, `PagesContiguous` | 2 transmitters with 2 destinations, 2 callbacks a second, days of 4 seconds, local time 0 or 1 second ahead, pages of 2 packets (the default of `-g`) that just fit, 8 ticks, 1 callback behind or ahead: starts, restarts, midnight and the change of local time under running transmitters, half-full, first and split pages |
| `tx_main` | `SafeUntilShutdown`, `BitrateInForce`, `Ends` | the three programs, two SIGINTs, bitrates from -9 to 9 and keys of 3, of which Opus takes 2 to 6, and -3 and -1 as its constants: `-` passes 0, which it refuses, and -3, which is `OPUS_AUTO` (-1000); `+` and `-r` pass both ends of what it clamps to |
| `control_message` | `ArgsAreFields`, `NoStaleText` | datagrams of up to 5 bytes over `:`, 0 and one other, 4 arguments (one more than SEND needs): every message has its fields cut off at every place, after every set of older arguments |

The type invariant of each run says which ranges the code relies on (indices in
the doubled range, 16-bit ids, rings never over-full, no wild pointer where the
callback walks, no byte read behind the message).

What a property excuses is what the code does get wrong: `ForeignNeedsOverlap`
and `SaneUnlessOverlap` a reset that meets a punch or a call,
`DanglingNeedsOverlap` and `ServesAll` a STOP during the callback, `PagesTaken`
and its neighbours serials of more than 16 bits or 0 in the low 16, `NoStaleText`
a command that acts without its arguments, `SafeUntilShutdown` what `cleanup` does
after 'q' or SIGINT. They show that it goes wrong nowhere else.

Three runs show where the program does not do what a comment says:

- `stream_table_full`: streams "no longer transmitting" are to be killed off
  (`gsp-opus-rx-ogg.c:443`), but while one sender is heard none is checked; with
  the slots of silent streams still taken the lookup for the next one gives
  NULL, where "we now have a stream ... existing ... or a new one" (488-489).
- `tx_dest_list_lost`: "creating Dest element ... for linked list"
  (`control.c:131`), but the third SEND is linked to the wrong memory.
- `tx_clock_boundary`: "have we passed a boundary?"
  (`gsp-opus-tx-net.c:197-198`), but midnight is not seen as one.

Met while modelling, without a run of their own:

- Receiver: "beyond 2 seconds" in the comment of `checkStreams` is one second in
  the code. `active` is never cleared, so only a slot's first stream has its
  initial ring content discarded. Id 0 "stops mixing it" (line 262), but a punch
  under way puts a block of the old stream into the ring of the new one: the
  overlap in `ForeignNeedsOverlap`. A serial wider than 16 bits gets a slot that
  refuses its pages, and a multiple of 65536 is given a free slot without
  taking it.
- A slot's ring: "should only be called when buffer is NOT being read or
  written" (`pa_ringbuffer.c`), but a flush between a reader's load of an index
  and its store leaves more to read than fits, and the next write gets a negative
  size: the overlap in `SaneUnlessOverlap`, without which TLC shows it in some
  two dozen steps.
- Page timing: an average filled while more than a ninth of its pages were lost
  (5 of 50), or while its gaps were off by more than a jitter of some 3.7 percent of
  a packet (a varying delay, a step of the clock), or before the sender got another
  `-g`, may take no page time any more, and then only a reset of the slot helps.
- Transmitters: a list never holds more than two destinations; a destination
  sent twice needs two STOPs; the socket of a SEND is never closed; `-g` above
  256 or 0 does not work with a `uint8_t pagesize`; in `gsp-opus-tx-ogg`
  `opus_encoder_init` undoes the `-r` and `-s` set just before; `-` goes on below
  a bitrate of 0, where the encoder keeps what it had; `cleanup` frees the
  encoder before it closes the stream, and a static `ogg_stream_state`; a SIGINT
  after 'q', or a second one, closes a stream that was closed. The help has `-r`
  set the bitrate (`gsp-opus-tx-ogg.c:257`); it does so in
  `gsp-opus-tx.rawudp` only. The first page of every stream has one packet and
  position 0, so the second has `2 * arg_pagesize - 1`.
- `gsp-ctl` cuts a typed line at 63 characters, so a longer one becomes two
  datagrams.

## Fairness

- StreamTable: time passes and the network thread runs when its select is over
  (`Tick`, `checkStreams`). No sender has to send.
- Receiver: each thread takes steps as long as it has some. The stream thread
  never blocks and goes round the slots; PortAudio calls back all the time; the
  network thread finishes what it received. Pages and timeouts need not come.
- SlotRing: a thread inside a call or a flush goes on; who gets the mutex is
  left open. No reset has to come.
- PageTiming: the sender goes on sending and not every page is lost
  (`Arrival(0)`). Losses, deviations of a gap and resets need not come, and the
  property is about gaps within the jitter in the end.
- TxDestList: a callback that PortAudio began runs on. Commands need not come.
- TxMain: main goes on except in `getchar`, and an encoder called returns. Keys
  and signals need not come, and a second handler need not go on.

TxClock, RingBuffer and ControlMessage claim no liveness and assume no fairness.
Deadlock is checked where the program cannot stop: RingBuffer, Receiver,
PageTiming. It is off where the modelled process may crash or exit
(StreamTable, TxDestList, ControlMessage, SlotRing, TxMain) or time is bounded
(TxClock).

## Proofs

Checked by TLAPS for all values of the constants, from the assumptions the
modules name (sizes are positive, the ring's is a power of two, serials are
naturals, NULL is no address, select waits no shorter than the age limit, a page
of `-g` packets fits on a page of libogg, the jitter is small enough for the
array) and from what Modules above says that a model assumes.

**RingBufferProofs**: `TypeOK`, `Available`, `UnreadIntact`, `ReadsInOrder`,
`NoDataRace` for every size, all call sizes and every interleaving. None of
them is inductive alone: what a copy does to unread elements depends on what its
regions were computed from, while the other index moved on. The invariant
`IInv` adds `WriterLocals` and `ReaderLocals`: a call's blocks start at its
own index, fit the free (or unread) slots of the current state, and what was
copied is in place. The other thread's advance only enlarges the room a call was
promised, which is the argument of each step; `SlotOf` and `FreeBlocks` turn the
masks into plain arithmetic.

The same module proves `ImplementsFifo`: by `IInv` the unread elements are
consecutive numbers, so the abstract queue is `Run(taken, written - taken)`:
loads and copies leave it alone, the store of an index appends or removes a run,
and a flush empties it (`RunConcat` and its companions).

**SlotRingProofs**: `TypeOK`, `SaneUnlessOverlap` for all sizes. `Apart` is the
strengthening: without an overlap, whoever is inside a call has loaded what is
still there (`Current`), and while a flush has stored one index nobody is inside
a call; `CallsOpen` says where a thread can have loaded anything.

**StreamTableProofs**: `TypeOK`, `UniqueIds`, `OsMatches`, `KilledTogether`,
`PagesTaken` for every table. `AgeCoversIdle` is the strengthening: a slot in
use was heard of no later than select began to wait, so when select is over all
ages have reached the limit. `FreeSlotsFresh` and `TunedByOwnPages` hold if no
serial is 0 in its low 16 bits (`NonZeroSerials`): such a serial's pages are
delivered to a free slot, which then is not fresh. `OwnAverage` relates the
element pointer to the pages heard.

**ReceiverProofs**: `TypeOK`, `ForeignNeedsOverlap` for any number of slots and
streams. The invariant follows a packet through the pipeline of its slot, from
the network thread's page (`NamedAsPage`) over the queue (`QueuesOwn`), the
packet in hand (`PacketOwn`) and decoder, ring and mix buffer (`BuffersOwn`): at
each place it is of the stream the slot is named after. What hands over between
the unlocked threads is that a punch goes on only in a slot in use or one noted
as reset under it (`PunchesUsed`, `OverlapNoted`).

There too, on top of that invariant: `MixedInOrder`. What a slot
holds of its stream is a line: mix buffer, ring, the block decoded last, the
packet in hand, the queue (`LineOf`). Every step moves blocks along a line or
drops some, so one lemma for steps at a single slot (`MovedStep`) carries most of
them; a concealed gap repeats the block decoded last, which is why `dec` is a
place in the line (`PcmDecoded`). The two steps that compare places of different
slots rest on more: a page paged in is the last of its stream to arrive
(`PageIsLast`, `AllArrived`), so it may follow whatever other slots still hold of
it, and what is mixed raises `played` only to a block that everything ahead in
the slot of the stream follows. Hence `Past`: what was played or is left in other
slots comes before all a slot has ahead. It takes `NamedOnce`, that no two
slots serve one stream.

**TxDestListProofs**: `TypeOK`, `ListSound`, `DanglingNeedsOverlap`,
`ServesAll` for any number of elements, destinations and commands. The
invariant rests on the list's `Shape`: none, one or two elements, because of
the search for the last one; `Walking` says that a callback with no removal
during it has served all but the elements still ahead, and `Serving` that it has
served none of those: so it transmits to no destination twice (`ServesOnce`).

**TransmitterProofs**, positions: `TypeOK`, `OnTheClock`, `InStep`, `PagesContiguous` for any
number of transmitters and destinations, all rates, lengths of a day, shifts of
local time, differences between cards and clock, and page sizes that fit on a
page. `StartPending` says that a transmitter about to start has made no callback
in the second it starts in; `PagesCounted` ties the packets waiting in an ogg
stream to its position and that of its last page, and bounds what a first or a
split page leaves behind to less than a page. The rest is division with remainder
(days, seconds and ticks), in lemmas of its own.

**TransmitterProofs**, main thread (TxMain): `SafeUntilShutdown`
and `BitrateInForce` for every range of bitrates and every clamp, and
`LeavesTerminal`, the safety half of `Ends`: who exits leaves the terminal cooked.
`MainInv` says which call of which plan comes next and what that means: no stream
runs before the end of start-up, by when the encoder is made (`StartingUp`);
between the loop's first call and a key, `+` and `-` have been carried out
(`Looping`); from the sixth call of a shutdown on the terminal is back, and the
stream of `gsp-opus-tx-net` is stopped and closed by the first two, once, unless
the shutdown began twice (`ShuttingDown`). SIGINT replaces the plan at any place,
so nothing else may be said of a shutdown; the second handler runs the same plan
beside main (`HandlingElsewhere`).

**PageTimingProofs**: `TotalIsSum`, `NeverStuck` and the refinement
`AsInStreamTable`, for every array of more than ten elements, all page lengths,
losses, deviations of the gaps and resets. With ten or fewer `NeverStuck` may
fail, as the first page time, 0, takes more than a tenth off the average, and with
eleven it leaves no room for a jitter: TimingAssumption bounds the jitter by what
the array stands (MA_ELEMENTS is 50: 3.7 percent of a packet, which is less of a
longer page). Beyond it an average may be dragged along or stuck, and nothing is
claimed. The module's sum is a fold over the array; `FoldIsSum` unfolds it to a
function on sets of indices, `SumDefined` shows that there is one, and `Subsets`,
by the well-founded order of strict subsets, is the induction over such sets that
shows what replacing an element does to a sum. The total is that sum modulo the
width of the integers, for it may have wrapped before. To `NeverStuck` the
invariant adds what is in the array: while it fills, zeros from the element
pointer on and at 0 (`Unfilled`); no element that a page left is below a page less
the jitter, the first 0 excepted (`Low`); and the sum of the array, each element
raised to a page and the jitter, exceeds as many pages by at most the lost ones
(`High`, a bound that pushing keeps because a raised element is never below what
replaces it). So nothing wraps in such an average and a gap within the jitter is
within its 10 percent. `StaysNear` states the bounds.

**ControlMessageProofs**: `TypeOK`, `ArgsAreFields`, `NoStaleText` for datagrams
of every length. `CutSoFar`: the buffer is the message with a 0 over each colon
passed, and zeros behind it, because it was zeroed before (`ReceivesIntoZeros`).
`FieldsNoted`: every field passed has its argument. So the 0 that ends a string
anywhere in the buffer is at the latest the one behind this message.

Only model-checked: liveness (`AllFreed`, `Drained`, `Recovers`, `Settles`,
`CallbackEnds`, `Ends`), which is beyond the prover, and the three properties
that runs show violated. Every other property of every run is a theorem.

## Plan

Done, in this order: BoundedFifo and RingBuffer; StreamTable; Receiver;
TxDestList; TxClock; ControlMessage; SlotRing; PageTiming; TxMain; the theorems
above. What could follow: a slot's ring without an overlap as a BoundedFifo, in
the way RingBuffer is one; the slots of Receiver as those of StreamTable; larger
instances of Receiver (three pages received take far longer than two); and a
module that composes transmitters, network and StreamTable, for which the
interfaces exist (`PageOfKnownSerial`, `Callback`) but whose states TLC could
only sample.

## Not modelled

Codec, resampler and mixing arithmetic, libogg's framing and PortAudio are
libraries and appear by what the code relies on. The barriers are macros
without state. The logger is third-party code used with its defaults, the clock
test opens a socket and exits. Device listing, options and sockets run before
the threads and leave the initial states. The main thread of `gsp-ctl` keeps
nothing: a typed line is a datagram. Signals other than SIGINT are not handled
by the program. Outside PageTiming steps of CLOCK_REALTIME are not modelled:
ages and the second boundary assume a clock that is not set while the programs
run. What this leaves to assumptions is said at each module above: that `recvfrom`
fails after a timeout only (StreamTable), that the store through the third SEND's
wild pointer hits nothing that matters (TxDestList), that machines agree on the
clock (TxClock), that at most two SIGINTs come (TxMain).
