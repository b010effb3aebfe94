# TLA+ models of the RAK2287 LoRaWAN gateway (android-lgw)

The app turns a phone into a LoRaWAN gateway: Java code owns the USB serial port,
native C++ (`LoraGatewayListener`) drives the concentrator through Semtech's HAL
(`libloragw`) with a handful of threads, and a just-in-time (JiT) queue holds the
downlinks and beacons until shortly before their departure. These modules model
the parts of it that are hard to test: what the threads may do to each other, and
what a roll-over of the 32-bit microsecond counter may do to arithmetic on time
stamps, what a failed or shortened transfer does to the calls that come after it,
and what a reference that grows old does to those who use it.

Paths below are relative to `src/app/src/main/`; `listener.cpp` stands for
`cpp/ulgw/lora-gateway-listener.cpp` and `jitqueue.c` for
`cpp/jitqueue/jitqueue.c`.

## 1. Inventory

| Component | State | Operations | Talks to | What is hard | What makes it correct |
|---|---|---|---|---|---|
| JiT queue (`jitqueue.c`, `packet_forwarder/jitqueue.h`) | `nodes[32]`, `num_pkt`, `num_beacon` per RF chain, one mutex | `jit_enqueue`, `jit_peek`, `jit_dequeue`, the sort | enqueue and beacon code, `jitRunner` | unsigned time across roll-over; Class C search against criteria; purge that re-sorts while iterating | reservations never overlap, are ordered, in time, counted, and never stuck |
| Transmit path (`enqueueTxPacket`, `jitRunner`) | a time read under `mLGW`, an index from a peek, a dequeued packet, the radio | read time, check, insert; peek, dequeue, status, send | JiT queue, HAL | each lock is released between steps, so times, answers and indices go stale | what is queued is sent, in time, and one at a time |
| Beacon thread (`downstreamBeaconRunner`) | last beacon's GPS time, retry count | keep three beacons queued | JiT queue, GPS reference | retries without pause; refused beacons; returns early without GPS | beacons leave at the times they tell, each slot once; the thread can be stopped |
| Upstream thread (`upstreamRunner`) | one metadata record and one payload per batch, counters | fetch, filter, forward the batch | HAL, `onUpstream`, the packet handler, Java | the batch shares one record; a fetch error stops the gateway from its own thread | every accepted packet is forwarded with its own metadata and counted once |
| Life cycle (`start`, `stop`, `listen`, JNI `start`/`stop`) | `stopRequest`, one running flag per thread, the global handler | start and detach threads, wait for them, clear by force, delete | all threads, Java service | start against stop; the 60 s timeout; two runs sharing one global | no thread outlives the listener; a stop is not lost |
| GPS time and crystal correction (`gpsRunner`, `gpsCheckTimeRunner`) | time reference, its validity, averaging state | sync, age check, average, low-pass | beacon thread, Class B | a reference that grows old while it is used | times are converted with a valid reference only |
| Spectral scan (`spectralScanRunner`) | scan status | start, poll with timeout, report | HAL, aborted by `jitRunner` | an abort in the middle of a poll | a scan never delays a downlink |
| Measurements | some thirty counters, one mutex | inc, get, reset | everything | double counting | counters mean what they are named |
| USB serial (`SerialSocket`, `SerialPort`) | read buffer with position and count, port, listener | read, write, connect, disconnect | HAL through JNI | short reads, errors, disconnection in use | bytes are delivered once and in order; a disconnection is reported |
| Link to the MCU (`loragw_com.c`, `loragw_usb.c`, `loragw_mcu.c`) | target, write mode, bulk buffer and its counters, the header of the last acknowledgement | open, close, register reads and writes, a transmission collected in bulk mode and flushed | serial port, the MCU | statics that outlive a call; one read that is short; a write that fails within a transmission | each call gets its own answer; nothing pending is left between calls; calls return |
| Android service and activity | `running`, `isUsbConnected`, a log of 256 events | start, stop, attach, callbacks | JNI, views | flags set by callbacks on other threads | the flags agree with the native state |
| HAL (`libloragw`, vendored) | counters, RX buffer | receive, send, status, time stamps | serial | 27-bit counter extended to 32; duplicates removed | time stamps never go back; one copy of each packet |
| Device addresses (`dev-addr.cpp`, `net-id.cpp`) | 32 bits: type, network, address | set, get, increment, decrement | none in the app | masks and shifts per type, of two versions of the standard | what was set is what is found; stepping stays in the network |
| Identity, payload and address providers, gateway list, settings, codecs, MAC commands, logging, third-party code | tables, databases | look-ups, parsing, formatting | | little state | |

In the shipped app `run()` (`cpp/android-helper.cpp:779`) starts the listener with
`FLAG_GATEWAY_LISTENER_NO_SEND | FLAG_GATEWAY_LISTENER_NO_BEACON`: the transmit
path is compiled in and its API is public, but `jitRunner` and the beacon thread
run only for an embedder that leaves the flags out. The same holds for the GPS
threads, since nothing sets the listener's `gpsEnabled`.

## 2. Modules

| Module | What it is |
|---|---|
| `JitOps` | The pure part of `jitqueue.c` over a counter of `W` values: `IsFull`, `CollisionTest`, the criteria `TooLate`, `TooEarly`, `Collides`, the Class C search `AsapCounts`, the sort `Arrange`, and what a peek keeps (`Kept`) and selects (`Due`). `Clear` and `Compatible` say, independently of the collision test's bookkeeping, when two reservations share no air time. |
| `JitSchedule` | The abstract specification: a set of reservations of air time, granted in time and exclusive, taken when due, given up when out of the plausible window. |
| `JitQueue` | One queue with its calls as atomic steps: `EnqueueTimestamped` (Class A and B), `EnqueueImmediate` (Class C), `EnqueueBeacon`, `Poll` (`jit_peek` and the dequeue of what it selects), `Tick`. A refused packet changes nothing and is a stuttering step. |
| `TxPath` | The same calls at the grain of their critical sections, by several threads: `ReadTime`, `CheckFull`, `Insert`/`Refuse` for each producer, `StartPoll`, `Peek`, `Dequeue`, `GiveUp`, `ClearToSend`, `Send` for `jitRunner`, with the radio as `lgw_status` and `lgw_send` show it. |
| `GatewayLifecycle` | Starting and stopping: the `run()` threads with the global `listenerHandler`, `LoraGatewayListener::start` and `stop` step by step, the upstream thread's loop with its fetch error, the user interface and the service's `running`. |
| `Exchange` | The abstract specification of the link to the MCU: one request outstanding, and its call returns only after the MCU has carried it out. |
| `McuLink` | That link from the calls of `loragw_com.c` down to the buffer of `SerialSocket`: `BeginRead`, `BeginWrite`, `StoreOnly`, `BeginSend` with `Store` and `Flush`, `BeginOpen`, `BeginReopen`, `BeginClose`, `DrainTty`, the exchange itself (`Ask`, `ReadHeader`, `ReadPayload`, `Conclude`), the MCU, and a device that is unplugged and plugged in. |
| `SxTimestamp` | The concentrator's counter, its reading in two parts (the most significant byte, and the three below it), and its extension by the host (`loragw_sx1302_timestamp.c`), as operators. |
| `Forwarding` | The abstract specification of the upstream path: packets are forwarded at most once and in the order of reception. |
| `Upstream` | `upstreamRunner` and what `lgw_receive` does under it: `Fetch`, `Update`, `Parse` and its warning and error, `Filter` and `Take` for a packet of the batch, `Forward`, a stop and a restart. Extends `SxTimestamp`. |
| `GpsReference` | `lgw_gps_sync`, `lgw_gps2cnt` and the age of the reference, as operators. |
| `SpectralScan` | `spectralScanRunner` and the radio that scans: `ScanStart`, `ScanPoll`, `ScanReport`, `Aborted`. |
| `BeaconPath` | The composition: the threads of the GPS reference (`Sync`, `CheckReference`, `Correct`), the beacon thread (`Wake`, `Compute`, `Enqueue`), other producers, `jitRunner` (`Poll`, `Transmit`) over the queue of `JitOps`, and the scan. |
| `MCJitQueue`, `MCTxPath`, `MCMcuLink`, `MCUpstream`, `MCBeaconPath` | Values of the constants for TLC. |
| `JitOpsProofs`, `JitQueueProofs` | Lemmas about `JitOps`, and the theorems about `JitQueue`. |
| `TxPathProofs` | The theorems about `TxPath`. |
| `LifecycleProofs` | The theorems about `GatewayLifecycle`. |
| `McuLinkProofs` | The theorems about `McuLink`: the bulk buffer, the stream, the exchange. |
| `UpstreamProofs` | The theorems about `Upstream`: time stamps, order, what becomes of each packet, metadata and measurements. |
| `BeaconProofs` | The theorems about `BeaconPath` and `SpectralScan`. |
| `DevAddr` | The setters and getters of a device address, as arithmetic on a number of 32 bits, with their theorems. |

State and code. `nodes` is the used part of `nodes[]` (element i+1 of the sequence
is slot i), so `Len(nodes)` is `num_pkt`. A node keeps the type, the time stamp
`count`, and the reserved `pre` and `post` delays; payload, power and frequency
are left out, the time on air of a downlink is any member of `TOA`. `now` is the
concentrator's counter, `idle` the time since the last poll. All time arithmetic
is modulo `W`, as `uint32_t` arithmetic is modulo 2^32.

The sort. `compare` returns the difference of the stamps as an `int`; `Arrange`
yields the arrangement that this orders, and any one when the stamps span so much
of the counter that the comparison is no order (`Sorted` shows that this does not
happen).

The purge. After it has dropped the head, `jit_peek` sets `i = 0` and executes
`continue`, so it goes on at slot 1: the node that has become the head is neither
dropped nor selected in this call (`Skipped`). When nothing is seen, it reads
`nodes[-1]`; both outcomes of the comparison set `*pkt_idx` to -1, so the model
needs no choice there.

In `TxPath` a packet in mode ON_GPS is not presented: its `case` in
`enqueueTxPacket` has no `break` and falls into the `default`, which returns an
error (`listener.cpp:915-918`). Beacons are presented in `JitQueue` and
`BeaconPath`. The index of a peek is the one after the purge and sort. `Read` is
`lgw_get_instcnt`: when the registers cannot be read, it returns success and a
variable that nobody has set (`loragw_sx1302.c:1146`, `loragw_hal.c:1563`), so
that the time is any of a few wrong ones. `misread` counts such readings; `pread`
and `rread` are when a time was read, which bounds how old it gets, while `ptime`
and `rtime` are what was read.

`GatewayLifecycle` numbers a handler (and the listener in it) by the run that
creates it. `current` is the global pointer and `alive` the handlers not yet
deleted; `stopReq` and `flag` are `stopRequest` and `upstreamThreadRunning` of
each listener. `rpc`, `up` and `call` say where each `run()` thread, each upstream
thread and each caller of `stop()` is; a caller is the user interface, an upstream
thread after a fetch error, or a `run()` thread, whose message "Error ..." makes
the Java callback call `stopGateway()` (`LGWService.java:147`). A step on a
deleted handler is undefined: either the memory is as it was and the step goes on,
or the process dies (`Crash`, enabled in a state that `Stray` describes), which
ends everything. Only the upstream thread is there, since the flags and settings
of the app start no other. The callback object through which the HAL opens the
serial port, which all handlers share and each destructor deletes, is left out; it
matters only when two runs overlap.

In `McuLink` a message is its type and its size; an acknowledgement is a row of
units, id and size, type, then its payload in units of one SPI request. `pc`, `op`
and `todo` say where the call is that holds `mLGW`; `hdr`, `mode`, `bulk` and
`reqnb` are the statics `buf_hdr`, `_lgw_write_mode`, `spi_bulk_buffer` and
`_lgw_spi_req_nb`, which outlive calls and sessions; `buf` is `mReadBuffer` with
its position, `cmds` and `wire` what is under way to the MCU and back. Units that
are read out of place become any header of `JUNK_TYPES` and `JUNK_SIZES`. `torn`
remembers that the stream broke since the port was opened, `residue` what the
transmissions since the last flush may have left in the bulk buffer: nothing,
requests (after an empty payload), or anything (after a flush that failed). What
the model shows beyond the properties:

* after a flush that failed, the bulk buffer keeps its requests, and the next
  transmission sends them again, or what the acknowledgement has left of them,
  since it is read into the same buffer (`loragw_mcu.c:690`);
* an empty payload ends `sx1302_send` in bulk mode with the writes before it
  stored, though nothing has failed on the link: `lgw_mem_wb` refuses a size of
  zero (`loragw_reg.c:1353`), and neither `enqueueTxPacket` nor `lgw_send` does;
* a write that finds the buffer full ends `sx1302_send` in that mode too, in which
  every read is refused and every write only stored, also after the port has been
  closed and opened; only a later transmission that fits ends it;
* an open whose reset fails frees a target that stays set, and the close that
  follows frees it again (`crashed`);
* once the device is gone, a call in the middle of a payload never returns.

In `Upstream` a packet is its number and the time at which it was heard; what kind
it is (good, wrong CRC, none, FSK with any of these, unknown status, spoiled, out
of range) is chosen when the code looks at it. `fifo` is the concentrator's
buffer, `rx` the `rx_buffer` of the HAL, `batch` the array that `lgw_receive`
fills. `meta` records for each group of fields of the shared metadata which packet
wrote it, `fate` what became of each packet. What it shows: only the last accepted
packet of a batch is forwarded; an FSK packet goes out with the signal levels and
the spreading factor of an earlier one; a packet with a wrong checksum takes the
good ones before it along; a counter that cannot be read is not told; a packet of
an unknown device is told of twice.

`BeaconPath` measures GPS time and the counter in one unit; `now` is GPS time,
`Count(now)` the counter, which was `OFFSET` at time 0, `clock` what the system's
clock is wrong by. `Sync` takes the time `gps` of a message (`pulse` is that of
the last) and the counter of the newest pulse: that of `now`, though the message
may be the one before it, when the thread had to wait for `mLGW` after it had
parsed the message. `Read` and `misread` are as in `TxPath`. `ref` is
`gpsTimeReference`, `valid` and `corrOk` are `gps_ref_valid` and
`xtal_correct_ok`, `before` the two static flags of `lgw_gps_sync`. Both survive a
listener, so `MEMORY` says what `ref` may hold before it is first set, and `UNSET`
what the count of `beacon_pkt` may, which stays when `lgw_gps2cnt` refuses the
reference, for the caller ignores its error (`listener.cpp:1171`). A beacon
carries the time its payload tells, and is `odd` if its count was computed from a
reference that this listener has not set.

## 3. Runs

| Run | Shows | Bounds |
|---|---|---|
| `jit_queue` | `OnTime`: every queued packet is still to depart, with time to start the radio. `ClassCAlwaysPlaced`: while there is room, the slot that the Class C search finds passes the three criteria. | `POLL_MAX` 1: `jitRunner` polls every 10 ms and `TX_JIT_DELAY` is 40 ms |
| `jit_queue_stalled` | `NoOverlap`, `BeaconCount`, `Sorted`, `QueuedPacketLeaves` and `Refines` (the abstract schedule) although packets are missed | `POLL_MAX` 6 of a plausible window of 8: the runner misses packets, which are purged |
| `jit_queue_drop` | violated: a Class A packet accepted exactly `TX_MAX_ADVANCE_DELAY` ahead is dropped by the next peek (`>` at `jitqueue.c:246`, `>=` at 387) | |
| `tx_path` | `NoOverlap` with concurrent producers and stale times; `IndexInUse` and `TakesDuePacket`: the index of a peek still names a due packet at the dequeue; `HandedOverInTime`; `BusyMeansForgotten`: two packets that the queue could have held together never meet at the radio. The first two hold whatever was read of the counter, the others as long as no reading has failed | two producers, two slots, `LAG_MAX` 3, one reading that fails |
| `tx_path_overflow` | violated: `jit_queue_is_full` releases the mutex before the insertion, so two producers exceed `JIT_QUEUE_MAX`; the test is an equality and never refuses again after that | one slot, three packets |
| `tx_path_busy` | violated: a packet that passed all the checks is dropped because the radio is still emitting one that had left the queue, which the checks do not see | `LAG_MAX` 0 |
| `lifecycle` | `LoopHasHandler`: no receive loop works on a deleted listener; `OneReceiver`: one loop at a time, although a new start resets what stops the old one; `CleanEnd`: when all has ended, whichever way, nothing is left behind; `StopEndsRun`: an accepted stop ends its run, also when the upstream thread waits for itself or has gone with its flag set | two runs, `PATIENT`, not `SLOW` |
| `lifecycle_exit` | violated: nobody works on a deleted listener. An ordinary stop of one run: the upstream thread clears its flag before its last use of the listener, and the call of `stop()` itself goes on after `run()` may have deleted it | one run |
| `lifecycle_forced` | violated: `LoopHasHandler` when a turn of the receive loop takes longer than the 60 s of `stop()`; the loop in `onStop` that should then wait for the threads looks at flags that were cleared just before | one run, `SLOW` |
| `usb_link` | `InSync`: what is unread is exactly the rest of the answer to the request under way, though ids are never compared and a short header is no error; `CleanBetweenCalls`: leftovers in the bulk buffer, and bulk mode itself, come from an empty payload or a failed flush only; `OnlyRequestsSent`: foreign bytes in it come from a failed flush only; `CallReturns`; `Promised`: the link implements `Exchange` | transmissions of two writes and of one before an empty payload, a reset of two GPIO writes, the device unplugged and plugged in, and the process ended, any number of times |
| `upstream` | `StampExact`: the time stamp of each packet is the time at which it was heard; `MetaOfPayload`, `OverwrittenByLater`, `HeldOnce`; `CountersAgree`: `meas_up_pkt_fwd` is not the number of packets forwarded that its comment says, but exceeds it by those that gave way or wait; `Examined`; `InOrder`: the path implements `Forwarding` | three packets, one restart, a counter of 3 values that wraps twice |
| `beacons` | `BeaconAtItsTime`, `BeaconSlot`: a beacon leaves at the time its payload tells or one pulse late, each slot later than the last, as long as no reading of the counter has failed; `ReferenceRecent`; `ScanExclusive`, `ScanReported`: an abort between any two steps of a scan leaves no scan under a transmission and no half scan reported; `ThreadsEnd`: a stop ends the threads | GPS time up to 5, a counter of 16 that rolls over at 4, one pulse read late or one reading that fails, one beacon queued at a time |

Scaling. The delays keep the order of size they have in the code, with
`TX_START_DELAY` 1, `TX_MARGIN_DELAY` 1, `TX_JIT_DELAY` 2 to 4, and the beacon's
guard and air time a few ticks; the plausible window `TX_MAX_ADVANCE_DELAY` (512 s
of a 4295 s counter) is less than a quarter of `W`, so that stamps may span the
roll-over and still be ordered. Three slots are enough for a head that is purged,
a head that is skipped and a packet that is selected, and for a Class C packet
between two others. `JIT_QUEUE_MAX`, the counter and the delays are arbitrary in
the theorems.

Rotation. Every step of `TxPath` commutes with adding the same number to `now` and
to every stamp. Its runs use the view `Relative`, which keeps the stamps relative
to `now`, and treat the producers as symmetric; all the properties checked there
are invariant under both (`QueuedIsSent` only looks at `rpc`). Once a reading has
failed the view leaves out the packet in hand and that of the radio: only
properties that the first failure ends speak of these. `QueuedPacketLeaves` is
stated of the packets stamped 0 for the same reason.

Bounds of time. `LAG_MAX` is how long a producer may take from reading the counter
to queueing, `RUN_MAX` how long `jitRunner` may take from reading it to
`lgw_send`, `POLL_MAX` the time between polls. `LAG_MAX` 3 is the most the code's
margins absorb: criterion 1 keeps `TX_START_DELAY + TX_MARGIN_DELAY` (2.5 ms in
the code) beyond the peek window, and with `LAG_MAX` 4 `HandedOverInTime` fails.
`PENDING_MAX` keeps the calls that overlap from exceeding the array in `tx_path`,
because what the program does after that is undefined; `tx_path_overflow` lifts
it. `MISREADS` are how far a reading that fails is off, before and after the
counter; one failure (`MISREAD_MAX`) can meet everything else that the run has.

The user of the life cycle. `PATIENT` says that the user starts the gateway when
no `run()` thread is left and stops it when it is shown running. The code does not
enforce it, and the properties need it: with `PATIENT` FALSE a stop that comes
before the listener's `start()` is forgotten (`stopRequest = false`,
`listener.cpp:1462`), and after a change of region, which stops and starts in one
go (`MainActivity.java:452`), the old `run()` thread may delete the handler of the
new one. `SLOW` FALSE says that the upstream thread tests `stopRequest` within 60
s unless it is itself in `stop()` or gone. Two runs are enough for one run to meet
what another leaves. The runs end (`CHECK_DEADLOCK FALSE`), because the number of
starts is bounded; `CleanEnd` says how.

The link. `SENDS` has a transmission of two writes, and one whose second write,
the payload, is empty: what either leaves in the bulk buffer, which has room for
three units and four requests, the next one adds to, fits or overflows. The delays
of the reset need two GPIO writes for one of them to fail and the other to be
tried. `REQ_MOD` is one more than `REQ_MAX`, as 256 is one more than 255.
`STREAM_MAX` bounds the units unread when a request is written, hence how far a
broken stream may drift: the program that keeps reading late answers only repeats
itself further back. The MCU is taken to answer within the timeout of 100 ms that
the drain of the port uses; if it did not, an open could not tell an answer that
is late from none.

The upstream path. `FORWARD` is {"ok"}, the setting of every region. The counter
is read, and what was heard is fetched, at least once per `PERIOD` (134 s): the
comment in `loragw_hal.c` asks for it and the loop does it every few milliseconds.
At most one unit of time passes while the counter is read; its most significant
byte comes first, and the three below it are latched as one. The code's second
look at the most significant byte relies on that: it would not see a tear among
the others. A `stop` of another thread waits for the runner here; `lifecycle` has
the forced end. Three packets are enough for one that is replaced, one that is
filtered and one that is forwarded, and for a remainder in `rx_buffer` with
something heard behind it.

The beacons. `SETTINGS` enables the beacon or the scan, never both: the threads
meet only in `jitRunner`. Time passes when the thread of the reference has checked
and `jitRunner` has polled, and before a stop only. `SLOT_MAX` keeps the times of
beacons within one turn of the counter. In the code the loop that finds the queue
full spins and advances one period for each refusal, so beacons may be put off as
far as the counter can tell and beyond; the run says nothing of how far,
`BeaconSlot` only that they stay on slots, in order. With a `SLOT_MAX` beyond the
turn (26 for a turn of 16) TLC has a beacon for 22 leave at 6: 34 refusals in a
row, of a period of 128 s, are more than a turn of 2^32 us, and the loop does not
sleep between them.

A reference pairs the time of a message with the counter of the newest pulse. The
model assumes that a message follows its pulse and is parsed before the second
pulse after it, that `mLGW` is held for less than a pulse, and that there is a
pulse every second: so the counter is that of the message's pulse or of the next
one, and what is computed from it is in time or one pulse late. `FAULT_MAX` bounds
the pulses read late and the readings of the counter that fail, together; after a
reading that failed nothing is said of the times of beacons, but the other
properties go on. `OFFSET` puts the roll-over of the counter into the run: a
pulse, a beacon's count and a poll may each be before and after it. `MEMORY` has a
reference of zeroes and one that an earlier listener has left. A crystal that is
not refused is exact: the correction's phases are modelled, its value is not. The
device is assumed not to spoil the results of a scan that has completed when it is
aborted.

Fairness. In `JitQueue`, `FairSpec` assumes `WF(Tick)`, time passes, and
`WF(Poll)`: `jitRunner` polls in a loop with a wait of 10 ms for as long as the
gateway runs; only `QueuedPacketLeaves` uses it. In `GatewayLifecycle` every
thread and every call of `stop()` is scheduled, as the operating system does, and
nothing is assumed of the user; only `StopEndsRun` uses it. In `McuLink` the
calling thread and the MCU go on, and nothing is assumed of who calls or unplugs;
`CallReturns` uses it. In `Upstream` it is the upstream thread (`Examined`), in
`BeaconPath` the three threads that a stop must end (`ThreadsEnd`), each a loop
that waits at most a second. A weak fairness of the disjunction of a thread's
steps is that thread being scheduled, no more. `ThreadsEnd` leaves out a beacon
thread whose beacon is refused because the queue is full: the inner loop looks at
nothing else, and with `jitRunner` gone the queue stays full
(`listener.cpp:1140`).

## 4. Theorems

`JitQueueProofs` proves for every value of the constants that satisfies
`JitAssumption` and `QueueAssumption`:

* `TypeCorrect`: `Spec => []TypeOK`, with the bound on the number of nodes;
* `AirTimeExclusive`: `Spec => []NoOverlap`;
* `BeaconsCounted`: `Spec => []BeaconCount`;
* `ImplementsSchedule`: `Spec => Refines`, the queue implements `JitSchedule`.

They follow from the inductive invariant `IInv`, the conjunction of `TypeOK`,
`NoOverlap` and `BeaconCount` (`Inductive`). Typing is needed for the overlap
argument, since the fields of a node decide what it reserves, and `BeaconCount`
needs it to know that the queue is finite. The argument has three parts, each a
lemma. `CollisionFree`: a packet that passes the collision test against a node,
with the beacon's guard ignored where the code ignores it, is `Compatible` with
it. `ArrangeForm`, `ArrangeKeeps` and `ArrangeBeacons`: whatever the sort does,
the result holds the kept slots once each, so pairs stay compatible and the
beacons can be counted. `EnqueueNoOverlap`, `PollKeepsIInv` and their companions
combine them for each action. For the refinement, `SelfConflict` (no node is
compatible with itself, so a granted reservation is a new one) and `SlotsDistinct`
(two slots never hold equal nodes, so dequeuing a slot removes its reservation
from the set) connect the array to the set. The `Same...` lemmas say that the
constant operators of `JitSchedule`'s instance are those of `JitOps`.

It also proves what needs the delays to be a small part of the counter, under the
hypothesis `WideEnough`:

* `OrderKept`: `Spec => []Sorted`;
* `DepartsInTime`: `Spec => []OnTime`;
* `ImmediateAccepted`: `Spec => []ClassCAlwaysPlaced`.

`WideEnough` says that there is a longest air time `X` and a horizon `H` such that
a full queue of packets as far apart as the Class C search leaves them ends within
`H` (`Wide`), and that `jitRunner` polls often enough for a packet that is behind
another one (`Paced`). `ProgramIsWide` derives it from the constants of
`jitqueue.c`, 32 nodes, polls at most 20 ms apart and packets of at most 30 s of
air time: the horizon is then 2020 s, where half of the counter is 2147 s. Some
bound on the air time is needed: with 31 s the hypothesis, which is only
sufficient, is false.

The invariant `WInv` joins four facts that need each other. All packets lie within
`H` of now; within less than half of the counter the signed difference that
`compare()` takes is an order (`OrderInWindow`), so that an ordered arrangement
exists (`ListInOrder`) and `jit_sort_queue` yields one (`ArrangeOrders`). Because
the queue is in order, the packets up to the place that the Class C search finds
are crowded (`Crowded`: if there were a gap between two, the search would have
stopped there), so that the place is within `H` again (`AsapInWindow`). And
because a poll takes the first, what it leaves is at least `TX_JIT_DELAY` away
(`LeftInTime`), save for a beacon behind a Class A or C downlink that was let into
its guard, which the next poll still takes in time: `InTime` says so.
`AsapAccepted` goes through the packets before the place, the one it follows, the
one after and the rest; that a place which fits is before the packet after it, and
not behind that one, is `GapIsBefore`, and needs `BEACON_RESERVED` to be longer
than `TX_JIT_DELAY` less the margins. The induction over the queue is that a set
of numbers has a least one (`Least`).

`TxPathProofs` proves, for any number of producers and whatever the bounds on the
time between two steps, that is, for times and answers however stale:

* `TypeCorrect`: `Spec => []TypeOK`;
* `AirTimeExclusive`: `Spec => []NoOverlap`;
* `IndexStaysInUse`: `Spec => []IndexInUse`.

The three are inductive together: `jit_dequeue` takes a node because its index is
in use, and the queue stays one of nodes because the packet presented is one
(`AsapInRange`). The lemma `InsertCompatible` of `JitOpsProofs` carries the
criteria over the sort, for `JitQueue` and `TxPath` alike: criterion 3 compares
stamps only, so that it does not matter how old the time is, nor whether its
reading failed. `PeekStep` shows that the packet selected is among those the purge
keeps, so that it is found again after the sort. The bound on overlapping calls,
`PENDING_MAX`, is not used.

What depends on how stale a time may be is proved under the hypothesis
`QuickEnough`, as long as no reading of the counter has failed (`misread = 0`,
which the three properties say themselves):

* `DuePacketTaken`: `Spec => []TakesDuePacket`;
* `HandedOver`: `Spec => []HandedOverInTime`;
* `OnlyForgottenMeet`: `Spec => []BusyMeansForgotten`.

`QuickEnough` says that the counter is wide as in `JitQueueProofs`, for a horizon
longer by what a producer may be late (`LAG_MAX`); that this is at most the
margins of the first criterion and one; that a poll and the run to `lgw_send()`
(`POLL_MAX`, `RUN_MAX`) fit into `TX_JIT_DELAY` with the time to start the radio;
and that calls which overlap leave room in the array, since beyond its end nothing
can be said (`tx_path_overflow` shows that they may not). `ProgramIsQuick` derives
it from the constants of `jitqueue.c` for producers at most 2.5 ms late, polls at
most 20 ms apart and runs of at most 18.5 ms. These three times are assumptions
about the scheduler, as the bounds of the run are.

Everything is seen from `rtime`, the time of the last poll, which moves only when
`jitRunner` reads it. `FarInv` says that since that poll every packet is at least
`TX_JIT_DELAY` from it, save the one selected: what a poll leaves is behind the
packet selected by its own lead (`OthersFar`) or was not due (`NothingDue`), and
what a producer inserts, however late, is beyond (`InsertedWhen`). So the packet
selected stays the first however the producers sort (`FirstIsDue`), which makes
`jit_dequeue` take it. `RoomInv` says that who is about to insert finds room for
itself and for all who are in a call. `ReadInv` says that the times read are those
of the readings, `AgeInv` bounds how old the times read are, `HandInv` and
`AirInv` say how near the packet in hand and that of the radio are, and
`BusyIsNear` that two so near could not have been queued together.

`LifecycleProofs` proves for any number of starts:

* `TypeCorrect`: `Spec => []TypeOK`, whatever the user does;
* `EndIsClean`: `Spec => []CleanEnd`, if `PATIENT`;
* `LoopKeepsHandler`: `Spec => []LoopHasHandler`, if `PATIENT` and not `SLOW`;
* `ReceiverAlone`: `Spec => []OneReceiver`, if `PATIENT` and not `SLOW`.

The hypotheses are those of the run `lifecycle`; `lifecycle_forced` shows that
`LoopHasHandler` fails with `SLOW`. `TypeInv` adds to the type where threads and
calls may be together. `OneRun` says that with a patient user the handler of the
active run is the only one and the global names it; `StopInv` that a run is
stopped only after it has started, so that no `stopRequest = false` comes after
the stop; `HalInv` that while the concentrator is on, something is left that will
turn it off; `LoopInv` that a loop has its flag set, and that who clears flags by
force has seen that there is no loop. `StepCases` reduces the steps to those of a
call, a run, an upstream thread and the user.

`McuLinkProofs` proves for every size of the bulk buffer, every transmission that
fits into an empty one, with or without a payload, and every number of requests
below the modulus of the counter (`LinkAssumption`, which also says that junk has
types and sizes of the format):

* `BulkIsClean`: `Spec => []CleanBetweenCalls`;
* `BulkHoldsRequests`: `Spec => []OnlyRequestsSent`;
* `TypeCorrect`: `Spec => []TypeOK`;
* `AcksMatch`: `Spec => []InSync`;
* `ImplementsExchange`: `Spec => Promised`, the link implements `Exchange`.

For the first two: the properties speak of calls that have ended, so the invariant
must follow a transmission through its writes. `BulkInv` does: as long as no flush
has failed and no empty payload has ended a transmission since the last flush, the
bulk buffer holds exactly the writes stored so far. `CleanInv` says that, an empty
payload or not, what it holds are requests, and `CallInv` which call may be at
which place. The stream, the port and the MCU do not occur in them. `StoreInv`
needs the writes of a transmission not to decrease and to end within the buffer,
`ConcludeSend` and `ConcludeOther` cover the ends of an exchange.

For the type, a payload must be shown to end within the bulk buffer it is read
into, and a broken stream to yield headers of the format only: `TypeInv`. With it,
`InSync` is inductive as it stands (`StepKept`): a read takes the units of the MCU
in order however they are split over transfers, and whoever leaves units unread
has set `torn`. The steps map to those of `Exchange` by the place of the call
(`ImplementsExchange`): the request written is the one outstanding, its execution
by the MCU the service, and `Conclude` with an acknowledgement the return, which
`InSync` shows to come after it.

`UpstreamProofs` proves `StampsAreExact`: `Spec => []StampExact`, for every
`PERIOD`, every number of `WRAPS` of at least two and every split of the counter's
bytes (`TimestampAssumption`). `CounterGetExact` says that reading the counter in
two parts returns the time before or after the unit that passes; `UpdateExact`
that the host's counter then is the time of the concentrator, if less than a
period has passed since the last reading; `ExpandExact` and `ExpandLate` what a
packet is given. `IInv` says how recent the host's counter and every packet that
waits are (`WithinNow` follows from `Timely`), and that packets in `rx_buffer`
were not heard after the counter was read, unless the reading failed.

It also proves, for every number of packets, restarts and forwarded statuses:

* `ForwardsInOrder`: `Spec => InOrder`, the path implements `Forwarding`;
* `TypeCorrect`: `Spec => []TypeOK`;
* `NoneIsLost`: `Spec => []HeldOnce`;
* `GivesWayToLater`: `Spec => []OverwrittenByLater`;
* `MetadataMatches`: `Spec => []MetaOfPayload`;
* `MeasurementsAgree`: `Spec => []CountersAgree`.

`OrderInv` orders everything by place: what has gone out comes before the payload
kept, that before the rest of the batch, that before `rx_buffer`, that before the
FIFO. One lemma per action keeps it, and `StepForwards` maps each step to one of
`Forwarding` or to none.

What becomes of each packet needs more than the order. `WaitInv`: a packet is held
exactly if it waits in one of the three places, which lemmas on the numbers of a
sequence and its parts (`JoinIds`, `CutIds`, `TailIds`, `AppendIds`) carry over
each move; `HeldOnce` follows by putting the three rows one behind the other
(`ConcatRow`). `OverwrittenByLater` is not inductive: that nothing between a
packet and the one it gave way to is still held follows from `SolidInv`, which
says that what waits in one place was received without a gap, and from `TakenInv`,
which says that the packet kept is the only one accepted and that those heard
between it and the next of the batch were looked at. `CountersAgree` counts sets
of packets by their fate; `CountInv` does so with the fates a packet of this start
can have, and `ChosenMove` and `ChosenStay` say how the sets grow by the packet
looked at. The metadata needs `TakenInv` too, since it speaks of what the shared
record is about while a payload is kept.

`BeaconProofs` proves for every instance of `BeaconPath`:

* `ReferenceStaysRecent`: `Spec => []ReferenceRecent`;
* `ReportsAreWhole`: `Spec => []ScanReported`;
* `ScanGivesWay`: `Spec => []ScanExclusive`;
* `TypeCorrect`: `Spec => []TypeOK`, under `MemoryTells`;
* `BeaconsKeepTime`: `Spec => []BeaconAtItsTime`, under `MemoryTells` and
  `OneTurn`;
* `SlotsInTurn`: `Spec => []BeaconSlot`, under these and `SlotsApart`.

`AgeInv` says that a valid reference is as old as the last check allows, and one
more once the tick after that check has come: a tick waits for the check.
`ScanInv` follows a scan from its start to the reading of its results, during
which the channel does not change and the status `completed` is final; that the
radio is seen to be busy as long as it has a packet (`RadioBusy`) keeps a scan
off.

The last three depend on what the reference holds before it is set and on the turn
of the counter, and say so:

* `MemoryTells`: what is read from the memory of an unset reference and found
  recent tells a time after the epoch of GPS. A recent one tells a slot, maybe a
  wrong one;
* `OneTurn`: GPS time, with a packet programmed ahead of it, and the beacons'
  times, with one pulse more, span less than a turn of the counter, as in the run;
  the counter may roll over anywhere among them (`OFFSET` is arbitrary). Past it
  `BeaconAtItsTime` is false of the code, as said in Section 3;
* `SlotsApart`: the queue holds one beacon at most, as in the run; or, as in the
  program with its three beacons, the period (128 s) is longer than a packet is
  programmed ahead (40 ms), and the unset reference is stale (`MemoryStale`, which
  `ZeroesStale` shows of a memory of zeroes). Without the last the order can fail:
  with two beacons queued, a memory whose count is off, and time up to 10, TLC
  finds a beacon of the unset reference that leaves after a later one.

`TypeInv` adds to the type that what the beacon thread has still to queue and what
is queued are no more than `JIT_NUM_BEACON_IN_QUEUE`: the count is read once, and
others only take beacons away. For the times, within one turn a count stands for
one time, `When` of it: how far it is ahead of `OFFSET`. The counter stands for
the present (`CountWithin`), adding to a count within the turn adds to its time
(`AddWithin`), and how far a count is ahead of the counter is the difference of
their times (`AheadWithin`), on whatever side of the roll-over they are. As long
as no reading has failed, `TimeInv` says that the count of a reference stands for
when it was taken, which is the time of its message or one later, and so does the
count of each queued beacon for its time (`SlotCount`), or else it is past: the
conversion of a negative difference may be cut to the reference's own count. Such
a beacon is refused if it is due now and is never due later (`DueIsAhead`).
`SlotInv` adds that the slots of queued beacons are a period apart, and later than
what left the queue unless their count is past. A poll compares packets by what it
has seen of them only, and skips one after a purge; that an earlier beacon is
never passed over follows from the times instead (`DueIsFirst`): what is a period
later is not due yet.

`DevAddr` has no state, and its theorems are about the operators of `dev-addr.cpp`
for every address of 32 bits, which TLC could not enumerate:

* `RoundTrip`: for the types 0, 1, 2, 6 and 7 the getters find what `set` has set;
* `NetIdShifted`: an identifier of type 3 or 4 comes back twice as large, and that
  of type 4 with the top bit of the lowest byte of the address. `setNwkId_1_1`
  shifts them by `32 - 14` and `32 - 16` (`dev-addr.cpp:628`, `:633`), their
  places in version 1.0, where the masks and the getters use those of version 1.1;
  and the getter of type 4 takes its last bit from `devaddr[0]` (`:319`), where
  the layout above it has it in `devaddr[1]`;
* `LowBitsLost`: an identifier of type 5 loses its two lowest bits, since both
  masks of that type (`:462`, `:517`) take 15 bits for an address of 13;
* `StepStays`: `increment` and `decrement` stay in the network.

The argument goes by the place of the three parts: `Layout` says where they are,
`Written` what `set` puts there, `Found` and `GetBack` what the getters take out.
`Span` and `Apart` say that the types are disjoint intervals, so that the type
found is the one set.

Only model-checked: liveness under fairness (`QueuedPacketLeaves`, `StopEndsRun`,
`CallReturns`, `Examined`, `ThreadsEnd`), which is out of the prover's reach.
Every safety property and every refinement that a passing run checks is a theorem.

## 5. Not modelled

The components that PROJECT.json lists as `not_modelled`, for the reasons given
there: the larger part of the repository by lines is sequential code without state
(codecs, MAC commands), generated tables of regions, the configuration of the
radios, and third-party code. What can go wrong there is a byte in the wrong
place, which a test reaches and a model of sets and messages does not describe.

Within the modelled ones:

* logging, radio parameters, payloads, and the refusals of `enqueueTxPacket` that
  happen before the queue is touched. Every Class B downlink is one of them: the
  `case ON_GPS` of `enqueueTxPacket` has no `break`;
* the counters of measurements except those of the upstream path. The bytes it
  counts are those of the last packet examined, filtered or not
  (`listener.cpp:769`); sizes are abstracted away;
* `gpsRunner` up to a parsed message: it blocks in a read of the receiver's tty
  and sees a stop only after it, so that a silent receiver takes up the minute of
  `stop`;
* the receiver of the disconnect intent of `SerialSocket`, which clears the
  listener before it tests it (`SerialSocket.java:119`); nothing in the app sends
  that intent;
* the values of the crystal's correction; two listeners whose threads overlap, for
  which the life cycle has only the upstream thread.

In the shipped app the threads of `BeaconPath` do not start: `run()` sets
`NO_SEND` and `NO_BEACON`, nothing sets `gpsEnabled`, and no region enables the
spectral scan. The module says what an embedder who turns them on gets.

## 6. Plan

Done: the queue and its theorems, the transmit path, the life cycle; the link to
the MCU, the upstream path, the beacons and the device addresses. What is left, in
order:

1. The upstream thread in the composition of life cycle and link: a fetch error
   that comes from an unplugged device, while the user stops.
2. Theorems: the times of beacons over any number of turns of the counter, for
   beacons that are put off by less than a turn.
