# px4_drv in TLA+

A verification development for px4_drv: the Linux kernel driver and the Windows
user-mode driver for the PLEX PX4/PX5/PX-MLT and e-Better DTV tuners. It models
the parts whose correctness depends on the order of events: who may switch a
board's power off, what a reader of the ring buffer sees while an interrupt
handler writes it, what an unplugged unit leaves behind, what a tune leaves in
the chips after an earlier one failed half-way, which packets of a multiplexed
carrier come out after losses, what a T=1 exchange with a B-CAS card makes of a
late answer. TLC checks the models on small
instances; TLAPS proves most of their safety properties, the refinement of the
ring buffer included, for every value of the constants.

## The system

| part | state | operations | what is hard |
|---|---|---|---|
| `px4_mldev.c`, power part of `px4_device.c` | per board: power record, receivers in use, card in use; a reference-counted object shared by two units | search, alloc, add, remove, set_power, set_card_power | two units decide about each other's power; a switch is two GPIO writes that can fail separately |
| `ringbuffer.c`, `ptx_chrdev_read`, `ptx_chrdev_put_stream` | buffer, head, tail, fill, state, rw_count; threshold counter; wait queue | write from the USB completion, read, start, reset, stop | lock-free reader and writer, wake-up by threshold, stop under a blocked read |
| `ptx_chrdev.c` life cycle, `px4_usb_disconnect` | group list, two reference counts, minors, open flags, availability | open, release, group destruction, disconnect | open against unplugging, last close frees |
| stream handlers of four device families | remainder buffer | receive a transfer, resynchronise, hand packets out | packets cut anywhere, noise |
| `itedtv_bus.c` streaming | URBs, handler, streaming flag, optional workqueue | start, stop, completion, resubmission | completion against stop, partial start |
| `px4_card.c` | reader list, minors, session flag, power, references | register, open, ioctl, release, unregister | delayed open, reuse of names and numbers, unplug under a request |
| `smart_card.cpp` | session, sequence numbers | open, close, status, reset, transmit | lost and late blocks, retries, endless waiting |
| boards: `px4_device.c`, `pxmlt_device.c`, `isdb2056_device.c`, `isdbt2071_device.c` | power, LNB and capture counts, null filter record, RF input matching | bring-up, open, release, tune, LNB, capture, card power | counts of shared supplies, a tune that touches other receivers, unwinding |
| `it930x.c` | GPIO record, command sequence number, I2C masters | firmware, register, I2C, GPIO, PID filter, UART | every access may fail, with or without effect |
| tuners and demodulators (`r850.c`, `rt710.c`, `cxd28*.c`, `tc90522.c`) | driver state of the chip, its registers | init, sleep, wake-up, tune | sequences cut short by a failure, settings one system leaves to another, PLL arithmetic |
| `tsmf.c` | frame position, slot map, TLV buffer | filter a packet, resync | lost and damaged packets, stale packets after a tune |
| `ptx_chrdev.c` ioctls | current system, parameters | tune, LNB, capture | long sequences of calls |
| `pcsc/` | readers, sessions per LUN | the IFD handler's entry points | unplugged readers, retries |
| DriverHost servers, receivers, devices | searches, open receivers, device list, pipes | open, close, notification, shutdown | server threads against device removal |
| DriverHost card server | connections, share modes, transactions | connect, begin, end, transmit, disconnect | clients that vanish in a transaction |
| BonDriver | read queue, tuner client | open, tune, read, purge | asynchronous reads against purge and close |
| WinSCard proxy | contexts, handles, reader lists | SCard* entry points | cancellation, mixed native and built-in readers |
| `fwtool`, packaging, pipe and configuration helpers | none | input and output | nothing that a model would find |

Interaction: a completed URB (`itedtv_bus`) calls the stream handler of its board
(`TsSync`), which calls `ptx_chrdev_put_stream()` for each packet (`PtxStream`).
Packets of an ISDB-C carrier go through the TSMF filter (`Tsmf`) before that.
Opening a receiver takes references (`PtxLifecycle`) and then the board's power
(`Px4Power`, or `PtxTune` for boards on their own); the card reader's power request
goes through the same table. A tuning ioctl calls the board's operation, which
calls the drivers of the chips, which access them through the bridge (`PtxTune`
composes all of these).
The PC/SC driver uses `px4_card` (`Px4Card`) through ioctls and runs the T=1 host
(`SmartCard`) on it; the Windows driver runs the same T=1 host on its own device.

## Modules

Each component is a module; its `MC...` module only gives TLC its instances. An
operator whose comment begins with "Mutant" is a deliberately wrong variant of
the definition after it, used to see that a property notices the mistake; no
specification uses one.

**Px4Power** (`px4_mldev.c`, `px4_device.c`, `px4_card.c`). `power_state`,
`chrdev_state`, `card_state` and `attached` are the arrays of `struct px4_mldev`,
`refs` its kref; `board` holds the two GPIO lines (7 and 2) and `inited` whether
the tuner chips still have the initialisation of `px4_backend_init()`, which they
lose with the power. `phase` is the life of a unit from probe to release, `op`
what the holder of `px4->lock` is doing. A section under `mldev->lock` is one
step. `MldevPowerOn` describes every outcome of the two GPIO writes
(`TurnOnFailures`); `gpioFails`, chosen in the initial state and then fixed, says
whether they may fail at all. The unit with the card slot is unit 0 here
(`dev_id` 1 in the code counts from 1).

**PtxStream** and **TsQueue** (`ringbuffer.c`, `ptx_chrdev.c`). Writer, reader and
control thread each have a program counter; every atomic load and store of
`actual_size`, `head`, `tail`, `state` and `rw_count` is a step, and a copy is a
step that reads or writes the slots. `TsQueue` is the abstract queue; its
variables are expressed over the concrete ones (`ImplementsQueue`): `q` are the
slots from head on, corrected for a reader or writer in the middle of its
update; `got` is what a read takes, until it returns. The unit of data is a packet, not a byte: every write and threshold is a
multiple of packets. `JoinReaders` says that an application starts reception only
between its reads.

**PtxLifecycle** (`ptx_chrdev.c`, `px4_device.c`, `px4_usb.c`). One unit, already
probed: the group's and the device's kref, the context list, minors, the lock of
context and group, and threads that open and close while another disconnects.
`cdev_refs` are the references on the cdev inside the group: the VFS takes one before
it calls `ptx_chrdev_open()` (`VfsOpen`) and drops it after a failed open or
after the release (`CdevPut`), both external; the driver's own goes with
`cdev_del()`.

**TsSync** (the stream handlers). A byte is the tag of a sync byte or not a sync
byte; a transfer of any length of the scenario is joined to the remainder the way
`*_stream_handler()` does it, and `*_stream_process()` moves over the data one
decision a step. `scen`, fixed for a behaviour, chooses the family (tagged: px4 and
pxmlt, plain: isdb2056 and isdbt2071), the stream and the lengths of transfers.

**ItedtvBus** (`itedtv_bus.c`). Each URB is free, in flight, completed, in its
callback or queued as work. `start_streaming` submits one URB a step and unwinds
when a submission fails; `stop_streaming` clears the flag and kills the URBs one
after the other, each kill waiting for a running callback. `usb_kill_urb`, the
completion order of one endpoint and the workqueue are external and modelled
from their use. `build`, fixed for a behaviour, says whether the driver is built
with the workqueue and whether transfers and submissions may fail.

**Px4Card** (`px4_card.c`). A registration is a new card with its own references,
lock and minor; an open(2) is first held by the VFS (`VfsOpen`, external) and
looks its minor up later. Locks are variables with a holder, requests have a
begin and an end so that a removal may come in between.

**SmartCard** (`smart_card.cpp`). `call` is the call in progress: the site of the
`ExchangeBlock()` it is at, its phase and its retry counters. The card is
external: it numbers and acknowledges blocks as T=1 requires, repeats its last
block when asked, and may be slow, ask for more time, or be swapped. The line
may lose or damage blocks in both directions. A block is a whole frame, checked
or damaged; a command or a response is the number of I-blocks it takes. `scen`,
fixed for a behaviour, holds the lengths, the limits and what may go wrong.

**PtxTune** composes the tuning path from the ioctl down to the registers. Below
it are operator modules, one per source file, that it EXTENDS:

| module | code |
|---|---|
| `I2cBus` | how driver code is written down: an operator from a board state to the set of its outcomes `[ret, s]`, with `Then`, `OnError`, `Anyway`, `Finally` for the ways C code goes on after a call; `it930x_ctrl_msg()` and the register and I2C requests |
| `It930x` | bring-up, firmware, GPIO with the driver's record, PID filter, purge |
| `Tc90522`, `Cxd2856er` | demodulators |
| `R850`, `Rt710`, `Cxd2858er`, `TunerPll` | tuners and their synthesiser arithmetic |
| `TunerBoard` | what the boards share: supply, LNB, capture, card power |
| `Px4Board`, `PxMltBoard`, `Isdb2056Board` | `px4_device.c`, `pxmlt_device.c`, `isdb2056_device.c` and `isdbt2071_device.c` |

A register access may fail at any point, and then have taken effect or not; a
group of registers the code always writes together is one register of the model,
which a failure may leave half written (`Mixed`). `dev` is the board: driver
structures, bridge, pins and the chips' registers; `chr[i]` is `struct ptx_chrdev`.
`asked`, `suspect`, `late` and `lnbLost` are ghosts that the properties use.
A handler is one step, since it holds `chrdev->lock`, and what it does under the
device's lock concerns its own receiver or counters kept under that lock; the ends
of `chrdev->open`, which others read without a lock, and the wait for a TSMF header
are steps of their own. `load`, fixed for a behaviour, is the workload: the board,
how many accesses may fail, what each user does, and whether the card is used or
the device unplugged.

**Tsmf** (`tsmf.c`, `ptx_chrdev_put_stream_tsmf()` and the TSMF parts of the tune).
A packet is a place in a carrier, and whether it was damaged; carriers, what
their frames declare and what their slots carry are constants. A TLV packet is
the sequence of its fragments.

## Runs

| run | shows |
|---|---|
| `power` | two interlocked units, GPIO writes that work or fail: `KeepsPower`, `PowerJustified`, `RefsExact`; while they work also `Initialised` and `InterlockHeld` |
| `stream` | the ring buffer refines `TsQueue` (`ImplementsQueue`); `NoSleepOverData`; blocked reads return after stop and disconnect (`ReadsReturn`) |
| `stream_restart` | **violated**: `ResetExclusive`, see findings |
| `lifecycle` | the driver uses neither group nor device after its release (`DriverUsesAlive`), minors are held while a file is open, disconnect completes |
| `lifecycle_cdev` | **violated**: `CdevOutlivesFiles`, see findings |
| `sync` | `RemainFits` and `NoOverlap` for every stream of a few packets cut anywhere; a clean stream is delivered whole, and the parsers are in sync again a bounded distance after noise |
| `usb` | handler set and URBs alive when called, quiet when stopped, no URB lost without errors, stop completes |
| `card` | exact references, no call into a gone unit, power ends with the session, a delayed open gets the reader it asked for, removal completes |
| `tune` | all boards, tunes of all systems with failing accesses: `TunedAsAsked`, `NoCableResidue`, `NeighboursMatched`, `CaptureExact`, `LnbExact`, `NullFilterRight` |
| `tune_neighbours` | **violated**: `AllNeighboursMatched`, see findings |
| `tsmf` | only whole frames of the selected TS come out (`OutputSound`), and every intact one does (`WholeFrameOutput`); TLV packets are put together from all their fragments (`TlvSound`); the search for a header is decided (`Decides`) |
| `t1` | the response is the command's own, executed at most once, sequence numbers agree, every call ends |

Some properties have preconditions, because the code does not promise more:

* `Initialised` and `InterlockHeld` assume `~gpioFails`. After an open whose own
  board went on and whose partner's did not, the next open skips the
  initialisation; `docs/20261014_linux_card_reader_validation.md:250` records it.
* `CleanDelivered` assumes of the plain parsers transfers long enough to
  confirm the sync (`LongEnough`); line 251 of the same document records that
  shorter ones are dropped. `Resyncs` needs room for a sync check in the transfers of
  the tagged parsers as well (`RoomToSync`): when the bytes of `remain_buf` do
  not join into packets with the transfer, `px4_device.c:191-213` gives them up and
  begins again at the transfer, so that transfers shorter than that can keep a parser
  that has lost sync from finding it. A USB transfer of the driver is far longer.
* `NoUrbLost` assumes that no transfer fails: the code lets a URB go that
  completed with an error.
* `TunedAsAsked` and `NoCableResidue` except PX-MLT receivers on which a tune failed
  on a USB access since they were opened (`suspect`), in two points. (1) A stop of ISDB-C or
  J.83B that fails half-way leaves the demodulator's state at active and
  `cable_wakeup_incomplete` clear (`cxd2856er.c:679`): tuning the same system again
  then only resets it, and succeeds with the TS output still stopped. TLC found
  this; the comment at `cxd2856er.c:1421` describes the same danger for wake-ups
  that failed, which the code handles. (2) An ISDB-S tune that fails after
  `cxd2858er.c:558` leaves the amplifier on the satellite input, and the next ISDB-T
  tune does not write that register.
* `NullFilterRight` excepts receivers with a failed tune: the record of the
  filter may then be wrong (`pxmlt_device.c:379`).
* `NeighboursMatched` speaks of runs without a failed access, and excepts tuners
  that were open but idle, which is the finding of `tune_neighbours`.
* `OutputSound` and `WholeFrameOutput` assume that fewer packets than a frame
  with its header (53) are lost between two headers (`MaxLost <= SlotNum`): by
  counting, the filter cannot see the loss of exactly a frame. `OutputSound`
  speaks of output that is not empty: a frame without a slot of the TS gives none.
* `Decides` says nothing once the receiver is tuned again.

`PtxTune` also assumes that a software reset of the CXD2856ER clears its registers
(`SwResetClears`), which `cxd2856er_init()` relies on.

`TypeOK` is a property of the runs `power` and `lifecycle`; the other proofs have
a type invariant of their own (`TypeInv`), part of their inductive invariant.

### Findings

* `stream_restart`: `ringbuffer_lock()` waits until `rw_count` is 0 and then keeps
  nobody out. With a second thread that stops and starts reception, the indices
  are reset while a read is between its load and its store.
  `docs/20260725_ringbuffer_purge_deadlock.md:109` says that the reset never
  overlaps a read or a write.
* `lifecycle_cdev`: `struct ptx_chrdev_group` embeds its cdev
  (`ptx_chrdev.c:1201`) and is freed with the last of its own references
  (`ptx_chrdev.c:1326`). The VFS holds a reference on the cdev from before
  `ptx_chrdev_open()` until after a failed open or `ptx_chrdev_release()` has returned,
  and then drops it. When the unit was unplugged and the last close frees the group,
  it does so in freed memory; the same happens to an open that the unplugging
  overtook. `px4_card.c:28` allocates the card reader's cdev on its own because
  open files refer to it until they are closed for good.
* `tune_neighbours`: a PX-MLT receiver that is open but not tuned when another
  starts the first cable reception only has `rfin_matching` set. On its close,
  `cxd2858er_term()` returns without writing (`cxd2858er.c:264`, no system is set),
  and later cable tunes skip it. `pxmlt_device.c:447` and
  `docs/20261018_isdbc_validation.md:345` say that an open tuner gets the setting when
  it next goes to standby. The same happens to a receiver between its board's
  release and the end of `chrdev->open` (`ptx_chrdev.c:203-213`).

### Bounds

* Px4Power: two units, as the code has; three receivers of which two are
  satellite, so that both "first and last user" and "interlocking or not" occur.
  Nothing else is bounded.
* PtxStream: three slots, chunks and reads of up to two packets, a threshold of
  two: wrapped copies on both sides, a full buffer, truncated chunks and both
  sides of the threshold occur. Two values of data are enough: the code
  never looks at them.
* PtxLifecycle: three openers for two receivers: two compete for one.
* TsSync: packets of three bytes and two packets per sync check instead of 188 and
  four; the code depends on these only through the products and sums the model
  keeps. Every stream of 9 bytes (px4) or 11 bytes (isdb2056) with transfers of 1,
  2, 4 and 7 bytes; streams of 40 bytes that begin with up to 14 bytes of noise with
  transfers of 6 to 9 bytes (pxmlt), and of 50 bytes with up to 16 and transfers of
  12 to 16 (isdbt2071), which are the shortest with room for a sync check.
* ItedtvBus: three URBs: one killed, one completing, one waiting. Two receivers.
  The build with the workqueue is followed without failures.
* Px4Card: two units of one serial number, two files, two minors, three
  registrations (`MaxCards`): names and minors are reused and run out.
* SmartCard: three scenarios. `Chained`: two commands of two blocks, responses of
  two and three, one of them longer than the caller's buffer, and a discard limit of
  1 so that the queue can exceed it. `Recovery`: three commands with requests for
  more time and a swapped card, two retries. `Acas`: the start-up of an ACAS card with
  the limits of the code. One fault in each.

* PtxTune: sixteen workloads (`MCPtxTune`), each with a board, two users where the
  board shares something, and one access that may fail anywhere (none in the
  workloads that try every channel of the ISDB-S and ISDB-T ranges). One failure is
  enough to leave any sequence cut short in any place; the tune after it is then
  undisturbed, which is what the properties are about. PX-MLT has two receivers
  instead of three to five, px4 two satellite and one terrestrial one.
* Tsmf: frames of three packets instead of 52, a header is missed after six packets instead
  of 424, two stale packets, TLV packets of up to three fragments; three carriers: one
  that changes its TSs from frame to frame and declares one as TLV that is not,
  one with TLV packets across frames, a broken pointer and a packet that is too
  long, one without TSMF. Up to three packets lost (one less than a frame) and one
  damaged since the last header, in every combination; before the first header any
  number.

### Deadlock and fairness

Deadlock is checked except in PtxStream and PtxLifecycle, whose unit is gone for
good after the disconnect. Fairness: kernel threads that can run do run, and a
mutex waiter gets the mutex in the end (strong fairness on the steps that wait
for one: kernel mutexes hand over to a starving waiter); a USB transfer that is
killed completes; the host side of the T=1 exchange runs and its clock does; a
locked carrier keeps sending and not all of it is lost or damaged (`Tsmf`, weak
fairness of `Receive`, for `Decides`). `PtxTune` has safety properties only. No
fairness is assumed of users, of the hardware delivering data, of the card, or of
plugging. `PtxLifecycle` assumes in addition that an application closes a
receiver once the unit is gone, without which no driver could free it.

## Proofs

Each `...Proofs` module extends the module it is about (`TsPathProofs` two: a packet's
way from the USB transfers to the receivers and on to the reader). Its invariant (`IInv`, in
`TsPathProofs` also `SyncInv`, `CleanInv` and `NoiseInv`, in `PtxTuneProofs` `Inv` and `CableInv`) is
inductive and was checked with TLC on the instances of the run before it was proved;
that it holds always has a lemma for every action or group of actions, and the
theorems follow from it. The constants are arbitrary, within the named assumptions
of the component's module: sizes are positive, sets of threads, files and carriers
are as the comments beside them say. No theorem uses fairness.

| module | theorems | about |
|---|---|---|
| `Px4PowerProofs` | `TypeCorrect`, `PowerKept`, `PowerNotKeptForNobody`, `ManagerReferences`, `TunersInitialised`, `InterlockKept` | `TypeOK`, `KeepsPower`, `PowerJustified`, `RefsExact`, `Initialised`, `InterlockHeld` |
| `TsPathProofs`, of `PtxStream` | `RingBufferIsQueue`, `NoReaderSleepsOverData`, `ResetIsExclusive` | `ImplementsQueue`, `NoSleepOverData`, `ResetExclusive` |
| `TsPathProofs`, of `TsSync` | `RemainBufFits`, `PacketsNeverOverlap`, `CleanIsDelivered`, `FindsPacketsAgain` | `RemainFits`, `NoOverlap`, `CleanDelivered`, `Resyncs` |
| `PtxLifecycleProofs` | `TypeCorrect`, `DriverUsesNothingFreed`, `MinorsHeld` | `TypeOK`, `DriverUsesAlive`, `MinorsHeldWhileOpen` |
| `PtxTuneProofs` | `CaptureIsExact`, `LnbIsExact`, `NullFilterIsRight`, `CableLeavesNothing` | `CaptureExact`, `LnbExact`, `NullFilterRight`, `NoCableResidue` |
| `ItedtvBusProofs` | `CallbacksAreSafe`, `QuietBetweenStreams`, `UrbsKept` | `CallbacksSafe`, `QuietUnlessStreaming`, `NoUrbLost` |
| `Px4CardProofs` | `CardRefsAreExact`, `BackendStaysAlive`, `PowerEnds`, `OpensRightReader` | `CardRefsExact`, `BackendAlive`, `PowerEndsWithSession`, `OpensTheReaderAskedFor` |
| `TsmfProofs` | `OutputIsSound`, `WholeFramesAreOutput`, `TlvIsSound` | `OutputSound`, `WholeFrameOutput`, `TlvSound` |
| `SmartCardProofs` | `ResponseIsRight`, `CommandsExecutedOnce`, `SequenceNumbersAgree` | `RightResponse`, `ExecutedOnce`, `SequencesAgree` |

**Px4Power**, for every power control mode and set of receivers. None of the
properties is inductive: `KeepsPower` speaks of open files and lines, the code
decides from `px4_mldev`'s table. `IInv` joins them: every unit with a user
in the table is recorded as powered (`UsersPowered`), a unit recorded as powered
has its lines on (`RecordedOn`), a slot without a unit is blank
(`DetachedBlank`), power is justified; every open file, and the holder of the
unit's lock in the middle of an open, is in the table (`UserInv`). `RecordedOn` is
one way only: lines may be on without a record (a switch that failed half-way,
and the probe window of `px4_device.c:39`), so that the converse does not hold. While GPIO
writes work (`GInv`, `WorkingInv`) the table also records exactly who is using a
board and who is first, a used board has kept its initialisation, and an
interlocked partner is recorded as powered.

**PtxStream**, for every size, threshold and chunk length with chunk <= threshold
<= size, which is how the driver configures them. `NoReaderSleepsOverData` rests on
`WakeInv` alone: what the writer has not yet accounted for and what the threshold
counter says, added up, cover the data in the buffer. It needs no further
hypothesis. `RingBufferIsQueue` and `ResetIsExclusive` assume `OneReceiver`: the
application starts reception between its reads and no other receiver keeps the
USB stream running. Without the first the run `stream_restart` shows a
counterexample; without the second the writer of the old stream may be inside the
buffer when it is reset. `QueueInv` fixes for every pair of positions of reader and writer
what `actual_size`, `head` and `tail` are and which slots hold the queue, so that
their copies never meet; the refinement is then shown step by step: the
additions and subtractions of `actual_size` are the abstract steps, all others
stutter.

**PtxLifecycle**, for any finite set of openers: each reference count is the number of
threads standing where they still use the object, plus the group's own (`Count`,
`GroupRefsExact`, `DeviceRefsExact`); an object is alive while its count is not 0.
The references on the cdev are the threads that the VFS has let in, plus the group's
until `cdev_del()` (`CdevRefsExact`). `DriverUsesNothingFreed` is about what the driver
does itself, and that the cdev's count is not 0 while an opener refers to it. It
says nothing of the memory that count lies in: that is `CdevOutlivesFiles`, which is
false.

**TsSync**, for every packet length, sync count, stream and cut into transfers:
`RegionInv` says which part of the received bytes `remain_buf` and the transfer hold,
`OutInv` that the packets handed out lie in order before `Done`, `JoinInv` that of the
bytes in `remain_buf` either none or all are handed out. That a run of packets ends
somewhere uses the least element of a set of numbers.

*A clean stream is delivered.* `CleanInv` adds, for a stream in sync from its first
byte on and `LongEnough` transfers, that the parser stands at a packet and has handed out
exactly the packets before that name a receiver (`GivenInv`), and that there is room
for what it still has to confirm (`SpaceInv`): it never slips and gives nothing up.

*The packets are found again.* `NoiseInv` speaks of a stream whose packets begin at q
behind bytes without a sync byte: from a sync check's length behind q on, what is
done is handed out (`FoundInv`). Whatever looks like a run of packets is one, since
nothing else has a sync byte, so the parser can fail to confirm a run only for want
of bytes. `TaggedInv` and `PlainInv` say where it then stands: before q, at a packet, or,
when the bytes of `remain_buf` were given up, at the beginning of a transfer that
holds the next packets. `RoomToSync` is what this last case needs.

**ItedtvBus**, for any number of URBs and receivers: no URB is anywhere but idle
unless a start has come to its submissions and no stop to its end (`Active`), a
kill that has passed a URB leaves it idle, and the handler is set as long as one
is not. `Followed` excludes the build with the workqueue (off by default) while
transfers fail: there `itedtv_bus.c:480` is not modelled. `UrbsKept` has no such
hypothesis.

**Px4Card**, for any units, finitely many files, any number of minors and
registrations: the count of a reader is the number of files that refer to it, plus
one while it is registered; a session has exactly one file; a number not yet
given out is fresh (`FreshInv`), which is what an open held up in the VFS relies on.

**Tsmf**, for every carrier that meets `CarriersAssumption`, and every loss of at most
`SlotNum` packets between headers: `SlotInv` says that the filter's slot plus what
was lost since the header is the true position, `FrameInv` that the packets
collected are those of the slots of the TS in the frame the header announced,
`CleanInv` that a frame without loss or damage is complete. `RejectsOnlyMpeg` is the
second half of `TlvSound`. Its first half needs what is in `tlv_buf` when a frame
begins (`TlvInv`): a chain of fragments, each the one sent after the one before it
(`Chain`), and no fragment sent between the last of them and the frame that begins
(`NoneUntil`), round the end of the carrier's cycle too. `Extraction` says the same
after each packet of the frame that is flushed; `ExtractedRight` goes from one packet to the
next (by `UpTo`: the numbers that steps of one reach, from the
well-foundedness of the naturals), and needs from `FrameInv` that the frame has every
owed slot: a fragment that was lost would otherwise be stepped over unnoticed.

**SmartCard**, for every number of retries, discard limit, length of commands and
responses, and any number of lost, damaged and late blocks and swaps. The argument
is that of an alternating bit. A queue is described by what is in it and what is
behind what (`Elems`, `Behind`), never by its length. `SessionInv` relates host and
card in a session: the card is at most one block ahead (`Taken`, `Sent`), and its
last block is the part of the response the host waits for or the one before.
`InboxInv` and `FifoInv` say that a queue holds at most two generations of blocks,
the older ones first, and that a block of the younger generation implies that the other
side has moved on: an old answer is thus never taken for a new one. `CardInv` says
that the block a card would take next continues the command it has; it holds outside a
session too, where blocks of a call that failed may still reach the card.
`OrderInv` is the order of RESYNCH and IFS while a session is set up.

**PtxTune**, for every workload that meets `WorkloadsAssumption`: any family,
channels, interleaving of users and number of accesses that fail, and a board that goes
away at any time. The calls of bridge, demodulator and tuner drivers are operators
that return sets of outcomes and are composed with `Then` and `Anyway`. Each is shown
to be in a relation between the board before and after, and the relations
compose: `Aside` (nothing the receivers share is touched: open, sleep, wake-up, every
access, switching the supply, the PX4 and ISDB2056 tunes), `Tunes` (of the shared parts at most the
receiver's own null packet filter), `Started` and `Stopped` (reception and its count),
`SetLnbRight` (the LNB), `Boots` and `Quiet` (bring-up). The actions are then shown
to keep `Inv` from these alone. `Inv` is needed for three reasons. The properties do not say that a
receiver that is closed, opening or leaving captures nothing (`ReceiversRight`), which is
what lets `CaptureRight` survive an open and a release. `LnbExact` speaks of probed
boards only, and a board must come to probing with no claims (`LnbKept`), its pin an
output that is low. `NullFilterRight` compares the bridge with what was asked for;
the code compares its record with what is asked for, so that `FilterRight` says both
that record and bridge agree unless a tune failed, and that the record is what was
last asked for. The board is a record with nineteen fields (`Device`), of which
the provers must see which an operator leaves alone.

`CableLeavesNothing` is about what is left behind in a chip. It has the one hypothesis
that the software reset of a CXD2856ER restores its registers (`SwResetClears`, TRUE in
the runs): an open relies on it, and without it the property is false. A program of
register writes is described by the registers it avoids and the value each of the others
ends with (`Avoids`, `Leaves`); one that fails stops anywhere (`ProgramWrites`).
`NoCableResidue` is not inductive, as it says nothing of a demodulator that is asleep or
in the middle of a wake-up. `CableInv` does: the demodulator of a receiver in use is
`Restorable` (asleep or active for a broadcast system with nothing of a cable system, or
active for a cable system with at most what that system's own sleep undoes) and, unless a
tune failed, `Settled` (a cable system that is awake has all its settings). Wake-up, reset
and sleep keep both (`Keeps`): this is where `cable_wakeup_incomplete` and the order of
`cxd2856er_sleep()` are needed. The rest says that nobody else interferes: calls that
leave given demodulators alone (`Spares`), a tune, which touches at most those of receivers
that are not open (`Retunes`), and the supply, which is switched only while `open_count`
is 0, so that `CableInv` also says that `open_count` is the number of receivers in use.

Only model-checked:

* `ReadsReturn`, `CallsEnd`, `Decides`, and that removal, disconnect and stop come to
  an end: liveness is out of the prover's reach;
* `TunedAsAsked` and `NeighboursMatched` of `PtxTune`. The first compares all registers
  of demodulator and tuner on four families of boards with what the broadcasting standards and
  the synthesisers' arithmetic ask for; the second the standby settings of every tuner of a board.
  The relations of `CableLeavesNothing` are about the demodulators' cable settings only.

## Not modelled

The table of components above and `PROJECT.json` list every part. `fwtool`, the
packaging scripts and the Windows helpers are input and output. Of the Windows
side only the T=1 host is modelled; its devices repeat the kernel modules'
structure with other synchronisation. Of the modelled parts the following is left
out:

* ring buffer and life cycle: `copy_to_user()` that fails (in the second part of a
  wrapped copy the first part is then lost, `ringbuffer.c:204`), the creation of device
  nodes; the early return of a read and the timed wake-up that flushes a slow TSMF
  stream (`ptx_chrdev.c:172`, `ptx_chrdev.c:1405`), by which a read returns earlier than
  `PtxStream` lets it; what a use of the freed cdev does, and an open held up in the
  VFS for so long that its numbers belong to another unit; streaming: failed
  submissions in the workqueue build (`itedtv_bus.c:480`);
* TSMF: damage to a packet that turns its PID into the one of a header or of a null
  packet (0x002f, 0x1fff);
* tuning: allocation failures, delays and the number of retries, C/N tables,
  `s_tuner_no_sleep`, receivers that do the same as one that is there (the second
  ISDB-T receiver of px4, the third to fifth of PX-MLT), tuning of px4 boards with a partner unit
  (`Px4Power` has their power), the ISDB2056N's second satellite demodulator, the
  RT720, the calibration of the R850, which every board switches off;
* bridge: sequence numbers and checksums of commands, which decide only whether
  one fails; a bridge that answers one command late for good is one that always
  fails. A firmware image with an empty block would make
  `it930x_load_firmware()` loop (`it930x.c:695`); the image comes with the package;
* card: the contents of ATR and APDUs, checksums.

Points noticed on the way that no document speaks about, so that no run judges
them: `cxd2856er.c:1656` masks after shifting and so loses the high bits of the
ISDB-S C/N; a refused stream id before a tune leaves `params.system` at ISDB-S
(`ptx_chrdev.c:374`); a partner's last close between `px4_mldev_add()` and
`available = 1` records the new unit as off while its board stays on until its next use,
since `px4_device.c:39` skips the lines (the comment at `px4_device.c:1377` is about the
same disagreement before the registration); the TS pins that ISDB2056 switches off are those of the system
tuned last (`isdb2056_device.c:774`).

## Plan

In order of importance; the components of the Linux driver above are done.

1. `CardServer` and `IfdHandler` on an abstract card session that `SmartCard` is
   shown to implement; `WinScard` contexts and handles.
2. The Windows driver: `RingBuffer` with purge, `ReceiverManager`,
   `DeviceManager`, the server threads and their shutdown, `IoQueue` and the
   BonDriver client.
3. Proofs: what the tuners' programs leave behind, with `ProgramWrites` of
   `PtxTuneProofs`, towards `NeighboursMatched` and the PX-MLT part of `TunedAsAsked`.
