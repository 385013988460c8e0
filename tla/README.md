# 99L communication board: TLA+ models, checks and proofs

The firmware in `src/` runs on the communication board of a rocket. It sits
between the ground (LoRa), the Mission board (CAN), a GNSS receiver and an SD
card. This directory models its control logic in TLA+, checks small instances
with TLC and proves the central results with TLAPS. Paths below are relative to
the repository; `CC` stands for `src/tasks/can_communication.rs`, `LT` for
`src/tasks/lora_task.rs`, `LB` for `src/tasks/lora_task_base.rs`.

## 1. Inventory

### Tasks and shared state

Core 1 runs a cooperative embassy executor with `can_communication_task` (the
CAN owner), `command_process_task`, `recovery_power_cache_task`,
`parse_gnss_task`, `gnss_time_response_task`, `lora_rx_task` and `lora_tx_task`.
Core 0 runs `gnss_manager_task`, `sd_write_task` and the LED loop
(`src/bin/main.rs`). Tasks on one core interleave at their `.await`s only; the
two cores share atomics, mutexes and bounded channels (`src/state.rs`).

| Component | State | Operations | Interacts with |
|---|---|---|---|
| Transaction tracker (`src/can/command.rs`) | `pending` slots, ring `results`, `next_result` | `register`, `apply_result` | command task and CAN owner, through `COMMAND_TRACKER` |
| Ground command path (`LB` `lora_rx_task`, `LT`, `CC`) | `UPLINK_COMMAND_CHANNEL`, `CAN_TX_CHANNEL`, `CAN_SAFETY_TX_CHANNEL`, the two result channels | dispatch of an uplink, `process_generic`, transmission, its failure, a CommandResult | tracker, Mission, LoRa transmitter |
| Mission event latch (`src/can/cache.rs`) | `event_flags_latched`, `event_revision`, `last_event_sequence` | `update`, `event_snapshot`, `clear_event_flags` | CAN owner latches, LoRa transmitter reports and clears |
| Recovery session and log relay (`src/can/recovery.rs`) | `RecoverySession`, `RecoveryAssembler`, `RECOVERY_BEACON_ACTIVE` | `start`, `apply_status`, `fail_matching`, `push`, `finish`, `abort`, `take_chunk` | command task, CAN owner, `RECOVERY_LORA_CHANNEL` |
| LoRa transmit scheduler (`src/lora_scheduler.rs`, `LB` `lora_tx_task`) | deadlines, retry, deferred and pending packet, fairness bit | selection, preemption, transmission, deadline advance | all packet queues |
| CAN runtime state and health (`CC`, `src/can/health.rs`) | `runtime_state`, error counters, `IS_CAN_ERROR`, `CAN_FALLBACK_HEALTH` | `transition_runtime`, `enter_recovering`, the `publish_*` functions | TWAI controller, periodic packets |
| Latest-value cache (`src/can/cache.rs`) | latest value and reception time per CAN id | `update`, `freshness` | CAN owner writes, LoRa transmitter reads |
| Ground time requests (`CC` `queue_ground_time_request`) | previous id, `GROUND_TIME_REQUEST` queue | queue, drop oldest | CAN owner, LoRa transmitter |
| Uplink frame parser (`src/lora_uplink.rs`) | `UplinkFrameBuffer` | `push`, `reset`, `decode_uplink` | LoRa receiver |
| Recovery power cache (`src/tasks/recovery_power_task.rs`) | snapshot of `power_time` | poll every 100 ms | cache entry `power_time`, which the CAN owner writes too; `RECOVERY_BEACON_ACTIVE` |
| GNSS (`src/tasks/gnss_task.rs`, `src/gnss/`) | `GNSS_TELEMETRY`, the time atomics, `is_on`, `GNSS_CMD_CHANNEL`, `GNSS_CHANNEL` | switching, configuration, reading lines, parsing, growing stale, time response | command task and CAN owner (orders), `CAN_TX_CHANNEL`, telemetry |
| SD logger (`src/tasks/sd_task.rs`) | two files, a buffer each, `LOGGING_REQUESTED`, `SD_HAS_ERROR`, `LOGGING_ACTIVE`, `HAS_UNFLUSHED_DATA` | open, gather, write, flush | CAN owner (`RAW_CAN_LOG_CHANNEL`), command task (start, stop) |
| Packet codecs (`src/can/protocol.rs`, `src/payload.rs`) | none | encode, decode | everything |

### What is hard

* a mutex guard held across a channel `send().await`, and the reader of that
  channel waiting for the mutex;
* a transmission that times out (`CanTxError::TimedOutUnknownState`): the frame
  may or may not have reached Mission, `Failed` is cached and late answers follow;
* the ground repeats uplinks, reuses transaction ids, sends stops in between;
* events, statuses and fragments that are repeated, lost, or belong to an older
  transfer; a LoRa queue that is full when a chunk is complete;
* a packet built from a snapshot and sent, or preempted, much later;
* four queues and a deadline competing for a radio that can be busy for longer
  than the deadline's interval;
* state that is published only at the end of a pass of the CAN owner and read by
  another task at any time;
* a receiver that is switched off on one core while its last sentence is parsed on
  the other; a command task that waits for a manager that waits for the receiver;
* a card that fails in the middle of a write, a loss of power between a write and
  a flush, a request that changes between the three places of a pass that read it;
* a header byte that is not escaped, in noise, in refused frames and in commands;
* a cached value whose time of reception is renewed, so that it no longer tells its
  age, and a flag that changes twice between two polls.

`PROJECT.json` lists these hazards at the lines where they bite.

### What makes each component correct

* Tracker: an id is executed at most once while it is remembered; a final answer
  stands; the two tables agree; no slot leaks.
* Command path: every open command is somewhere; nothing goes on the bus twice;
  stops overtake and arrive; every command is concluded.
* Event latch: no raised flag is cleared before a confirmed packet reported it;
  a repeated frame raises nothing.
* Recovery: chunks are what their offsets say; `Completed` means the whole range;
  final reports stand; the session ends; resume offsets are safe.
* Transmit scheduler: priority, the deadline grid, no loss, no starvation.
* Link health: one restart per disturbance, nothing better shown than is known,
  a bus-off is recovered from.
* Uplink: a command is found exactly when its frame is in the stream; damage is
  refused.
* SD logger: every accepted row is in the file once and in order, or an error is
  shown; what was flushed stays; a stop is flushed.
* GNSS: the last order wins; no position or time outlives its source; nobody waits
  for a silent receiver for ever.
* Recovery power: a beacon shows only what Mission sent in this recovery, and not
  for longer than it is fresh. Time requests: the newest one gets through.

## 2. Plan

| Step | Module | State |
|---|---|---|
| 1 | `TransactionTracker`, abstract `CommandLedger`; their proofs are in `CommandPathProofs` | done |
| 2 | `CommandPath` (extends `TransactionTracker`), `MCCommandPath` | done |
| 3 | `EventRelay`; its proofs are in `CanClientsProofs` | done |
| 4 | `RecoveryRelay`, `MCRecoveryRelay` | done |
| 5 | `LoraTx`, `MCLoraTx` | done |
| 6 | `MissionLink`, `MissionLinkProofs` | done |
| 7 | `FrameBuffer`, `UplinkFrame`, `MCUplinkFrame`; `TimeRelay` | done |
| 8 | `GnssReceiver`; `RecoveryPower`; `CanClients` composes `RecoveryPower` and `TimeRelay` | done |
| 9 | `SdLogger` | done |
| 10 | `CanClientsProofs` (with `RecoveryPower`, `TimeRelay`, `EventRelay`), `SdLoggerProofs`, the shown state in `MissionLinkProofs` | done |
| 11 | `CommandPathProofs` (with `TransactionTracker`), `LoraTxProofs`, `RecoveryRelayProofs` | done |
| 12 | `RecoveryRelayProofs` without losses (`ChunkIsFile`, `CompletedMeansAll`) | done |
| 13 | `GnssReceiverProofs`, `FrameBufferProofs` | done |
| 14 | `LogTransfer`, the abstract log transfer that `RecoveryRelay` implements, with the proof in `RecoveryRelayProofs`; the proof of `OneByteOffIsRefused` | done |

`FrameBuffer` takes the decoder as a constant operator, so that what it promises can
be proved for every decoder. `UplinkFrame` gives it the real one and takes exclusive or
in the same way; `MCUplinkFrame` gives TLC the exclusive or of numbers.

## 3. The modules and the code

In all modules an action is what a task does between two suspension points; the
variables keep the names of the code, and `PROJECT.json` maps every definition to
its lines.

**`TransactionTracker`** has the three fields of the struct as variables and one
action per value `register` and `apply_result` return. `RegisterForward` is the
only one to take a slot, `ApplyMatched` the only one to write the ring, with the
slot chosen as `find`/`position` choose it. The `u8` ids, command codes and
arguments are arbitrary sets. **`CommandLedger`** is what the table promises: a
set of open requests and a set of remembered answers.

**`CommandPath`** extends the tracker with the tasks around it. A suspended task
is a variable: `rxBlocked` (LoRa receiver waiting for the safety channel),
`sending` (command task waiting for the CAN queue), `owner` (CAN owner at its
select, transmitting, or waiting for the tracker's lock). The lock is held exactly
while `sending` is a generic request, because the guard is a temporary of the
`match` in `process_generic` and lives until its end. `SelectTransmit` and
`ReceiverServed` follow the polling order of `select3`/`select`: safety queue, CAN
queue, receiver. `TransmitError` covers a refused frame, a bus-off and a timeout,
in which the frame may have been delivered. Mission is external: it holds the
messages delivered to it and answers each with `Accepted` any number of times and
a final phase once. `forgotten` is a history variable: the ids that have
been in the table and fell out of its ring since.

**`EventRelay`** has the latch fields of `CanCache`, the periodic packet the
transmitter works on (`envelope`, a snapshot) and Mission's latest event, which
may be lost or repeated. `unreported`, `fresh` and `arrivals` are history variables.
It assumes that fewer than `SequenceModulus` events are lost in a row and fewer
than `RevisionModulus` arrive while one packet is sent (256 and 2^32 in the code).

**`RecoveryRelay`** has the session, the assembler, the recovery part of
`process_local` and the CAN owner's handling of `RecoveryControl`,
`RecoveryStatus` and `RecoveryLogData`. A byte of a dumped file is its position in
it, so a wrong, missing or doubled byte shows. Every command has an id of its own.
Mission loses fewer than `SequenceModulus` fragments in a row (256 in the code, whose
sequence is a `u8`); `lost` in `dump` counts them.

**`LogTransfer`** is what the relay promises the ground, without fragments, statuses,
CAN queues or the assembler: one dump is served at a time; its chunks are queued while it
is served, each beginning where the one before it ended, full except for the last; nothing
follows a last chunk or the end of the command. The relay maps to it (`Transfer`): served
is the dump whose command is open, it is ended when the assembler has closed, and the
outbox is `RECOVERY_LORA_CHANNEL`. Commands other than dumps, statuses, refusals and all
that happens on the CAN bus end a dump or are no step at all.

**`LoraTx`** is the loop of `lora_tx_task`: top of the loop, select, preparation
(waiting for the radio), transmission. Deadlines are kept relative to now, so that
time needs no bound. Packets are numbered per queue to state that none is lost or
overtaken.

**`MissionLink`** has the loop of the CAN owner as far as it concerns the driver,
the counters and what is published, the age of the cached MissionStatus, and the
function `PeriodicPacket` that stands for what `periodic_packet` would send at this
moment. The TWAI controller is external: on the bus, held off it, or restarted and
waiting for an idle bus.

**`FrameBuffer`** is `UplinkFrameBuffer`: `push` as the three things a byte can do
(be skipped, be gathered, complete a frame) and `reset`. Of the array it keeps the
`length` bytes the code reads. `recent`, the last bytes of the stream since the last
command or reset, is a history variable and the reference the buffer is compared
with: `InStep` says what the buffer is, as a function of the stream, and
`FindsFrameAlways` that it finds what a search of the whole stream would find.
**`UplinkFrame`** adds `decode_uplink`: checksum, kind, reserved id, and the fields
each kind asks for. The checksum is the loop of `xor_checksum`, a recursive function
over the bytes; of exclusive or itself only `XorAssumption` is known, which TLC
evaluates for the real one. How many milliseconds the argument bytes of a time response
say is the constant `Milliseconds`; TLC takes the one argument byte of its frames for it.

**`SdLogger`** is `sd_write_task` with the opening of the two files and the places of
a pass at which core 1 may come between (`wait`, `check`, `flushRoll`, `end`). A row
is a number, so a missing or doubled row shows. The card is external: a write may
fail after any of its rows, and a loss of power keeps what was flushed and any part
of what was written behind it. Nothing but a restart clears `SD_HAS_ERROR`.

**`GnssReceiver`** has `gnss_manager_task` (core 0) with a step per store or lock that
core 1 can observe, `parse_gnss_task` with the sentence it holds between its two
looks at the state, `gnss_time_response_task`, and the two tasks that send orders.
Ages stand for times, and time passes only when no task can go on. The receiver's
configuration is a number of acknowledgements, each of which may fail or not come.

**`RecoveryPower`** is `recovery_power_cache_task`, whose pass is one step because
everything it shares lives on its core and no lock is held across an await. A value
carries, for the properties, how long ago Mission sent it and whether that was
before this recovery. **`TimeRelay`** is `queue_ground_time_request`.
**`CanClients`** runs the two side by side: both live off what the CAN owner
receives, and neither touches the other's state.

## 4. The runs

Runs marked V are expected to violate their property; section 6 explains them.

| Run | Instance | What it shows |
|---|---|---|
| `tracker` | 3 ids, 2 commands, 2 slots, ring of 2 | the tables stay consistent, the table refines the ledger |
| `path` | 3 ids, one with two commands, a stop and a time response; 2 slots, a ring of 1; every queue of length 1; 3 uplinks | no slot leaks, no second copy on the bus as long as the board remembers the command, stops overtake, and only the circular wait can hold up stops and commands |
| `path_stall` V | the same with 3 slots, 4 uplinks, no time responses | `StopIsTransmitted` fails |
| `events` | 3 flags, one not relayed; both counters modulo 3 | no event is lost, repetitions are quiet, both counters wrap |
| `recovery_lossless` | file of 5, fragments of 2, chunks of 3; 2 commands of five kinds | chunks are the file and `Completed` means all (`DumpIsWhole`), sessions end |
| `recovery_lossy` | file of 5, sequence modulo 2, lost frames, full queues, unrepresentable offsets; 3 commands | chunks have no holes, the assembler is in step, a resume offset repeats nothing and skips less than two chunks, final reports stand, the relay refines the log transfer (`RefinesTransfer`) |
| `loratx` | interval 2, gap 1, transmissions up to 3 ticks; two command results and an emergency result, endless chunks and roll signals; packets that cannot be built | grid, slot accounting, fairness, priority, order; no answer is lost, a chunk only in the one case of section 6; no starvation |
| `link` | fresh 2, health tick 2, timeout 2 ticks, one drained request | one restart, an earned "no error", bus-off is shown, and is left unless it meets a restart or a failed transmission |
| `uplink` | bytes of 3 bits, frames of 6 bytes with one argument | exactly the frames of the stream are found, no frame is one byte from another |
| `sd` | buffers of 2 rows, queue of 1, 3 rows, 2 faults, 1 loss of power | complete files or a shown error, bounded loss, honest flags, one header, stops and silence are flushed |
| `gnss` | queues of 1, stale after 1 tick, ticker every 2, 2 acknowledgements | the last order wins, positions and times end with their source, no old sentence is used, orders, starts and requests come to an end |
| `clients` | freshness of 4 passes (3 for the beacon); queue of 3, 3 ids | honest beacons that show Mission's latest value until it is too old, a clean cache after recovery, the newest request is never lost |

Where several invariants of a module belong together the run checks their
conjunction, whose parts are defined next to it:

| Invariant | Parts |
|---|---|
| `TrackerInv` | `TypeOK`, `IdsUnique`, `AnswerMatchesRequest`, `TablesAgree`, `FinalIffClosed`, `RingFilledInOrder` |
| `PathInv` | `PathTypeOK`, `OpenIsSomewhere`, `OnBoardIsOpen`, `OnBoardOnce` |
| `RelayInv` | `TypeOK`, `AssemblerInStep`, `ChunkIsContiguous` |
| `DumpIsWhole` | `ChunkIsFile`, `CompletedMeansAll` |
| `SchedulerInv` | `TypeOK`, `OnGrid`, `SlotsAccounted`, `DisplacedOnce`, `NothingLost` |
| `LinkInv` | `TypeOK`, `NoErrorIsEarned`, `OffTheBusIsShown` |
| `FrameInv` | `TypeOK`, `InStep` |
| `LoggerInv` | `TypeOK`, `LogIsComplete`, `HeaderFirst` |
| `ReceiverInv` | `TypeOK`, `LastCommandWins`, `PositionIsLive`, `OffEndsTime` |
| `PowerInv` | `PowerTypeOK`, `BeaconIsHonest`, `BeaconIsFed`, `CacheIsMissions`, `NothingFromBefore` |
| `RequestInv` | `NewestIsKept`, `NoRepetition` |

**Bounds and why they are enough.** Slots, rings and queues are of length 1 to 3
instead of 8 and 16, so that full, wrapping and evicting tables are reached within
a few steps; nothing in the code depends on the numbers except the ratio of open
slots to queue places, and both instances of `CommandPath` keep it so that a full
queue with a further command waiting is reached. File, fragment and chunk sizes
(5, 2, 3) put fragment ends inside chunks and the end of the file inside a
fragment, and the fragment sequence wraps at 4 and, with losses, at 2. The bytes of `uplink` keep the five
kinds, two unknown ones, a header that is also a valid kind's neighbour, id and
argument, and both a deprecated command and an unknown time source. `sd` has room
for a full buffer, an overflow and a second fault while the first is shown; `gnss`
for a command that waits behind a full queue while the manager configures, and orders
follow one another without a pause; its ticker is rarer than the stale timeout (every
second against 3 s in the code), so that a request meets a time that is already too old
but not yet withdrawn, as it does in the code between two turns. A
transmission in `LoraTx` may last longer than the interval, so slots are skipped. `MaxUplinks`, `MaxGnssTimes`,
`MaxCommands` and `Supply` end the behaviours: deadlock is not checked where they
do (`path`, `path_stall` and the recovery runs stop when the ground has nothing more
to send); all other runs check it. `sd` stops adding rows at `MaxRows`, but frames
that are not logged, starts and stops go on.

**Fairness.** Weak fairness of each task's steps: the executor polls every woken
task, a CAN transmission ends within `CAN_TX_TIMEOUT_MS`, and every wait for the
radio has a timeout (`LORA_AUX_TIMEOUT_MS` and the guard's limit). That Mission
finishes what it was given (`CommandPath`), goes on with a dump (`RecoveryRelay`)
and that a restarted controller finds the bus idle (`MissionLink`) is assumed of
the outside. Nothing is assumed of the ground. Time passes: in `LoraTx` `Tick` is
strongly fair, because steps of the task that take no time disable it for a moment
again and again; in `GnssReceiver` `[]<><<Tick>>_vars` stands for
the fairness of all tasks at once, since time passes only when none of them can go
on. `GnssReceiver` adds strong fairness of two steps that depend on room in a queue:
`SendOrder`, whose only competitors for a place in `GNSS_CMD_CHANNEL` are
StartSequences that come through the waiting command task itself, and `Respond`, as
the bus takes frames again and again. `SdLogger` needs weak fairness of its task and
of the second half of `StopLogging`.

## 5. The proofs

TLAPS checks these for every value of the constants that meets the named `ASSUME`s.
The assumptions say what the code fixes or the model needs to tell values apart: that
capacities, intervals and times are numbers (and positive where the code's constant
is), that the kinds of messages are disjoint, that `None`, `Nothing`, `NoId` and a
header are not values of the data they stand beside, that a decoder returns a command
or an error, and that exclusive or stays within a byte and gives another byte for another
operand. Nothing is assumed of the behaviour.

| Module | Theorem | States |
|---|---|---|
| `CommandPathProofs` | `TrackerInvariant`, `TrackerFinalAnswerStands`, `TrackerRefinesLedger` | `TrackerInv`, `FinalAnswerStandsAlways`, `RefinesLedger` |
| | `CommandsAreTracked`, `StopsComeFirst`, `PathUsesTheTracker`, `PathKeepsTheLedger` | `PathInv`, `StopsOvertakeAlways`, the path refines the tracker, hence the ledger |
| `RecoveryRelayProofs` | `RelayIsWhole`, `ResumeIsSafe`, `FinalReportsStand` | `RelayInv`, `ResumeSkipsLittle`, `FinalReportStandsAlways` |
| | `ChunksAreTheFile`, `CompletedIsAll` and both together in `DumpsAreWhole`, where no frame is lost (`~ Lossy`) | `DumpIsWhole` |
| | `RelayKeepsThePromise`, with or without losses | `RefinesTransfer` |
| `LoraTxProofs` | `SlotsAndAnswersAddUp`, `TakenPacketsAreAttempted`, `HighestGoesFirst` | `SchedulerInv`, `HandedOnAlways`, `HighestFirstAlways` |
| `MissionLinkProofs` | `RestartsAreSeparated`, `LinkIsShown`, `HeldOnlyInTrouble` | `OneRestart`, `LinkInv`, `HeldInTroubleOnly` |
| `SdLoggerProofs` | `LogIsKept`, `AtMostABufferIsLost`, `WhatIsShownIsTrue`, `FlushedRowsStay` | `LoggerInv`, `LossIsBounded`, `ShownIsTrue`, `FlushedStaysAlways` |
| `CanClientsProofs` | `NewestRequestIsKept`, `PowerIsHonest`, `LatestPowerIsShown` | `RequestInv`, `PowerInv`, `LatestIsShown` |
| | `EventsAreNotLost`, `RepetitionsAreQuiet` | `NoEventLost`, `RepetitionIsQuietAlways` |
| `GnssReceiverProofs` | `ReceiverFollowsOrders`, `LateSentencesAreQuiet` | `ReceiverInv`, `LateIsQuietAlways` |
| `FrameBufferProofs` | `BufferIsInStep`, `FramesAreFound` | `FrameInv`, `FindsFrameAlways` |
| | `OneByteIsRefused`, `DecoderIsTotal` | `OneByteOffIsRefused`; the decoder returns what the buffer assumes |

The properties are seldom inductive. What each proof adds, and why:

**`CommandPathProofs`, the table**, for any number of slots, ring length, ids and commands.
An answer is stored for the request `find` meets first, so uniqueness of ids, agreement
of the two tables, answers matching their requests and finality are needed together:
`TrackerInv` is their conjunction and inductive. The refinement goes action by action:
`RegisterForward` is `Open`, `ApplyMatched` is `Answer` (with the overwritten ring entry
as the one forgotten), everything else stutters.

**`CommandPathProofs`, the way**, for every length of the channels. `PathIInv` adds two facts
about what is outside the board. A command that has not left the board has no answer
under way (`NoAnswerAhead`): otherwise the answer would close it while its frame is
still queued, and it would be on its way without being open. This in turn needs that
Mission never holds a command the table no longer knows (`AnswersAreKnown`), except
those that fell out of it (`forgotten`). Every step then either moves a message along
the way, or is a step of the tracker on one id; `PathUsesTheTracker` says so for the
whole system, and the tracker's theorems carry over.

**`RecoveryRelayProofs`**, for every size of files, fragments, chunks and queues, every
wrap of the sequence, with or without losses. That a chunk has no hole is a fact about
the frames that are still to come, so `RelayIInv` describes the whole stream:

* `Stream`: from the last byte assembled, and from every fragment received but not yet
  taken, the next fragment, or else the next one Mission sends, is ahead in the file and
  in sequence by the same number of lost fragments, which is less than the modulus.
  Hence equal sequences mean neighbours in the file (`FragmentFits`).
* `Waiting` and `Ordered`: a dump that is only asked for has no fragment on its way, and
  the controls stay in the order of their ids. So a new transfer starts without
  remains of an older one, also after stops, timeouts and lost queues.
* `Results`: the assembler stands at the end of the queued chunks also after the last
  chunk, until its command is finished (`InStep`); the open command has no final
  report; and once a resume offset is offered the assembler of that transfer is idle, so
  the offer stays true (`OfferStands`).
* `Whole`: what is assembled and what is queued is contiguous.

`FinalReportsStand` follows because every report is either about the open command or
about a new id.

`ChunksAreTheFile` and `CompletedIsAll` assume `~ Lossy`, that is, that the bus loses
nothing and a full receive buffer holds Mission up; everything else stays as it was
(stops, timeouts, refused chunks, a Mission that enters recovery). `LosslessIInv` adds to
`RelayIInv` what is on its way:

* `Arriving`: behind every fragment come the next bytes of the same transfer, and its
  Complete only when the last one has come.
* `Fed`: an active assembler gets the bytes it needs next, and has the size of the file
  or will receive it before them.
* `Asked`, `Targets`: a dump that has not reached Mission asks for what the assembler was
  set up for.
* `Placed`: the bytes assembled and queued are at their place in the file.
* `Done`: the open dump is still being assembled, or was queued to its end. So the
  Complete that finishes it finds nothing missing.

Both would be false with losses: the assembler takes any first sequence, so fragments
lost at the very start displace the bytes of the first chunk, and `finish` does not
compare with the size, so those lost at the very end are not missed (section 6).

`RelayKeepsThePromise` is the refinement of `LogTransfer`, with or without losses. A start
is `Start`, every other command `Other`, a queued chunk `Deliver`, whatever closes the
session while a dump is open `End`, a chunk taken by the transmitter `Send`, the rest
stutters. What needs an invariant is `Deliver`: the chunk belongs to the dump whose
command is open. The assembler does not know the session, and a status of Mission that
ends the command leaves it open (`Aborted`, `IoError`, ...), so it may be open for a
command that is over. `ServingInv`, on top of `RelayIInv`, says why nothing is queued
then:

* `Served`: an open assembler belongs to the open dump, or the transfer is silent: no
  control, dump, fragment or Complete of it is on its way.
* `Closed`: behind Mission's last word about a dump, wherever it is among the received
  frames, the transfer is silent.
* `Heard`: every frame belongs to a command that was issued, so a new id is in none.

That a chunk begins where the last one ended is `InStep`, that only the last one is not
full a fact about `push` (`PushedIsWell`).

**`LoraTxProofs`**, for every interval, gap, length of transmission and supply. To
`OnGrid` and the accounting of slots the invariant adds how late a deadline and a retry
can be (`Lateness`), when a deferred packet may be a chunk (`DeferredChunk`), what a
chunk that cost a slot entails (`OwedRetry`), and that the numbers of the answer in
hand are the next after those attempted (`AnswersHeld`), which the order and the absence
of losses follow from.

**`MissionLinkProofs`**, for all times and thresholds. `RestartInv`: after a restart the
runtime state is one from which none is required. For what is shown, `ShownInv`
relates every age to the ticker: the owner publishes at least every `HealthInterval`
plus the time `HoldUp` that the transmissions of one pass can take, so a status older
than `Fresh + Silence` or a bus-off of that age has been seen by a publication
(`PublishedInv`, `NoticedInv`).

**`SdLoggerProofs`**, for every size of buffer and queue and any number of failures. The
invariant is a predicate on one file (`FileOK`), and every step one of six things that
can happen to a file. It adds that without an error a file whose buffer is empty is
flushed to its end, and that rows are buffered only for a file that has its header.
Restarts and failed writes that leave a part of a buffer in the file keep it.

**`CanClientsProofs`, power and time**, for every freshness, queue and set of ids. The power cache needs
to know who wrote the entry: what Mission sent is as old as its reception, what the task
wrote is renewed at each pass and as old as its snapshot (`MissionsOwnInv`,
`TasksOwnInv`, `SnapshotInv`), and what is left of an earlier recovery is only there
if the task missed its end (`PriorInv`). For `LatestIsShown` it adds where the latest
value of Mission is: in the cache, if what is there is not the task's own, else as long
as it is fresh in the task's snapshot (`HeardInv`).

**`CanClientsProofs`, the events**, for every set of flags and every modulus above 1. The invariant
adds `SequenceLag` (the last sequence the board latched is behind Mission's by the
number of lost events, modulo the modulus) and `RevisionLead` (the revision is ahead of
the packet's snapshot by the number of arrivals): together with arithmetic about the
wrap they show that an unequal event is not taken for a repetition and a changed latch
not for an unchanged one.

**`GnssReceiverProofs`**, for every queue, limit and period. `ReceiverIInv` says what
each stage of the manager implies about its flag, the state and the last order
(`StageAgrees`, `OrderFollowed`), and bounds every age by what is left until the next
turn of the ticker (`InTime`). What the parser may still do to a receiver that was
switched meanwhile is limited by time: none passes while it holds a sentence. So an old
sentence meets a state that keeps it off (`OldIsSilent`), and a time published after the
switching off was received in that very tick (`LateInTick`).

**`FrameBufferProofs`**, for every alphabet, length and decoder that returns a command or
an error. `FrameInv` is inductive as it stands; the proof is about sequences: the first
header stays the first when a byte is added, when the oldest one is forgotten (unless it
is that header) and when a refused frame is searched. A full buffer therefore holds
exactly the last N bytes, which is what `FindsFrame` asks of it.

`OneByteOffIsRefused` is about data: the command in `result` was decoded from some frame
(`Produced`), and the rest is a fact about the decoder. Encoding the command gives that
frame back, byte for byte (`EncodeInvertsDecode`), and two frames that differ in one byte
cannot both carry their checksum (`NoiseBreaksChecksum`): the checksums of the first 0,
1, 2, ... bytes agree up to that byte and differ from it on. Both the existence of these
sums and the two statements about them hold for every number of bytes because there is
no least number for which they fail (`LeastNumber`).

**Only model-checked**: liveness, because fairness is out of the prover's reach. Every
invariant, action property and refinement that a run checks is also a theorem.

## 6. Where the code departs from its documents

* **`path_stall`**: `process_generic` waits for room in `CAN_TX_CHANNEL` with the
  tracker locked. The CAN owner, its only reader, waits for the same lock after a
  failed transmission of a generic request and for every CommandResult it receives.
  With the queue full neither ever goes on, and stops are not transmitted any more.
  The run `path` shows that this is the only way a stop or a command is held up.

What follows departs from a document, or may surprise, and has no violating run; the
named property states what is left of the promise, and holds.

* A resume offset is not always a confirmed one (README.md:80,
  "確認できたresume offset"): after a gap it lies behind the bytes of the chunk that
  was being filled, and after a full LoRa queue behind the refused chunk too, because
  the assembler has moved on (`CC`:359). `ResumeSkipsLittle` bounds what is skipped;
  an InternalError with offset 0 is not looked at, because Mission's own carries none.
* A deferred chunk that is held back for a periodic packet is overwritten when an
  answer is deferred as well (`LB`:1305), although the comment above says that a
  deferred packet is not lost. `HandedOnAlways` says that nothing else is.
* A bus-off after a timed-out transmission, or after a restart before any frame got
  through, asks for no restart (`CC`:173), and nobody asks later. The model assumes
  that the TWAI controller stays off the bus until it is restarted.
  `HeldInTroubleOnly` says that no other bus-off stays.
* In recovery a PowerTime that Mission sends between the RecoveryModeCommand and the
  task's next poll is overwritten by "unavailable"; one that arrives in the
  millisecond of a poll is taken for the task's own (`LatestIsShown` does not speak of
  these two, but says that they cost no other value); and a beacon that is left and entered between two polls
  brings the snapshot of the earlier recovery back (the exception of
  `NothingFromBefore`).
* An RMC the parser holds while the receiver is switched off still publishes a time,
  for at most the stale timeout and a turn of the ticker (`OffEndsTime`).
* README.md:119 says that TimeRequests are answered by the ground only;
  `gnss_time_response_task` answers them too when it has a time.
* A TimeRequest that repeats the previous id is suppressed for ever, also when the
  answer got lost: Mission has to draw a new id.
* Frames still in `RAW_CAN_LOG_CHANNEL` when logging is stopped are not logged: a row
  is accepted when the task takes the frame.
* After a failed write at an overflow the buffer is emptied, after one at a flush it
  is kept and may be written twice; `LogIsComplete` therefore ends with the first
  error and `LossIsBounded` takes over.
* A command is executed at most once only while the table remembers it: an answer
  takes the oldest place of the ring, and an id whose answer is gone is a new command
  when the ground repeats it, also while a copy of it is still on its way.
  `OnBoardOnce` excepts these ids (`forgotten`).
* process_local reports `Accepted` after it has waited for room in `CAN_TX_CHANNEL`
  (`LT`:239), when the CAN owner may already have reported the command failed (ProtocolError),
  because a fragment of an earlier transfer arrived: the ground then sees the final
  report replaced by `Accepted`. It is the exception `LateAcceptance` of
  `FinalReportStands`, which says that there is no other.
* The `u8` sequence of the fragments tells a gap only if fewer than 256 fragments in a
  row are lost; after exactly 256 the next one is joined as if nothing was missing.
* An `Accepted` answer takes a slot of the tracker's ring, so with many open commands
  fewer than 16 final answers are replayed.
* `RecoveryAssembler` accepts any first sequence and `finish` does not compare with
  the total size, so fragments lost at the very start or end of a dump go unnoticed
  (`ChunkIsFile` and `CompletedMeansAll` are therefore stated without losses).

## 7. What is not modelled

Repeated local commands (each recovery command has an id of its own). The text of
NMEA sentences and of UBX acknowledgements, the calendar and the encoding of
positions: pure conversions whose outcomes are inputs of `GnssReceiver`. Bit layouts
of CAN and LoRa packets, which the repository tests with vectors; no state depends
on them. The latest values of the CAN cache that are only overwritten and read. The
text of a CSV row. LoRa timing statistics and `CanObservedStats`, which are printed
and influence nothing. Start-up, except that it puts the tasks on their cores and
sends the first `TurnOn`. `LoraTx` has a constant interval (the code switches between
250 ms, 500 ms and 10 s) and no end of time (2^64 µs); `GnssReceiver` does not reach
the wrap of its 32-bit milliseconds after 49 days.
