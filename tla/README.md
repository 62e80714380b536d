# Formal models of stm32template

This directory holds TLA+ models of the code in this repository, the TLC configurations that
check them on small instances, and theorems about them that TLAPS proves for all values of
the constants. `PROJECT.json` lists components, runs, mutants, hazards and theorems, and maps
every definition to the lines of code it stands for.

Contents: [the system](#1-the-system), [the modules](#2-modules-and-their-code),
[the runs](#3-what-the-runs-check), [disagreements](#4-where-the-code-and-its-documents-disagree),
[the proofs](#5-what-is-proved), [what is only checked or not modelled](#6-what-is-only-model-checked-and-what-is-not-modelled),
[the plan](#7-plan).

## 1. The system

The repository is firmware for an STM32F4 under FreeRTOS, in C++, with a few host programs.
`vfd_bench` lets a host control variable frequency drives (VFDs) on a Modbus line;
`loopback` measures the throughput of the same building blocks. Everything of interest is
built from tasks that exchange bytes and packets through FreeRTOS stream and message
buffers, and from interrupt handlers that notify tasks. All buffers and tasks are allocated
statically. In `vfd_bench` the pieces are connected like this:

    host --USB--> UsbTask rx --bytes--> PacketIntake --packets--> DispatcherTask --commands--> VfdTask
                                                                                                  |
    host <--USB-- UsbTask tx <--packets-- PacketOutput <--packets-- VfdTask, Watchdog, ...     ModbusDriver
                                                                                                  |
                        drives, or FakeVfdTask <--UART half duplex-- UartTasks tx / rx -----------+

### Components

| component | state | operations | hard behaviour | what makes it correct |
|---|---|---|---|---|
| **packet parser** `packet_utils.cpp` `extractPackets`, `PacketIntake` in `packet_flow_tasks.*` | read buffer and the leftover in it, `skippedBytes`, `lastSeqNum` | read more bytes, scan; hand over a packet, report and skip a byte | packets split over reads, damage whose claimed length covers good packets, wrap of sequence numbers | no good packet lost, order kept, every byte accounted for, same result however the reads fall, always room for the next read |
| **UART receive** `uart_tasks.cpp` `rxFunc`, `dmaRxCallback`, `uartCallback` | circular DMA buffer, DMA index, interrupt flags, the notification value, `oldIdx`, `lostBuffers`, stream buffer | DMA writes a byte, interrupts notify, task copies what is new | interrupts come late and coalesce, the index is read after the notification was cleared, the DMA may lap the task | all bytes in order and none forgotten while the task keeps up; loss is noticed otherwise |
| **UART transmit** `uart_tasks.cpp` `txFunc` | transmit buffer, DMA stream, direction of the half-duplex line | take messages, start DMA, wait for the interrupt, turn round | the buffer is free before the last bytes left the UART; two kinds of transmit-complete; an answer that comes before the line is turned | every byte sent once; the line listens again |
| **coupling** `packet_flow_tasks.cpp` `Coupling` | the chunk being copied | copy bytes from one stream to another | partial writes | every byte passed on |
| **watchdog** `watchdog_task.*` | event group of one bit per task, `numTasks`, `lastKickTick` | register, kick, wait for all bits, report | registration and kicks preempted half-way, bits left over from a wait that timed out, reports that block | a stalled task is reported in time, no other task is, the figures are right |
| **VFD control** `vfd_task.cpp` | `setFrequency`, `lastFrequency`, `focus`, the request under way | take host commands, poll addresses in turn, write a set point or read the status, retry | lost or late acknowledgements, broadcast against single set points, a drive that never answers | every drive ends up at the frequency last asked for; a set point counts as written only if it is |
| **Modbus driver** `modbus_driver.cpp`, **Modbus packets and CRC** `modbus_defs.*`, `software_crc.*` | input buffer, the request | flush, send, compare the echo, parse a response or an exception, time out | late and damaged frames, frames cut by reads, requests into an unfinished exchange | an answer is taken only for its own request |
| **simulated drive** `fake_vfd_task.cpp` | input buffer, scan index, frequencies | recognise requests in a byte stream, echo, answer after a delay | damaged requests, requests that queue up behind a delayed answer | every request found once and in order; damage costs a request, not those behind it |
| **packet output** `packet_flow_tasks.*` `PacketOutput` | writer mutex, message buffer, `num` | `write` of any task, number and forward | several writers with two time-outs each, packets dropped between checks | accepted packets arrive once and in order, and their numbers show what is missing |
| **USB task** `usb_task.*` | transmit and receive buffers, transfer in progress, `rxReceivedTotal` | pack messages, start a transfer, complete it, receive, configure | callbacks in interrupts, transfers that end short, a transfer to a host that is not there, a full receive buffer, a new configuration in the middle | nothing packed into a buffer that is being sent; nobody waits for ever |
| **dispatcher** `dispatcher_task.cpp` | the packet in hand | hand a packet to the task it is for | full buffers behind it | commands reach the VFD task in order |
| **host applications** `host_apps/` | packets to send, counters, selected drive | send on a key or a clock, read what came back | a port that takes part of a packet, losses that look like delays | counters agree with what happened; drives do what was typed |
| **ITM logger** `itm_logger_task.*`, `itm_logging.*`, `packet_logger.*` | two mutexes, message buffer, trace port | log from tasks, stop on errors | a line and an error at once; a logger of the lowest priority that holds the port | lines whole, in order, nobody waits for ever |
| **start-up and wiring**: generated code and `main.cpp` of the two projects, **interrupt callbacks** `isr_callbacks.*`, `dma_reg.h` | interrupt controller, peripherals, tables of callbacks | initialise, construct, register, dispatch | interrupts before their callback is there, flags that reset leaves set, waiting while interrupts are masked | no path to an error trap; no resource used twice |
| **packet layout** `packets.h` | none | lengths of packets | three sources of lengths | senders, parser and buffers agree |
| **task utilities, RTOS wrappers** `task_utilities.h`, `static_rtos.h`, `interfaces.h` | static buffers | write with retries, read all, scoped lock | partial writes and time-outs | what is written arrives |
| **throughput tasks**, **error traps and profiling** | counters at most | – | – | – |

FreeRTOS, the STM32 HAL and the USB device library are vendored or external. Where a model
needs one of them (event group, message and stream buffer, mutex, notification, end of a USB
transfer), it has the behaviour that the calls in this code rely on, and `PROJECT.json` marks
that definition external.

### Which behaviours are hard

The hazards are listed line by line in `PROJECT.json` with the properties that cover them.
They fall into six groups, and these decided what is modelled.

1. **A stream cut at arbitrary places**: parser state that survives a call.
2. **Interrupts that coalesce or come early**: a notification is taken, then the state it
   spoke of is read; a flag is set before anybody registered for it.
3. **Half-finished operations**: a task is preempted between two statements of
   `registerTask`, `kick`, `write` or of a print.
4. **Time-outs that race with what they wait for**: the late answer of a drive, the bit a
   watchdog wait leaves set, the write that times out after a part was taken.
5. **Views that drift apart**: what the VFD task believes of a drive and what it runs at,
   what a host counts and what happened to its packets.
6. **Everything full at once**: buffers in a row, each with a policy of its own for what does
   not fit.

## 2. Modules and their code

| module | stands for | remarks |
|---|---|---|
| `PacketFormat` | `packets.h`, the lengths in `packet_utils.h` | what is found at a position of the stream: noise, a bad length, id or CRC, or a good packet |
| `PacketStream` | – | abstract: a cursor that either delivers the good packet at it or gives up one byte |
| `PacketParser` | `extractPackets`, the loop of `PacketIntake` | implements `PacketStream` |
| `PacketLayout` | the structs of `packets.h` and the lengths computed from them | no state; its theorems are in `PacketParserProofs`, and TLC evaluates its assumption in `packet_parser` |
| `UartRx` | receive half of `UartTasks`, `TaskUtilities::write` | |
| `DmaFlags` | `dmaFlagCheckAndClear` | no state; its theorems, in `UartRxProofs`, say what the packed flag registers are to the models of the UART |
| `ByteChannel` | – | abstract: what is accepted comes out once and in order |
| `UartTx`, `Coupling` | transmit half of `UartTasks` with DMA and UART; `Coupling::func` | |
| `SerialLine` | the chain producer, UART, wire, coupling, reader of `loopback/custom/src/main.cpp` | composes `UartTx` and `Coupling`; implements `ByteChannel` |
| `Watchdog` | `WatchdogTask`, `registerTask`, `kick` | |
| `VfdControl` | `VfdTask`, the frames of `ModbusDriver::sendRequest`, what a drive does | requests and answers as whole frames |
| `ModbusFrames` | `modbus_defs.*`, CRC-16 of `software_crc.cpp` | frames as bytes |
| `ModbusDriver`, `FakeVfd` | `modbus_driver.cpp`; `fake_vfd_task.cpp` | byte by byte |
| `ModbusLink` | driver and simulated drives on one line | composes the two, with faults |
| `PacketChannel` | – | abstract: what a writer may expect of the way to the host |
| `PacketOutput` | `PacketOutput::write` and its task | `target` is the buffer it forwards to |
| `UsbTask` | `txFunc`, `receiveCb`, `transmitCpltCb` | `txMsgBuf` is the buffer it reads |
| `OutputPath` | the wiring in `vfd_bench/custom/src/main.cpp` | `PacketOutput` and `UsbTask` sharing `txMsgBuf`; implements `PacketChannel` |
| `ItmLogger` | `itm_logger_task.cpp`, `itm_logging.cpp` | implements `ByteChannel` for lines |
| `Peripherals`, `LoopbackBoard`, `VfdBenchBoard` | generated initialisation, vector tables, interrupt handlers and `main()` of the two projects | what each program does, as data |
| `StartUp` | `isr_callbacks.cpp`, constructors and task beginnings of `UartTasks` and `UsbTask` | executes the programs of the boards while interrupts arrive |
| `SerialBuffer` | the tty and `rxMsgBuf` at the level of packets | what of a packet fits |
| `Commander`, `Throughput` | the two host applications | |
| `Dispatcher` | `receiveCb`, `PacketIntake`, `DispatcherTask` | |
| `HostBench` | host application, target and drives | composes the last three with `VfdControl`, which it extends |
| `*Proofs` | – | theorems about the module of that name (`OutputPath`, `PacketParser`, `UartRx`, `SerialLine`, `Watchdog`, `VfdControl`, `ItmLogger`, `StartUp`); `SerialLineProofs` has those about `ModbusLink` too, `VfdControlProofs` those about `HostBench` |
| `MC*` | – | instances for TLC; `UartRx` and `HostBench` need only numbers and are run as they are |

`ModbusLink` and `HostBench` prefix the names of their specification (`LinkInit`, `BenchSpec`),
so that a module of theorems can extend them together with `SerialLine` and `VfdControl`.

In every module one action stands for what one actor does between two points where another
can get in: a turn of a loop, a critical section, a handler, a kernel call that may block.
The names of actions and variables are those of the code where it has one. Definitions
marked "Mutant:" are the bugs that `PROJECT.json` puts in the place of the real definition to
show that a property can fail; nothing else uses them.

**`PacketParser`.** `base` is the number of stream bytes removed from the buffer, `offset`
the scan position in it, so `Cursor == base + offset`; `received - base` bytes are buffered.
`Feed` is a read of any length that fits; then each turn of the loop is `NoStartWord`,
`InvalidHeader`, `InvalidCrc` or `ValidPacket`, and `Finish` reports the skipped bytes and
moves the rest to the front. `delivered` and `errors` are what the callbacks were given.

**`UartRx`.** A byte is the pair of the DMA's lap and index. `ByteArrives` sets the half and
full flags, `LineFallsIdle` the idle flag, `dmaRxCallback` and `uartCallback` turn flags into
a notification, and `rxFunc` is cut at every place where the DMA may move: taking the
notification, reading the index, one or two writes to the stream buffer, the bookkeeping of
`lostBuffers`. With `IsrLatency` an interrupt may be served late; it tests and clears its
flags in one step, since half a buffer takes longer to arrive than the handler runs.

**`SerialLine`.** Messages go from `txMsgBuf` through `txDmaBuf`, the data register `dr` and
the shift register `shift` to the receive stream, from there in chunks through `buf` to
`dst`. Both the full-duplex and the half-duplex callbacks are initial states. In half duplex
a drive may answer a whole message once the line was silent for longer than an interrupt and
a task switch take (`PeerAnswers`).

**`Watchdog`.** `RegisterReads`/`RegisterStores` and `KickSets`/`KickStores` are the two
halves of `registerTask` and of the kick. The watchdog task has the highest priority, so
nothing else happens and no tick passes while it is ready (`Ready`). A report that finds its
output full makes it wait (`NoRoom`, with `OutputMayBlock`), and then the others run, kick and
stall. `setAt`, `reported` and `calm` are history; `calm` is true until two tasks are stalled
together or a report finds no room.

**`VfdControl`.** `Collect`, `Advance`, `Send`, then `EchoMatches`/`BadEcho`, then
`ValidResponse`/`InvalidResponse`/`ResponseTimeout`. Frames are records. While `busGood` is
false, a request, an echo or an answer may be lost, refused, or come so late that it falls in
another transaction. `nodeFreq` is what each drive runs at, `wanted` what the host asked last.

**`ModbusLink`.** Two byte streams join the two buffers. The driver reads in pieces, expires
(`Deadline`), checks echo, exception, length, CRC and header; the server reads, echoes, looks for
a request at `index`, and answers after a delay. `Disturb` drops or changes bytes in either
direction, `Refuse` turns an answer into an exception. `pending` lists the requests the server
has still to find.

**`OutputPath`.** A writer takes the mutex (`Lock`), waits for room, sends or times out; the
output task drops a malformed packet, numbers a good one (`Rewrap`) and writes it
(`WriteTarget`); the USB task packs as many messages as fit (`ReadFirst`, `ReadNext`,
`ReadEnds`), hands the buffer to the library (`SetTxBuffer`, `TransmitPacket`) and waits for
`transmitCpltCb`. A transfer may end after any length but zero (`usb_task.cpp:317`: "This
sometimes happens"): the host has the messages that lie whole within it, the rest is lost, and
`TakeNotification` warns of it (`usb_task.cpp:157`). Lengths count half messages, so that a
transfer can end within one. `gone`, `places` and `unwarned` are history: how many messages have
left `txBuf`, which of them each received one was, and whether a loss is still to be warned of.

**`ItmLogger`.** A call formats its line into a buffer of its own, takes the logger's mutex,
writes, and gives up after a time-out. The logger sends character by character under the mutex of
the port; `error` takes the port for a prefix and a text and ends in `critical`. Callers have one priority
and the logger the lowest, with priority inheritance: `LoggerRuns` says when it can go on.

**`StartUp`.** `Main` executes the calls of a program's `main()` one by one; a record per
call says which interrupts it enables at which priority, which pins and streams it claims,
which objects it constructs. `Raise` sets a hardware flag, `Interrupt` serves one that is
enabled and not masked through the program's vector table. `Tasks` are the beginnings of
`txFunc` and `rxFunc`. The callbacks of the USB driver (`HAL_PCD_...`) are what the host does
with the bus: reset, configure, exchange data, suspend, resume, unplug and plug in.

**`HostBench`.** A state has one application (`app`). Packets pass the tty, `rxMsgBuf`, the
dispatcher, and then the queue of `VfdControl` or the way back. `WithWhatFits` cuts a packet
that does not fit, and the parser later turns the piece into an error. `heard` and `missed`
record what reached the target whole. Both applications open and flush their port first
(`setupSerial`), so nothing of an earlier session is in it.

## 3. What the runs check

| run | instance | properties | distinct states |
|---|---|---|---|
| `packet_parser` | streams of 6 bytes over 6 headers, wrapper 1, packets of 1 or 2 bytes, buffer 6, numbers modulo 3, every way to cut the reads | `TypeOK` `AccountsBalance` `LeftoverLeavesRoom` `NoPacketLost` `SequenceErrorsExact` `ChunkingIndependent` `ImplementsStream` `CallReturns` | 266 280 |
| `uart_rx` | DMA buffer and stream buffer of 4 bytes, 3 laps, DMA less than one lap ahead, late interrupts | `TypeOK` `HandedOnInOrder` `PositiveMeansLoss` `EverythingHandedOn` | 65 016 |
| `watchdog` | 3 tasks, time-out 2, kicks at most 1 tick apart, 6 ticks, up to two stalls at a time, reports that find their outputs full, registrations not preempted | `LoneStallReportedInTime` `NoFalseAlarm` `ReportsTellTheTime` | 7 990 403 |
| `watchdog_masked` | 8 ticks, reports always find room | `StallReportedInTime` is violated | |
| `vfd_rising` | 2 drives, frequencies 0–2, 2 commands, any bus, each drive asked for rising frequencies | `SettledNodesObey` `AckIsTrue` `EveryNodeAsked` `CommandsTakeEffect` | 408 886 |
| `vfd_stop` | a good bus, a command to one drive, then to all | `SettledNodesObey` is violated | |
| `output_path` | 2 writers of 3 packets, one malformed, message buffer 1, target 2, transfer 2, transfers end anywhere, numbers modulo 4 | `NumbersFollow` `ImplementsChannel` `BufferHeld` `PathEmpties` | 42 985 |
| `serial_line` | full and half duplex, messages of 1, 2, 1 and 2 bytes, transfers of 3, chunks of 3, destination of 2 | `TypeOK` `OneEndDrives` `ImplementsChannel` `EverythingArrives` | 16 290 |
| `itm_logger` | 2 tasks of 2 calls, texts that fit and one that is cut, buffer for one line | `LinesWhole` `ImplementsChannel` `LoggingEnds` | 578 605 |
| `start_up` | the six programs of `loopback` and the two of `vfd_bench`, any interrupt at any time | `NothingTraps` `ResourcesUnshared` `NoticeIsEarned` `StartUpEnds` | 38 822 |
| `host_bench` | either application, 2 drives and an address without one, 3 keys or 4 packets, room for one and a half packets | `CountsAreTrue` `DrivesFollow` `CatchesUp` | 348 501 |
| `modbus_link` | one drive and the broadcast, two writes and a status read in any order, frames of real length, one fault | `ServedInOrder` `ServerRecovers` `AcceptedIsTrue` | 109 591 |

What the properties say:

- **Parser.** `AccountsBalance`: every byte consumed is in exactly one delivered packet or in
  one report of dropped bytes. `NoPacketLost`: a good packet at a position the scan has not
  consumed through another good packet is delivered, whatever damage surrounds it.
  `LeftoverLeavesRoom`: what a call leaves is shorter than one packet, so the intake's next
  read never asks for 0 bytes. `SequenceErrorsExact`: an error is reported exactly at the
  breaks of the delivered numbering. `ChunkingIndependent`: deliveries and rejections are
  those of one call on the whole stream (`OneShot`). `CallReturns`: no call loops for ever.
- **UART receive.** `HandedOnInOrder`: what the reader sees is a prefix of the line.
  `EverythingHandedOn`: when the line stops, wherever that is in the buffer, the rest is
  handed on without waiting for more. `PositiveMeansLoss`: as the comment in the code says,
  a positive `lostBuffers` means that bytes were lost (here the task keeps up, so it is never
  positive; the theorem covers the DMA that laps the task).
- **Watchdog.** `LoneStallReportedInTime`: a task that sets no bit for more than two time-outs
  has been reported, as long as no two tasks were stalled together and no report found its output
  full (`StallReportedInTime` without this condition is what `watchdog_masked` refutes).
  `NoFalseAlarm`: only a task that set no bit for a whole time-out is chosen for a report, also
  when other reports wait for room meanwhile. `ReportsTellTheTime`: the ticks in a report are the
  time from the task's bit to the reading of the tick count, at most a gap less, whatever kicks or
  waits come in between. It leaves out a task that kicked after the tick count was read; only
  then does the difference wrap, see section 4.
- **VFD control.** `SettledNodesObey`: when nothing is left to write, every drive runs at the
  frequency last asked for. `AckIsTrue`: a set point is recorded as written only while the
  drive runs at it. `EveryNodeAsked`: a dead drive does not keep the task from the others.
  `CommandsTakeEffect`: once the bus is good, the drives end up as asked.
- **Output path.** `ImplementsChannel`: the composition implements the abstract channel:
  accepted packets arrive once and in order of acceptance; a loss is a malformed packet,
  happens before any host was heard of, or is the tail of a transfer that ends short, of which
  the task warns before the next transfer ends. `NumbersFollow`: from one packet that the host
  receives to the next the numbers advance by one, and by one more for every packet that a short
  transfer lost in between, so the host can tell. `BufferHeld`: the transmit buffer does not change during a transfer.
  `PathEmpties`: nobody blocks for ever, with or without a host. Deadlock is checked too.
- **Serial line.** `OneEndDrives`: the line is driven whenever a byte of this end is on it,
  and never when the far end begins to answer. `ImplementsChannel`: bytes come out once and
  in order, although `txDmaBuf` is filled again while the UART still sends the last bytes of
  the transfer before. `EverythingArrives`: all of it, and the line listens again.
- **ITM logger.** `LinesWhole`: a line begun on the port is finished before another begins,
  also when an error comes in between. `ImplementsChannel`: lines taken are sent once, in
  order; only a call that timed out loses its line. `LoggingEnds`: no call waits for ever.
- **Start-up.** `NothingTraps`: no interrupt meets a missing callback, an object not
  constructed yet, a priority the kernel forbids, or the default handler. `ResourcesUnshared`:
  pins and streams have one purpose each, and the streams of `uart_info.h` are the ones the
  generated code set up. `NoticeIsEarned`: the transmit-complete flag that reset leaves set
  is not taken for the end of a transmission. `StartUpEnds`: the wait of a USB constructor,
  with interrupts masked, ends, and every task gets to its loop.
- **Host and target.** `DrivesFollow`: a command that got whole into the target is carried out,
  not overtaken by an older one, while heartbeats and pieces fill every buffer.
  `CountsAreTrue`: once a packet came back, the throughput report tells losses from delays.
  `CatchesUp`: packets that could not be written when due are written later.
- **Modbus line.** `ServedInOrder`: undisturbed, the server finds every request once and in order,
  also when one waits behind another. `ServerRecovers`: after a disturbance it misses at most
  two. `AcceptedIsTrue`: what the driver accepts is true of the drive at that moment,
  unless it sent a request into an unfinished exchange.

### Bounds, and why they are enough

- **Parser.** Six headers are one per branch, plus good packets of both lengths, a gap and a
  wrap of the number. Six bytes hold two long packets, or a damaged one whose claimed length
  covers a good one, with a call boundary at each byte. `BufSize` is two longest packets as in
  `packet_flow_tasks.h`. The stream is finite, so the run may stop (`CHECK_DEADLOCK FALSE`).
- **UART receive.** The index arithmetic distinguishes below, at and above the middle and the
  wrap: four bytes have all of these, and three laps let the task meet every pair of old and
  new index with and without a rollover. `MaxLag` 3 is "less than one lap behind", the
  condition under which the code promises anything. The bound on laps ends the run, so
  deadlock is off.
- **Watchdog.** With three tasks, one can be stalled, one can register late and one can keep
  kicking. The time-out is twice the longest gap between kicks; `Horizon` is three time-outs, so a stall,
  the window it hides in and the one that shows it all fit, and so does a report that waits for
  room while another task stalls or kicks. Tick differences are taken modulo 16, more than twice
  the horizon, so one that wraps cannot be mistaken for one that does not. Tasks are
  interchangeable, so symmetry is sound (no liveness property is checked there).
- **VFD control.** Two drives and the broadcast address are enough for one drive's late frame
  to fall into the other's transaction and for a broadcast to pass both. Two commands allow a
  change while the first is in flight; the rising values keep clear of the disagreements of
  section 4. `HostWaits` leaves out only the time before the first broadcast succeeded, in
  which a start-up broadcast would overwrite a command.
- **Output path.** Buffers of one and two packets make every wait happen: for the mutex, for
  room, for the target, for the end of a transfer. Two packets per transfer let a third one
  arrive while two are being sent, and a transfer ends at any of four lengths: within its first
  message, after it, within the second, or whole. Numbers modulo 4 wrap within six packets.
- **Serial line.** Two messages fit in a transfer or just do not; a chunk of three bytes over
  a destination of two is always cut; four messages make three transfers, so the buffer is
  refilled while the transfer before is still on the line, and every flag is raised again.
- **ITM logger.** One line of room makes the second caller wait and time out; a text of 7
  over a buffer of 6 is cut; two calls of each let an error fall into a print of the other
  task and of the logger.
- **Start-up.** The programs are the real ones, not instances. One raised flag besides those
  of reset meets every point of every program, and flags may be raised again after they are served, so a
  second one at a time would add no handler state: handlers only clear flags and notify.
- **Host and target.** One and a half packets of room cut every second packet somewhere; an address too many
  shows that the target ignores it; three keys allow a command to be replaced before it is
  carried out. The keys and packets are finite, so deadlock is off.
- **Modbus line.** Frames have their real bytes and CRC, so an echo really looks like the
  answer to a write and a cut frame really fails. One fault (a flipped bit, three bytes lost, a
  refusal, or a request sent too early) at each place of each frame; reads of five bytes cut every frame.

### Fairness, and why the code justifies it

The tasks of one priority are time-sliced, interrupts are served, and all waits of the code
have a time-out, so every task that can take a step takes it in the end: weak fairness of
each task and of each interrupt.

- `PacketParser`: `WF(Parse)`. Nothing is assumed of the sender.
- `UartRx`: weak fairness of the two interrupts, of the idle detection, of `rxFunc`, and of
  the reader of the stream, which has a task of its own.
- `VfdControl`: weak fairness of the task and of a drive that owes an answer (the answer may
  still be lost). `EveryNodeAsked` needs nothing of the bus. `CommandsTakeEffect` is
  conditional on `<>busGood`, since no program can get a command through a dead line.
- `OutputPath`: weak fairness of each writer, the output task, the USB task and the end
  of a transfer. Each writer has finitely many packets (`MaxPackets`), so the model does not
  answer whether one writer could starve at the mutex behind writers that never pause.
- `SerialLine`: tasks, interrupts, and the hardware; `PeerSilent`, since an answer has an end.
  None for the drive to answer at all.
- `ItmLogger`: a task goes on after its call, and the logger when its priority lets it; no task has to
  call again. A task in `critical` keeps the processor for ever, which `LoggingEnds` says.
- `StartUp`: the processor, the tasks, and the tick of TIM8. No other interrupt has to come.
- `HostBench`: the loops of the host, time, the tasks and interrupts of the target, the
  drives on a good bus; nobody has to press a key.
- `Watchdog`, `ModbusLink`: only safety properties; "in time" is a bound on ticks and
  `ServerRecovers` a bound on requests.

## 4. Where the code and its documents disagree

Two runs are expected to end in a violation. Each checks a property that a document states.

| run | what the run shows |
|---|---|
| `watchdog_masked` | a wait that times out clears no bit, so while one task is stalled the old bit of a second one is never cleared and its stall is not reported |
| `vfd_stop` | start one drive, then "set all to zero": the broadcast equals the last broadcast and is not sent, and the drive keeps running |

The passing runs state a condition under which the property does hold: no two tasks stalled
together (`calm`), rising frequencies.

Other disagreements that were met while modelling. They are within reach of the models, but have no run
of their own; most appear when one constant is changed.

- `uart_tasks.cpp:323`: a write that times out when the stream buffer has some room takes part
  of the chunk; `TaskUtilities::write` then returns and `rxFunc` ignores the count, so the
  rest is lost unnoticed. `ReaderStalls = TRUE` in `uart_rx` shows it (`HandedOnInOrder`).
- `uart_tasks.cpp:293`: a second rollover notification before the first was taken is merged
  with it, so `lostBuffers` drifts below -1 with no byte lost; the comment expects -1 and 0.
- `vfd_task.cpp:127`: a drive took a new set point but the acknowledgement was lost; a return
  to the old value equals `lastFrequency` and is not sent. `HostRepeats = TRUE` in `vfd_rising`.
- `watchdog_task.cpp:91`: `registerTask` reads and increments `numTasks` without a lock, so two
  tasks may share an id. With `AtomicRegister = FALSE` in `watchdog`
  each of its properties fails.
- `watchdog_task.cpp:45`: `now` is read once, before all reports, and a report may wait for room
  (`:65`, `:71`). A task that is reported later and kicks meanwhile has a `lastKickTick` above
  `now`, so the unsigned difference at `:57` wraps, and `packet_utils.cpp:332` prints it as
  "unresponsive for %d ticks". `watchdog` reaches this; `ReportsTellTheTime` says that it is the
  only case in which a report gives a wrong time.
- `vfd_defs.h:14`: the comment gives the register of P9.26 as `0x091A`, but `paramReg` computes
  `major * 16 + minor`, which is `0x00AA`. The driver and the simulated drive share the constant,
  so nothing between them shows it; the models use 170 on both sides, as the code does, and say
  nothing of the register of a real drive.
- `fake_vfd_task.cpp:239`: the leftover is moved to the front with as many bytes as were
  consumed, not as remain. `Remaining` does what the code does; with `MaxFaults = 2` in
  `modbus_link` three requests queue up, more bytes remain than were consumed, and
  `ServedInOrder` fails. `RequestsServed` shows that up to two it holds.
- `throughput/main.cpp`: before the first packet came back, the report says that one packet was
  dropped; hence the condition of `CountsAreTrue`.
- After `commander` was quit, reports nobody reads fill the way back and block the
  dispatcher, and with it commands that are still behind; hence the condition of `DrivesFollow`.

## 5. What is proved

A theorem holds for every value of the constants that satisfies the module's `ASSUME`s: any
lengths, buffer sizes, numbers of tasks or drives. TLC evaluates the same assumptions in
every run. The proof module of a state machine defines an inductive invariant, proves
`Init => Inv` and `Inv /\ [Next]_vars => Inv'` with one step per action, and derives the
properties from it. Some theorems say of the constants what the property needs of the
environment; the run of that property has constants that satisfy it:

| theorem | assumes | why the code may count on it |
|---|---|---|
| `NoTaskSlandered` and `TypeCorrect` of the watchdog | `AtomicRegister` | it may not, see section 4: two preempted registrations share an id |
| `ReportsAreTrue` | `Timed`: `AtomicRegister` and `Gap < Timeout`; reports may wait for room | the time-out is chosen that way (`watchdog_common.h`) |
| `StallsAreReported` | `AtomicRegister`, `Paced` (kicks come twice per time-out); its property speaks of `calm` behaviours only | `suggestedTimeoutTicks`; the second stall is the disagreement that `watchdog_masked` shows |
| `HandedOnIsTheLine` | `KeepsUp`: the DMA is less than a buffer ahead, the stream takes whole writes | the sizes and priorities of the tasks; otherwise bytes are lost by design |
| `SettledMeansObeyed` | `RisingHost`: rising frequencies, no broadcast after the first | the disagreement of `vfd_stop` |
| `RequestsServed`, `RequestsServedInOrder` | at most two requests wait; `MaxFaults <= 1` | with three it is not so, see section 4 |
| `ResponsesAreTrue` | no byte is disturbed on the line (late servers and refusals are allowed); what is accepted after a request was sent into an unfinished exchange is left out | such a request takes a time-out or a bad echo while the server still works on the one before; a changed byte is caught by the CRC, or not: see section 6 |
| `WritesAreTrue` | it is about writes before anything was lost on the way to the server or sent too early | the echo of a write is its answer, so a request sent too early may be taken for its own answer |
| `StartUpIsSafe`, `NoEarlyNotice` | `ProgramsAssumption` on the tables of a program | TLC evaluates it for the eight programs of the repository |
| `NothingIsShared` | that, and `ResourcesAssumption` on what the initialisations set up | the same; a `vfd_bench` that also called the `MX_UART5_Init` of `loopback` would not satisfy it |

**`PacketParserProofs`** – `TypeCorrect`, `AccountsAlwaysBalance`, `RoomForNextRead`,
`GoodPacketsSurvive`, `DeliveryOrder`, `SequenceReports` (the invariants of the run), and
`Refinement` (the parser implements `PacketStream`). The inductive invariant is the
conjunction of these invariants, strengthened by `LastSeqCurrent` (`lastSeqNum` is the number
of the last delivered packet, which relates a local of the parser to the history) and
`ErrorsBehindCursor` (every report lies before the cursor, so a new one cannot repeat an old
one). The argument turns on one lemma, `EveryStepMoves`: a step leaves the cursor alone, or
moves it by one byte that is not the start of a good packet, or by exactly the packet it
delivers.

`ChunkingNeverMatters` (`ChunkingIndependent`): however the stream is cut into reads, what was
delivered and rejected is what one call on all that was read would have given. The reference
`OneShot` is a recursive function on positions. That it is well defined, and that a longer
stream does not change what a shorter one has decided, needs an induction over positions,
which is done by least counterexample (`WFMin` on the naturals). The invariant is `OnTrack`:
for every length the stream may still grow to, the result of one call is what the parser has
done so far followed by what one call would do from the cursor. `AllDecided` says that
between calls nothing more can be decided.

**`UartRxProofs`** – `TypeCorrect`, and `PositiveLostBuffersSound`: whatever is lapped,
coalesced or dropped, a positive `lostBuffers` is data loss. `lostBuffers` counts
notifications, so it says nothing of bytes by itself. The strengthening relates it to laps:
`NotifiedLaps` (rollovers notified so far are at most the laps of the DMA),
`NotifiedBeforeRead` (those notified before the index was read are laps that this reading
includes) and `HandedOnBound` (the bytes handed on are at most those of the rollovers handled
plus the index reached). A positive counter then leaves fewer bytes handed on than arrived.

`HandedOnIsTheLine` (`HandedOnInOrder`): while the task keeps up, what is handed on is a prefix
of the line. `Pace` keeps the DMA between the byte the task finished with and the same place a
lap later, `ReadingOK` relates the branch taken to the laps of the two indices, and `Written`
gives for each place in the loop how far along the line the task is.

The same module has the two theorems about `DmaFlags`. `FlagsDistinct`: no two flags of a
controller's streams share a bit of the packed registers. `ClearsOnlyItsFlag`:
`dmaFlagCheckAndClear` clears the flag it is asked about and leaves every other flag of the
eight streams as it was. This is what `UartRx`, `UartTx` and `StartUp` take for granted when
they give a stream flags of its own.

**`WatchdogProofs`** – `TypeCorrect` and `NoTaskSlandered` (`NoFalseAlarm`), both under
`AtomicRegister`; without it two tasks may share one bit. The strengthening is `Registration`
(one task at a time registers, with the next id, and every id in use has a registered task),
`Window` (during a wait, an expected bit that is not set belongs to a task whose last bit is
older than the start of the wait) and `Reporting` (the set of stalled ids is empty outside a
report). Nothing is assumed of how often tasks kick.

`ReportsAreTrue` (`ReportsTellTheTime`) and `StallsAreReported` (`LoneStallReportedInTime`) are about
time; the first holds however long reports wait for room. `TimeInv` relates ticks: the stored tick of a kick is older than the bit only between
the two halves of a kick (`KickTicks`), a task that is not stalled kicks within a gap
(`Healthy`), and the watchdog wakes when its wait ends (`OnTime`, `AtOnce`). `DueInv` gives
every task that is not reported a deadline in each state of the watchdog. The deadline
accounts for a bit that was set before the window it is found in: such a bit hides the stall
in one window and costs a gap, which is why a gap may be no more than half of the time-out.

**`VfdControlProofs`** – `TypeCorrect` and `AcknowledgedMeansApplied` (`AckIsTrue`), for any
number of drives and whatever the bus does. The strengthening is `AckIsFresh` (while the task
waits, an acknowledgement of the drive it asked, sent or not, means that the drive runs at
the set point of this very request: stale ones were flushed or given up when it was sent) and
`OwnAnswers` (a drive answers in its own name). The one assumption is about drives: one that
is asked again gives up an answer that it has not sent yet, so no answer is later than a
whole round of the bus; the waits between polls are far longer than a drive's answer takes.

`SettledMeansObeyed` (`SettledNodesObey`): a task with nothing left to write means that every
drive runs at what the host asked for. The strengthening: `CommandsRise` (a queued command is
above the drive's set point and at most what is wanted, and the last one is what is wanted),
`StartBroadcast` (the first broadcast is over before a command comes) and `AckStands` (the
value recorded as written is at most the set point, and if equal the drive runs at it).

`CountsTrue` (`CountsAreTrue`) is about the bench around the task (`HostBench`), for any sizes of
its buffers, any number of packets and drives, and either application. The invariant: the numbered
packets on the way, from the tty through the receive buffer and the dispatcher to the way back,
are in the order of the buffers and in each of them (`Ordered`, `Sorted`), so each number is at
one place; and every number used so far is on the way, was missed by the target, or came back,
the last of those that did being behind none on the way (`Told`). The count of a set of numbers
then gives both lines of the report.

**`SerialLineProofs`** – `TypeCorrect`, `LineHasOneDriver` (`OneEndDrives`) and
`BufferHeldByDma` (nothing is packed into `txDmaBuf` while the DMA reads it), for messages
and buffers of any sizes, in full and in half duplex. The strengthening: `EndKnownOnce` (the
end of a transfer is known in exactly one place, the enabled stream, the flag or the
notification, and only while the task waits), `Transmitting` (as long as the stream, the data
register or the shift register has a byte, the task waits, drives the line and nothing else
is queued) and `Asked` (once a drive was asked, the task is on its way back to its first
statement and arrives there before the drive answers).

`LineIsAChannel` (`ImplementsChannel`): the line implements `ByteChannel`. What is on the way is
the concatenation of five buffers and two registers, one of them the messages of `txMsgBuf`,
flattened; that `FlattenSeq` of a sequence begins with its first message is proved by least
counterexample over the function that defines the fold. Then each step is one of three: it
moves bytes from the front of one part to the end of the next, takes bytes out at the reader,
or puts a message in. `AllMoved` adds that a transfer that has ended has moved all its bytes, so that
filling `txDmaBuf` again loses none.

`RequestsServed` and `RequestsServedInOrder` (`ServedInOrder`) are about `ModbusLink`, for any
addresses and data, any sizes of its reads and of its buffer. The
invariant `Served` relates the bytes of the server's buffer and of the line to the frames of the
requests in `pending`. The server looks at the bytes one request at a time: as long as what it has
begins with the frame of the first, `parseRequestToServer` waits for the rest or gives exactly its
length, its CRC is right, and `Remaining` leaves the frames behind it. That last step holds for up
to two requests only.

`WritesAreTrue` and `ResponsesAreTrue` (`AcceptedIsTrue`) follow the answer. The invariant
`Exchange`: at most the driver's own request waits; the drive of a write that does not wait any
more has its frequency; and the bytes that came back are no more than those the server echoed
and answered. So a driver that has seen as many bytes as echo and answer together knows that the
server was done, whatever these bytes are: this gives `WritesAreTrue`. `Returned` adds what they
are: the request, and behind it its answer, a refusal of it or nothing, in pieces at four places
(the server's answer that is held back, the line, the driver's buffer, the echo already taken).
With it what the driver reads out of a status response is the frequency of the drive.

**`OutputPathProofs`** – `TypeCorrect`, `NumbersAlwaysFollow` (`NumbersFollow`),
`BufferAlwaysHeld` (`BufferHeld`) and `Refinement` (the path implements `PacketChannel`), for
any number of writers, packets and buffer sizes. The strengthening: `RoomKept` (the writer
that holds the mutex keeps the room it saw), `LengthsAgree` (the library has the length of
what is in `txBuf`, and the task knows it until it takes the notification), `ShortIsSeen` (a transfer
that ended short is told by a notification that differs from that length), `Numbered` and
`Placed`: the packets that left `txBuf` are counted, and each packet that is held or was sent has
the number of its place in that count, modulo `SequenceNumbers`. A transfer that ends short
skips places and leaves every other packet its own. Most steps only move a packet from one
part of what is held to the next (`QuietHeld`), which is also why they are invisible to the
channel.

**`ItmLoggerProofs`** – `LinesFitAlways`, `LinesStayWhole` (`LinesWhole`) and `LoggerIsAChannel`
(`ImplementsChannel`), for any number of tasks, calls and lengths. The mutex of `itmSendBuf`
alone would not keep lines whole, since an error is sent with two calls and the port is free
between them. The invariant says what does: `Holds` (who has the mutex of `error` is in its
middle, so there is one such task), `WhoseLine` (a line begun on the port is the logger's, who
holds the port, or that of the one error) and `LoggersTurn` (the logger, of the lowest
priority, cannot begin a line while an error is under way).

**`StartUpProofs`** – `StartUpIsSafe` (`NothingTraps`) and `NoEarlyNotice` (`NoticeIsEarned`) for any
program of which `ProgramsAssumption` is true, however many calls its `main()` consists of. The
assumption is about tables only (priorities, handlers that name their own instance, no two
objects on one stream, nothing constructed after the scheduler was started). The invariant: a source is enabled
only by a task whose UART was constructed (`SourcesJustified`), so all three callbacks are
registered (`Registration`, `TasksConstructed`); tasks run only when `main()` has nothing left to
construct (`SchedulerLast`); and transmitters run first (`TransmittersFirst`), so in half duplex
the flag that reset set is gone before any interrupt of that UART (`FlagCleared`).
`NothingIsShared` (`ResourcesUnshared`) adds what the generated functions set up. Its assumption is
about the set of initialisations, not their order: no two of them want one pin or stream for
different things, and for every UART constructed some of them set up its streams, interrupts and
pin. The proof shows that the order does not matter: nothing set up is lost again
(`SetUpStands`), and a task waits only when all of `main()` is behind it.

**`PacketLayout`** (theorems in `PacketParserProofs`) – structs are laid out from sizes and alignments, for any length of log
message of at least 64 bytes. `LimitsAreOffsets`: the lower limit of the parser is exactly
the header and the wrapper exactly what precedes the packet, with no padding counted twice.
`EveryLengthAccepted`: the parser refuses no length a sender computes from an ID.
`EveryPacketFits`: with log messages of at most 256 bytes, every packet fits in an empty message
buffer and twice in the transmit buffer of the USB task, so no writer retries for ever.

## 6. What is only model-checked, and what is not modelled

Only checked by TLC:

- all liveness: liveness under fairness is out of the prover's reach;
- `ServerRecovers`: that the server misses no more than two requests after a disturbance is so for
  the requests of the instance, not for all. The rest of a damaged request may look like the
  beginning of one that writes several registers, and the server then waits for up to 257 bytes;
- `AcceptedIsTrue` where a byte was disturbed on the line: that the CRC finds the damage is a fact about
  the frames and faults of the instance, not of all (`WritesAreTrue` does without it);
- `DrivesFollow`, `CatchesUp` and the other properties of the form "in the end": liveness.

Inductions over data that the proofs need (`OneShot`, `FlattenSeq`) are done by least counterexample,
since the induction theorems of the library cannot be instantiated. What a fold with an
arbitrary operator computes for every input is out of reach.

Type invariants are defined in every module with a specification. Those of `PacketParser`,
`UartRx` and `SerialLine` are checked by their runs, those of `PacketParser`, `UartRx`,
`Watchdog`, `VfdControl`, `SerialLine`, `OutputPath` and `ItmLogger` are proved, and `StartUpProofs`
has one of its own (`Types`). The others hold on the
instances of their runs too, where they were checked once; the configurations leave them out.

Abstracted in what is modelled:

- a CRC is computed in `ModbusFrames` only; for packets (CRC-32) it is right or wrong, and packets are
  a kind, a length and a number; the driver's tick arithmetic is a free choice of when the deadline passes;
- text formatting, and logging, except in `ItmLogger` and where a log call may block the
  watchdog (`SendLog`; `OutputMayBlock`);
- a transfer that ends with nothing sent (`usb_task.cpp:314`) stops the program in `critical` and
  is left out of `UsbTask`;
- the way back to the host in `HostBench` (and `Dispatcher`) loses nothing: no transfer ends short
  there, and no byte is lost on the bus. With such a loss a packet that the target did receive
  would be counted as dropped by the host, so `CountsAreTrue` and `CatchesUp` speak of an
  undisturbed way back;
- `UsbTask` configures the device once, before the host sends anything, and stays below 2^32
  received bytes (`usb_task.cpp:115`); `StartUp` resets and configures it at any time, but looks at
  the traps only. What a new configuration (`initCb`) does to a transfer under way depends on
  the USB device library, which is not in the repository: if it forgets the transfer,
  `transmitCpltCb` may find a length of zero (`critical`) or never come, and `txFunc` waits for ever;
- a set point of 65535, which the code uses as the marker for "never written", is excluded by
  `FreqsAssumption` (the code's comment gives 4000 as the maximum);
- status reports that the VFD task forwards to the host, and its log line for an answer to a
  write, which comes also for an expected one (no `break` at `vfd_task.cpp:184`);
- requests that write several registers, which no program of the repository sends: the server
  is modelled with the length it requires of them (`fake_vfd_task.cpp:65` counts the header
  twice, so a whole request is not recognised until more arrives), `ModbusLink` sends none;
- `LL_USART_ClearFlag_IDLE` also reads the data register and might take a byte from the DMA; the
  DMA is taken to be faster;
- `dmaFlagCheckAndClear` reads and then clears; half a buffer cannot arrive in between, so the two
  are one step;
- in `SerialLine` a drive waits before it answers until the transmit task has had its turn; Modbus
  requires a silence of 3.5 characters, far longer than the switch.

Two hazards of `PROJECT.json` have no property yet: the watchdog that retries its report for
ever while the output itself is what stalled (`watchdog_task.cpp:65`), and the new
configuration in the middle of a transfer (`usb_task.cpp:178`).

The buffer of the simulated drive has a limit beyond the bounds (`fake_vfd_task.cpp:145`): bytes that begin no
request are skipped, but leave `inBuf` only with the next request found behind them. After `MaxModbusPktSize`
of them the next read asks for no byte and the drive never answers again. `LinkTypeOK` says that
it keeps room to read, which is so for the few faults of `modbus_link`; it takes more than
thirty damaged requests in a row to fill the buffer.

Not modelled:

- `SystemInit`, `SystemInit_ExtMemCtl`, clock trees, line settings, the stubs of the C library: data or
  straight-line set-up without state of the program. `MX_CRC_Init` is generated and never called;
- `usbd_desc.c` (descriptors are data), `usbd_cdc_if.c` (compiled out by `#if 0`), the forwarding
  endpoint functions of `usbd_conf.c`;
- `snprintPacket` and the packet names: wording;
- the `monitor` application, which prints what it reads, and the log files of the others;
- `ProducerUsb` and `ConsumerUsb`, which write and log fixed text, and the counters of `Consumer`;
- `itmPrintf`, `itmPrintHex` and `warn`: the same way to the port as `ItmLogger`, used before the scheduler
  starts or not at all;
- error traps and profiling: a path that reaches a trap ends the behaviour, and `StartUp`
  shows that interrupts reach none.

## 7. Plan

Done: the parser with its abstract specification; UART receive and transmit with the coupling
as one line; the watchdog; VFD control, the Modbus line byte by byte; the way to the host and
the host applications; the logger; start-up of all programs; and the theorems of section 5.

Next, the most important first:

1. **Watchdog over a real output**: the watchdog composed with `PacketOutput`, to see what
   becomes of a report when the output task is the one that stalled.
2. **`UsbTask`, rest**: `initCb` at any moment, once the library's behaviour is pinned down,
   and the wrap of `rxReceivedTotal`.
3. **More proofs**: `ServerRecovers` for requests that no piece of which begins another; that the
   CRC finds every single changed byte, which would give `AcceptedIsTrue` on a line that changes one.
4. **Pure algorithms**: CRC-32, and both CRCs against polynomial division; `toHex` and
   `addLinebreak`.
