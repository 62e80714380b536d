------------------------------- MODULE StartUp -------------------------------
(***************************************************************************)
(* From reset to the moment every UART task waits for work: main() of the  *)
(* two projects, the constructors of UartTasks and UsbTask, the beginnings *)
(* of txFunc and rxFunc (common/src/uart_tasks.cpp), and the interrupts    *)
(* that may arrive meanwhile (common/src/isr_callbacks.cpp).               *)
(*                                                                         *)
(* A flag is a pair <<interrupt, event>> raised by the hardware; it        *)
(* interrupts when its source is enabled in the peripheral, the interrupt  *)
(* in the NVIC, and neither a critical section nor the stopped scheduler   *)
(* masks it.  The first task that is created leaves the interrupts that    *)
(* may use the kernel masked until the scheduler runs.  Nothing is         *)
(* transmitted yet.  Assumed of the libraries: HAL functions succeed and   *)
(* HAL_Init calls HAL_InitTick and HAL_MspInit; HAL_PCD_Init waits with    *)
(* HAL_Delay.                                                              *)
(* Bounds of the model: DelayTicks ticks of that wait, MaxRaised flags of  *)
(* UARTs and streams raised at a time besides those reset sets.            *)
(***************************************************************************)
EXTENDS Naturals, Sequences, FiniteSets

CONSTANTS
  Programs,      \* name |-> [calls, usb, vectors]
  DelayTicks,
  MaxRaised

P == INSTANCE Peripherals

Uarts == P!Uarts
Streams == P!Streams
Irqs == P!Interrupts

(***************************************************************************)
(* What the rest relies on in main() and the vector table: whoever        *)
(* initialises an interrupt that uses the kernel gives it a priority the   *)
(* kernel allows, a handler asks for its own instance, the interrupts of   *)
(* what is constructed have one, no two objects use the same UART or       *)
(* stream, and nothing is constructed once the scheduler runs.             *)
(***************************************************************************)
KernelIrqs == Uarts \cup Streams \cup {"OTG_FS"}
Timers == {"TIM8", "TIM11"}

GivesGoodPriorities(init) ==
  /\ DOMAIN init.irqs \subseteq Irqs
  /\ \A i \in DOMAIN init.irqs :
       init.irqs[i] \in Nat /\ (i \in KernelIrqs => init.irqs[i] >= P!MaxSyscallPriority)
  /\ init.starts \subseteq Timers

Own(ui) == {ui.uart, ui.tx, ui.rx}

UartCalls(calls) == {k \in DOMAIN calls : calls[k].call = "UartTasks"}

WellFormed(p) ==
  /\ Len(p.calls) \in Nat /\ DOMAIN p.calls = 1 .. Len(p.calls)
  /\ \A i \in Irqs : p.vectors[i].handler \in {"dma", "uart", "timer", "usb"} =>
       /\ p.vectors[i].of = i
       /\ p.vectors[i].handler = "dma" => i \in Streams
       /\ p.vectors[i].handler = "uart" => i \in Uarts
       /\ p.vectors[i].handler = "usb" => i = "OTG_FS"
  /\ \A i \in Timers \cup {"OTG_FS"} : p.vectors[i].handler # "default"
  /\ GivesGoodPriorities(p.usb.msp)
  /\ \A k \in DOMAIN p.calls :
       /\ p.calls[k].call = "init" => GivesGoodPriorities(p.calls[k])
       /\ p.calls[k].call = "vTaskStartScheduler" => k = Len(p.calls)
       /\ p.calls[k].call = "UsbTask" =>
            \A l \in DOMAIN p.calls : p.calls[l].call = "UsbTask" => l = k
  /\ \A k \in UartCalls(p.calls) :
       /\ p.calls[k].ui \in [uart : Uarts, tx : Streams, rx : Streams]
       /\ p.calls[k].ui.tx # p.calls[k].ui.rx
       /\ \A i \in Own(p.calls[k].ui) : p.vectors[i].handler # "default"
       /\ \A l \in UartCalls(p.calls) \ {k} :
            Own(p.calls[k].ui) \cap Own(p.calls[l].ui) = {}

ASSUME ProgramsAssumption == \A p \in DOMAIN Programs : WellFormed(Programs[p])

Disabled == 16                       \* priority of an interrupt that is not enabled
NoOwner == [uart |-> "none"]

(***************************************************************************)
(* And in the generated initialisations: no two set up the same pin or     *)
(* stream for different things, none disables an interrupt, and whatever   *)
(* main() constructs, one of them has set up.                              *)
(***************************************************************************)
InitCalls(calls) == {k \in DOMAIN calls : calls[k].call = "init"}

Claims(p) == p.usb.msp.claims \cup UNION {p.calls[k].claims : k \in InitCalls(p.calls)}

ClaimedInMain(p, c) == \E k \in InitCalls(p.calls) : c \in p.calls[k].claims
EnabledInMain(p, i) == \E k \in InitCalls(p.calls) : i \in DOMAIN p.calls[k].irqs

ResourcesAgree(p) ==
  /\ IsFiniteSet(Claims(p))
  /\ \A c, d \in Claims(p) : c[1] = d[1] => c = d
  /\ \A i \in DOMAIN p.usb.msp.irqs : p.usb.msp.irqs[i] # Disabled
  /\ \A k \in InitCalls(p.calls), i \in Irqs :
       i \in DOMAIN p.calls[k].irqs => p.calls[k].irqs[i] # Disabled
  /\ \A k \in UartCalls(p.calls) :
       LET ui == p.calls[k].ui
       IN  /\ ClaimedInMain(p, <<ui.tx, ui.uart, "tx">>)
           /\ ClaimedInMain(p, <<ui.rx, ui.uart, "rx">>)
           /\ \A i \in Own(ui) : EnabledInMain(p, i)
           /\ p.calls[k].de # "none" => ClaimedInMain(p, <<p.calls[k].de, "gpio", "out">>)

ASSUME ResourcesAssumption == \A p \in DOMAIN Programs : ResourcesAgree(Programs[p])

VARIABLES
  program,       \* the program that was built and flashed
  next,          \* index of main()'s next call
  nvic,          \* priority of each enabled interrupt
  claimed,       \* <<resource, user, use>> of every pin and stream set up
  sources,       \* enabled interrupt sources of the peripherals
  flags,
  callbacks,     \* dmaCallbacks and uartCallbacks: the UartInfo registered
  masked,        \* a critical section of the kernel is open
  scheduler,     \* TRUE: the scheduler was started
  delay,         \* ticks HAL_Delay still waits
  usb,           \* "off", "init", then the device as the host sees it
  suspended,     \* the host has suspended the bus
  asleep,        \* the processor sleeps whenever no interrupt is served
  halfDuplex,    \* UARTs with HalfDuplexCallbacks, and their pin
  txTask, rxTask,        \* UART |-> how far its task is
  notified,      \* UARTs whose txTask has a notification
  trapped        \* an endless loop in an interrupt or an error was reached

hardwareVars == <<nvic, claimed, sources, flags>>
usbVars == <<usb, suspended, asleep>>
taskVars == <<halfDuplex, txTask, rxTask, notified>>
vars == <<program, next, hardwareVars, callbacks, masked, scheduler, delay, usbVars,
          taskVars, trapped>>

Init ==
  /\ program \in DOMAIN Programs
  /\ next = 1
  /\ nvic = [i \in Irqs |-> Disabled]
  /\ claimed = {}
  /\ sources = {}
  /\ flags = {<<u, "tc">> : u \in Uarts}      \* set by reset
  /\ callbacks = [i \in Uarts \cup Streams |-> NoOwner]
  /\ masked = FALSE
  /\ scheduler = FALSE
  /\ delay = 0
  /\ usb = "off"
  /\ suspended = FALSE
  /\ asleep = FALSE
  /\ halfDuplex = {}
  /\ txTask = [u \in Uarts |-> "none"]
  /\ rxTask = [u \in Uarts |-> "none"]
  /\ notified = {}
  /\ trapped = FALSE

(***************************************************************************)
(* main().                                                                 *)
(***************************************************************************)
Call == Programs[program].calls[next]

Calls(name) ==
  /\ ~trapped
  /\ next <= Len(Programs[program].calls)
  /\ Call.call = name

\* The effects of a generated initialisation function.
SetUp(init) ==
  /\ nvic' = [i \in Irqs |-> IF i \in DOMAIN init.irqs THEN init.irqs[i] ELSE nvic[i]]
  /\ claimed' = claimed \cup init.claims
  /\ sources' = sources \cup {<<t, "update">> : t \in init.starts}

InitialisePeripheral ==
  /\ Calls("init")
  /\ SetUp(Call)
  /\ next' = next + 1
  /\ UNCHANGED <<program, flags, callbacks, masked, scheduler, delay, usbVars, taskVars, trapped>>

\* Any other object: xTaskCreateStatic enters its first critical section.
ConstructTask ==
  /\ Calls("Task")
  /\ masked' = TRUE
  /\ next' = next + 1
  /\ UNCHANGED <<program, hardwareVars, callbacks, scheduler, delay, usbVars, taskVars, trapped>>

\* Mutant: one of the three is forgotten.
registerTwoCallbacks(ui) ==
  /\ trapped' = \E i \in {ui.tx, ui.uart} : callbacks[i] # NoOwner
  /\ callbacks' = [i \in Uarts \cup Streams |->
                     IF i \in {ui.tx, ui.uart} THEN ui ELSE callbacks[i]]

\* Mutant: the two streams are mixed up.
registerSwappedStreams(ui) ==
  /\ trapped' = \E i \in Own(ui) : callbacks[i] # NoOwner
  /\ callbacks' = [i \in Uarts \cup Streams |->
                     IF i \in Own(ui) THEN [ui EXCEPT !.tx = ui.rx, !.rx = ui.tx]
                     ELSE callbacks[i]]

\* UartTasks: two tasks, then three callbacks; registerCallback of one that is
\* there already never returns.
registerCallbacks(ui) ==
  /\ trapped' = \E i \in Own(ui) : callbacks[i] # NoOwner
  /\ callbacks' = [i \in Uarts \cup Streams |-> IF i \in Own(ui) THEN ui ELSE callbacks[i]]

ConstructUartTasks ==
  LET u == Call.ui.uart
  IN  /\ Calls("UartTasks")
      /\ registerCallbacks(Call.ui)
      /\ txTask' = [txTask EXCEPT ![u] = "created"]
      /\ rxTask' = [rxTask EXCEPT ![u] = "created"]
      /\ halfDuplex' = IF Call.de = "none" THEN halfDuplex
                       ELSE halfDuplex \cup {<<u, Call.de>>}
      /\ masked' = TRUE
      /\ next' = next + 1
      /\ UNCHANGED <<program, hardwareVars, scheduler, delay, usbVars, notified>>

\* UsbTask up to the wait in USBD_Init; a second one is an error.
ConstructUsbTask ==
  /\ Calls("UsbTask")
  /\ usb # "init"
  /\ trapped' = (usb # "off")
  /\ usb' = "init"
  /\ delay' = DelayTicks
  /\ masked' = TRUE
  /\ SetUp(Programs[program].usb.msp)
  /\ UNCHANGED <<program, next, flags, callbacks, scheduler, suspended, asleep, taskVars>>

\* ... and from there to USBD_Start.
StartUsbDevice ==
  /\ Calls("UsbTask")
  /\ usb = "init"
  /\ delay = 0
  /\ usb' = "attached"
  /\ sources' = sources \cup {<<"OTG_FS", "bus">>}
  /\ next' = next + 1
  /\ UNCHANGED <<program, nvic, claimed, flags, callbacks, masked, scheduler, delay,
                 suspended, asleep, taskVars, trapped>>

\* vTaskStartScheduler starts the timer of the run time statistics; the first
\* task runs with nothing masked.
StartScheduler ==
  /\ Calls("vTaskStartScheduler")
  /\ scheduler' = TRUE
  /\ masked' = FALSE
  /\ sources' = sources \cup {<<"TIM11", "update">>}
  /\ next' = next + 1
  /\ UNCHANGED <<program, nvic, claimed, flags, callbacks, delay, usbVars, taskVars, trapped>>

Main ==
  \/ InitialisePeripheral \/ ConstructTask \/ ConstructUartTasks
  \/ ConstructUsbTask \/ StartUsbDevice \/ StartScheduler

(***************************************************************************)
(* The tasks.  Those that transmit have the higher priority: the others    *)
(* wait until each of them waits for data.                                 *)
(***************************************************************************)
osPriorityNormal == 0
osPriorityAboveNormal == 1
txPriority == osPriorityAboveNormal
rxPriorityRaised == osPriorityAboveNormal
rxPriority == osPriorityNormal

TxMayRun(u) ==
  /\ scheduler /\ ~asleep /\ ~trapped
  /\ rxPriority > txPriority => \A v \in Uarts : rxTask[v] \in {"none", "waiting"}
RxMayRun(u) ==
  /\ scheduler /\ ~asleep /\ ~trapped
  /\ txPriority > rxPriority => \A v \in Uarts : txTask[v] \in {"none", "waiting"}

IsHalfDuplex(u) == \E h \in halfDuplex : h[1] = u

\* txFunc up to the flag that reset has set, in half duplex.
ClearFlagTC(u) ==
  /\ TxMayRun(u)
  /\ txTask[u] = "created"
  /\ IsHalfDuplex(u)
  /\ flags' = flags \ {<<u, "tc">>}
  /\ txTask' = [txTask EXCEPT ![u] = "cleared"]
  /\ UNCHANGED <<program, next, nvic, claimed, sources, callbacks, masked, scheduler, delay,
                 usbVars, halfDuplex, rxTask, notified, trapped>>

\* The interrupt of its mode; then readAll waits for the first data.
EnableIT(u) ==
  /\ TxMayRun(u)
  /\ txTask[u] = IF IsHalfDuplex(u) THEN "cleared" ELSE "created"
  /\ sources' = sources \cup {IF IsHalfDuplex(u) THEN <<u, "tc">>
                              ELSE <<callbacks[u].tx, "transfer">>}
  /\ txTask' = [txTask EXCEPT ![u] = "waiting"]
  /\ UNCHANGED <<program, next, nvic, claimed, flags, callbacks, masked, scheduler, delay,
                 usbVars, halfDuplex, rxTask, notified, trapped>>

\* rxFunc: the interrupts of its stream and of an idle line ...
EnableRxInterrupts(u) ==
  /\ RxMayRun(u)
  /\ rxTask[u] = "created"
  /\ sources' = sources \cup {<<callbacks[u].rx, "transfer">>, <<u, "idle">>}
  /\ rxTask' = [rxTask EXCEPT ![u] = "enabled"]
  /\ UNCHANGED <<program, next, nvic, claimed, flags, callbacks, masked, scheduler, delay,
                 usbVars, halfDuplex, txTask, notified, trapped>>

\* ... then the stream itself.
EnableStream(u) ==
  /\ RxMayRun(u)
  /\ rxTask[u] = "enabled"
  /\ rxTask' = [rxTask EXCEPT ![u] = "waiting"]
  /\ UNCHANGED <<program, next, hardwareVars, callbacks, masked, scheduler, delay, usbVars,
                 halfDuplex, txTask, notified, trapped>>

Tasks(u) ==
  \/ ClearFlagTC(u) \/ EnableIT(u) \/ EnableRxInterrupts(u) \/ EnableStream(u)

(***************************************************************************)
(* The hardware.                                                           *)
(***************************************************************************)
\* An idle line is noticed by every UART that is on, a full half of the
\* receive buffer once the stream runs; timers and bus when started.
MayRaise(f) ==
  \/ f[2] = "idle" /\ nvic[f[1]] # Disabled
  \/ f[2] = "transfer" /\ \E u \in Uarts : rxTask[u] = "waiting" /\ callbacks[u].rx = f[1]
  \/ f[2] \in {"update", "bus"} /\ f \in sources

Raisable ==
  {<<u, "idle">> : u \in Uarts} \cup {<<s, "transfer">> : s \in Streams}
    \cup {<<"TIM8", "update">>, <<"TIM11", "update">>, <<"OTG_FS", "bus">>}

Raise(f) ==
  /\ MayRaise(f)
  /\ \/ f \in flags \/ f[2] \in {"update", "bus"}
     \/ Cardinality({g \in flags : g[2] \in {"idle", "transfer"}}) < MaxRaised
  /\ flags' = flags \cup {f}
  /\ UNCHANGED <<program, next, nvic, claimed, sources, callbacks, masked, scheduler, delay,
                 usbVars, taskVars, trapped>>

(***************************************************************************)
(* Interrupts.                                                             *)
(***************************************************************************)
Pending(i) == \E f \in flags \cap sources : f[1] = i

Taken(i) ==
  /\ ~trapped
  /\ nvic[i] # Disabled
  /\ Pending(i)
  /\ masked => nvic[i] < P!MaxSyscallPriority

Vectors == Programs[program].vectors

Handles(i, kind) == Vectors[i].handler = kind

\* The kernel's functions for interrupts assert the priority of their caller.
KernelCallAllowed(i) == nvic[i] >= P!MaxSyscallPriority

\* dmaRxCallback or dmaTxCallback, which clears the flags of its own stream;
\* the latter expects no interrupt in half duplex.
DmaInterrupt(i) ==
  LET s == Vectors[i].of
      owner == callbacks[s]
  IN  /\ Taken(i)
      /\ Handles(i, "dma")
      /\ flags' = flags \ {<<s, "transfer">>}
      /\ trapped' = \/ owner = NoOwner
                    \/ ~KernelCallAllowed(i)
                    \/ owner.tx = s /\ IsHalfDuplex(owner.uart)
      /\ UNCHANGED <<program, next, nvic, claimed, sources, callbacks, masked, scheduler,
                     delay, usbVars, taskVars>>

\* uartCallback looks at the transmit-complete flag in half duplex only, but
\* whatever it was called for.
uartCallback(u) ==
  LET complete == IsHalfDuplex(u) /\ <<u, "tc">> \in flags
  IN  /\ flags' = flags \ ({<<u, "idle">>} \cup (IF complete THEN {<<u, "tc">>} ELSE {}))
      /\ notified' = IF complete THEN notified \cup {u} ELSE notified

UartInterrupt(i) ==
  LET u == Vectors[i].of
  IN  /\ Taken(i)
      /\ Handles(i, "uart")
      /\ uartCallback(u)
      /\ trapped' = \/ callbacks[u] = NoOwner
                    \/ ~KernelCallAllowed(i)
      /\ UNCHANGED <<program, next, nvic, claimed, sources, callbacks, masked, scheduler,
                     delay, usbVars, halfDuplex, txTask, rxTask>>

\* HAL_TIM_PeriodElapsedCallback counts for TIM8 only.
TimerInterrupt(i) ==
  /\ Taken(i)
  /\ Handles(i, "timer")
  /\ flags' = flags \ {<<Vectors[i].of, "update">>}
  /\ delay' = IF Vectors[i].of = "TIM8" /\ delay > 0 THEN delay - 1 ELSE delay
  /\ UNCHANGED <<program, next, nvic, claimed, sources, callbacks, masked, scheduler,
                 usbVars, taskVars, trapped>>

\* The callbacks of the USB driver.  The host resets the bus, then configures
\* the device, perhaps more than once, and exchanges data; it may suspend the
\* bus, which puts the processor to sleep for good if the driver was set up for
\* low power, and the device may be unplugged and plugged in again.
HAL_PCD_ResetCallback ==
  /\ usb' = "default"
  /\ suspended' = FALSE
  /\ UNCHANGED asleep
HAL_PCD_SetupStageCallback ==
  /\ usb \in {"default", "configured"} /\ ~suspended
  /\ usb' \in {usb, "configured"}
  /\ UNCHANGED <<suspended, asleep>>
HAL_PCD_SuspendCallback ==
  /\ ~suspended
  /\ suspended' = TRUE
  /\ asleep' = (asleep \/ Programs[program].usb.low_power_enable)
  /\ UNCHANGED usb
HAL_PCD_ResumeCallback ==
  /\ suspended
  /\ suspended' = FALSE
  /\ UNCHANGED <<usb, asleep>>

HAL_PCD_DisconnectCallback ==
  /\ usb' = "attached"
  /\ UNCHANGED <<suspended, asleep>>
HAL_PCD_ConnectCallback == usb = "attached" /\ UNCHANGED usbVars
HAL_PCD_DataOutStageCallback ==
  usb \in {"default", "configured"} /\ ~suspended /\ UNCHANGED usbVars
HAL_PCD_DataInStageCallback == HAL_PCD_DataOutStageCallback

\* They need the object and, behind it, the tasks and buffers of UsbTask.
UsbInterrupt(i) ==
  /\ Taken(i)
  /\ Handles(i, "usb")
  /\ flags' = flags \ {<<Vectors[i].of, "bus">>}
  /\ trapped' = (usb \in {"off", "init"} \/ ~KernelCallAllowed(i))
  /\ \/ HAL_PCD_ResetCallback \/ HAL_PCD_SetupStageCallback
     \/ HAL_PCD_SuspendCallback \/ HAL_PCD_ResumeCallback
     \/ HAL_PCD_ConnectCallback \/ HAL_PCD_DisconnectCallback
     \/ HAL_PCD_DataOutStageCallback \/ HAL_PCD_DataInStageCallback
  /\ UNCHANGED <<program, next, nvic, claimed, sources, callbacks, masked, scheduler,
                 delay, taskVars>>

Interrupt(i) ==
  \/ DmaInterrupt(i) \/ UartInterrupt(i) \/ TimerInterrupt(i) \/ UsbInterrupt(i)

(***************************************************************************)
(* Specification.                                                          *)
(***************************************************************************)
Next ==
  \/ Main
  \/ \E u \in Uarts : Tasks(u)
  \/ \E f \in Raisable : Raise(f)
  \/ \E i \in Irqs : Interrupt(i)

\* The processor goes on, every task gets its turn, and the tick of TIM8 does
\* not stop and is taken when it can be.
Fairness ==
  /\ WF_vars(Main)
  /\ \A u \in Uarts : WF_vars(Tasks(u))
  /\ WF_vars(Raise(<<"TIM8", "update">>))
  /\ WF_vars(Interrupt("TIM8"))

Spec == Init /\ [][Next]_vars /\ Fairness

(***************************************************************************)
(* Properties.                                                             *)
(***************************************************************************)
\* No interrupt finds an empty callback, an object that is not there yet or a
\* priority the kernel refuses, no callback is registered twice, and no
\* interrupt is left to Default_Handler: the endless loops of isr_callbacks.cpp,
\* of the vector table and of configASSERT are never reached, in any program of
\* the two projects.
NothingTraps ==
  /\ ~trapped
  /\ \A i \in Irqs : Taken(i) => ~Handles(i, "default")

\* A stream and a pin serve one purpose each, and the streams a running task
\* uses (uart_info.h) are those its UART was set up with (usart.c), with
\* their interrupts enabled (dma.c); the pin that turns the line around is
\* an output.
ResourcesUnshared ==
  /\ Cardinality({c[1] : c \in claimed}) = Cardinality(claimed)
  /\ \A u \in Uarts : txTask[u] = "waiting" =>
       /\ <<callbacks[u].tx, u, "tx">> \in claimed
       /\ nvic[callbacks[u].tx] # Disabled /\ nvic[u] # Disabled
       /\ \A h \in halfDuplex : h[1] = u => <<h[2], "gpio", "out">> \in claimed
  /\ \A u \in Uarts : rxTask[u] = "waiting" =>
       /\ <<callbacks[u].rx, u, "rx">> \in claimed
       /\ nvic[callbacks[u].rx] # Disabled /\ nvic[u] # Disabled

\* A notification of txFunc says that a transmission ended.  The flag that
\* reset sets must not become one: it would be taken for the end of the
\* first transmission, and the line turned around in the middle of it.
NoticeIsEarned == notified = {}

\* main() gets to the scheduler, although HAL_Delay waits in a constructor
\* while interrupts are masked, and every UART task gets to its loop, whatever
\* the host does with the bus.
StartUpEnds ==
  <>[](/\ scheduler
       /\ \A u \in Uarts : txTask[u] \in {"none", "waiting"}
                           /\ rxTask[u] \in {"none", "waiting"})
=============================================================================
