----------------------------- MODULE StartUpProofs -----------------------------
(***************************************************************************)
(* Start-up, for any program of which ProgramsAssumption is true: however  *)
(* many calls main() consists of, in whatever order, with whatever UARTs,  *)
(* and at whatever moment the interrupts arrive.                           *)
(*                                                                         *)
(* The argument: an interrupt has a source only if the task of a UART that *)
(* was constructed enabled it, so its callbacks are registered; tasks run  *)
(* only when main() has constructed all there is; and those that transmit  *)
(* run first, so the flag that reset has set is gone before the first      *)
(* interrupt of a UART.                                                    *)
(*                                                                         *)
(* With ResourcesAssumption, what a task uses is set up when it waits, and *)
(* nothing set up is ever lost: the order of the initialisations does not  *)
(* matter.                                                                 *)
(***************************************************************************)
EXTENDS StartUp, FiniteSetTheorems, TLAPS

Infos == [uart : Uarts, tx : Streams, rx : Streams]

On == {"attached", "default", "configured"}

Types ==
  /\ program \in DOMAIN Programs
  /\ next \in Nat \ {0}
  /\ nvic \in [Irqs -> Nat]
  /\ callbacks \in [Uarts \cup Streams -> Infos \cup {NoOwner}]
  /\ txTask \in [Uarts -> {"none", "created", "cleared", "waiting"}]
  /\ rxTask \in [Uarts -> {"none", "created", "enabled", "waiting"}]
  /\ usb \in {"off", "init"} \cup On
  /\ scheduler \in BOOLEAN

\* An interrupt that may use the kernel has a priority the kernel allows.
Priorities == \A i \in KernelIrqs : nvic[i] >= P!MaxSyscallPriority

\* main()'s calls so far.
Done == {k \in DOMAIN Programs[program].calls : k < next}

\* What is registered, somebody has registered, for all three instances.
Owned(i) ==
  \E k \in Done \cap UartCalls(Programs[program].calls) :
    LET ui == Programs[program].calls[k].ui
    IN  i \in Own(ui) /\ \A j \in Own(ui) : callbacks[j] = ui

Registration == \A i \in Uarts \cup Streams : callbacks[i] # NoOwner => Owned(i)

TasksConstructed ==
  \A u \in Uarts : txTask[u] # "none" \/ rxTask[u] # "none" \/ IsHalfDuplex(u)
                     => callbacks[u] # NoOwner /\ txTask[u] # "none"

\* Tasks run once the scheduler does, and then nothing is left to construct.
SchedulerLast ==
  /\ scheduler => next > Len(Programs[program].calls)
  /\ ~scheduler => \A u \in Uarts : txTask[u] \in {"none", "created"}
                                    /\ rxTask[u] \in {"none", "created"}

\* The tasks that transmit go first.
TransmittersFirst ==
  \A u \in Uarts : rxTask[u] \in {"enabled", "waiting"} =>
    \A v \in Uarts : txTask[v] \in {"none", "waiting"}

\* The flag that reset has set is gone before a transmitter in half duplex waits.
FlagCleared ==
  \A u \in Uarts : txTask[u] \in {"cleared", "waiting"} /\ IsHalfDuplex(u)
                     => <<u, "tc">> \notin flags

UsbOnce ==
  usb \in On => \E k \in Done : Programs[program].calls[k].call = "UsbTask"

\* Who has enabled a source.
EnabledByTask(s, u) ==
  \/ rxTask[u] \in {"enabled", "waiting"}
       /\ s \in {<<u, "idle">>, <<callbacks[u].rx, "transfer">>}
  \/ txTask[u] = "waiting" /\ IsHalfDuplex(u) /\ s = <<u, "tc">>
  \/ txTask[u] = "waiting" /\ ~IsHalfDuplex(u) /\ s = <<callbacks[u].tx, "transfer">>

Justified(s) ==
  \/ \E t \in Timers : s = <<t, "update">>
  \/ s = <<"OTG_FS", "bus">> /\ usb \in On
  \/ \E u \in Uarts : EnabledByTask(s, u)

SourcesJustified == \A s \in sources : Justified(s)

IInv ==
  /\ Types /\ Priorities /\ Registration /\ TasksConstructed /\ SchedulerLast
  /\ TransmittersFirst /\ FlagCleared /\ UsbOnce /\ SourcesJustified
  /\ ~trapped /\ NoticeIsEarned
-------------------------------------------------------------------------------
(* What is known of the program, and of an interrupt that is taken. *)

LEMMA Names ==
  /\ Uarts \cap Streams = {} /\ "none" \notin Uarts
  /\ Timers \cap KernelIrqs = {} /\ "OTG_FS" \notin Uarts \cup Streams
  /\ Uarts \cup Streams \cup Timers \cup {"OTG_FS"} \subseteq Irqs
  /\ KernelIrqs = Uarts \cup Streams \cup {"OTG_FS"}
  BY DEF Uarts, Streams, Irqs, KernelIrqs, Timers, P!Uarts, P!Streams, P!Interrupts

LEMMA Program ==
  ASSUME Types
  PROVE  WellFormed(Programs[program])
  BY ProgramsAssumption DEF Types

LEMMA UartCall ==
  ASSUME Types, NEW k \in UartCalls(Programs[program].calls)
  PROVE  LET ui == Programs[program].calls[k].ui
         IN  /\ k \in DOMAIN Programs[program].calls
             /\ ui \in Infos /\ ui.uart \in Uarts /\ ui.tx \in Streams /\ ui.rx \in Streams
             /\ ui.tx # ui.rx /\ ui # NoOwner
             /\ \A i \in Own(ui) : Vectors[i].handler # "default"
             /\ \A l \in UartCalls(Programs[program].calls) \ {k} :
                  Own(ui) \cap Own(Programs[program].calls[l].ui) = {}
  <1> DEFINE ui == Programs[program].calls[k].ui
  <1>1. /\ ui \in Infos /\ ui.tx # ui.rx
        /\ \A i \in Own(ui) : Vectors[i].handler # "default"
        /\ \A l \in UartCalls(Programs[program].calls) \ {k} :
             Own(ui) \cap Own(Programs[program].calls[l].ui) = {}
    BY Program DEF WellFormed, Infos, Vectors
  <1>2. ui.uart \in Uarts /\ ui.tx \in Streams /\ ui.rx \in Streams
    BY <1>1 DEF Infos
  <1>3. ui # NoOwner
    BY <1>2, Names DEF NoOwner
  <1> QED
    BY <1>1, <1>2, <1>3 DEF UartCalls

LEMMA OwnerOf ==
  ASSUME Types, Registration, NEW u \in Uarts, callbacks[u] # NoOwner
  PROVE  LET ui == callbacks[u]
         IN  /\ ui \in Infos /\ ui.uart = u /\ ui.tx \in Streams /\ ui.rx \in Streams
             /\ ui.tx # ui.rx /\ ui # NoOwner
             /\ callbacks[ui.tx] = ui /\ callbacks[ui.rx] = ui
             /\ \A i \in {u, ui.tx, ui.rx} : Vectors[i].handler # "default"
  <1>1. PICK k \in Done \cap UartCalls(Programs[program].calls) :
               LET ui == Programs[program].calls[k].ui
               IN  u \in Own(ui) /\ \A j \in Own(ui) : callbacks[j] = ui
    BY DEF Registration, Owned
  <1> DEFINE ui == Programs[program].calls[k].ui
  <1>2. /\ ui \in Infos /\ ui.uart \in Uarts /\ ui.tx \in Streams /\ ui.rx \in Streams
        /\ ui.tx # ui.rx /\ ui # NoOwner /\ \A i \in Own(ui) : Vectors[i].handler # "default"
    BY <1>1, UartCall
  <1>3. u \in Own(ui) /\ \A j \in Own(ui) : callbacks[j] = ui
    BY <1>1
  <1> HIDE DEF ui
  <1>4. ui.uart = u
    BY <1>2, <1>3, Names DEF Own
  <1>5. callbacks[u] = ui /\ callbacks[ui.tx] = ui /\ callbacks[ui.rx] = ui
        /\ u \in Own(ui) /\ ui.tx \in Own(ui) /\ ui.rx \in Own(ui)
    BY <1>3 DEF Own
  <1> QED
    BY <1>2, <1>4, <1>5

LEMMA TakenIs ==
  ASSUME IInv, NEW i \in Irqs, Taken(i)
  PROVE  /\ ~Handles(i, "default")
         /\ Handles(i, "dma") =>
              /\ Vectors[i].of = i /\ callbacks[i] # NoOwner /\ KernelCallAllowed(i)
              /\ ~(callbacks[i].tx = i /\ IsHalfDuplex(callbacks[i].uart))
         /\ Handles(i, "uart") =>
              /\ i \in Uarts /\ Vectors[i].of = i
              /\ callbacks[i] # NoOwner /\ KernelCallAllowed(i)
              /\ IsHalfDuplex(i) => <<i, "tc">> \notin flags
         /\ Handles(i, "usb") => usb \in On /\ KernelCallAllowed(i)
  <1>1. PICK f \in flags \cap sources : f[1] = i
    BY DEF Taken, Pending
  <1>2. Justified(f)
    BY <1>1 DEF IInv, SourcesJustified
  <1>3. /\ Types /\ Priorities /\ Registration /\ TasksConstructed
        /\ TransmittersFirst /\ FlagCleared
    BY DEF IInv
  <1>4. /\ Vectors[i].handler \in {"dma", "uart", "timer", "usb"} => Vectors[i].of = i
        /\ Vectors[i].handler = "dma" => i \in Streams
        /\ Vectors[i].handler = "uart" => i \in Uarts
        /\ Vectors[i].handler = "usb" => i = "OTG_FS"
        /\ \A j \in Timers \cup {"OTG_FS"} : Vectors[j].handler # "default"
    BY <1>3, Program DEF WellFormed, Vectors
  <1>5. i \in KernelIrqs => KernelCallAllowed(i)
    BY <1>3 DEF Priorities, KernelCallAllowed
  <1>6. CASE \E t \in Timers : f = <<t, "update">>
    <2>1. i \in Timers
      BY <1>1, <1>6
    <2> QED
      BY <1>4, <2>1, Names DEF Handles
  <1>7. CASE f = <<"OTG_FS", "bus">> /\ usb \in On
    <2>1. i = "OTG_FS"
      BY <1>1, <1>7
    <2> QED
      BY <1>4, <1>5, <1>7, <2>1, Names DEF Handles
  <1>8. CASE \E u \in Uarts : EnabledByTask(f, u)
    <2>1. PICK u \in Uarts : EnabledByTask(f, u)
      BY <1>8
    <2>2. callbacks[u] # NoOwner /\ txTask[u] # "none"
      BY <1>3, <2>1 DEF TasksConstructed, EnabledByTask
    <2> DEFINE ui == callbacks[u]
    <2>3. /\ ui.uart = u /\ ui.tx \in Streams /\ ui.rx \in Streams
          /\ ui.tx # ui.rx /\ ui # NoOwner /\ callbacks[ui.tx] = ui /\ callbacks[ui.rx] = ui
          /\ \A j \in {u, ui.tx, ui.rx} : Vectors[j].handler # "default"
      BY <1>3, <2>2, OwnerOf
    <2>4. CASE i = u
      <3>1. i \in KernelIrqs /\ i \in Uarts /\ i \notin Streams /\ i # "OTG_FS"
        BY <2>4, Names
      <3>2. f \in {<<u, "idle">>, <<u, "tc">>}
        BY <1>1, <2>1, <2>3, <2>4, <3>1 DEF EnabledByTask
      <3>3. f \in flags
        BY <1>1
      <3>4. IsHalfDuplex(u) => <<u, "tc">> \notin flags
        <4>1. CASE f = <<u, "tc">>
          BY <1>3, <2>1, <2>3, <3>1, <3>3, <4>1 DEF EnabledByTask, FlagCleared
        <4>2. CASE f = <<u, "idle">>
          <5>1. rxTask[u] \in {"enabled", "waiting"}
            BY <2>1, <4>2 DEF EnabledByTask
          <5>2. txTask[u] = "waiting"
            BY <1>3, <2>2, <5>1 DEF TransmittersFirst
          <5> QED
            BY <1>3, <5>2 DEF FlagCleared
        <4> QED
          BY <3>2, <4>1, <4>2
      <3> QED
        BY <1>4, <1>5, <2>2, <2>3, <2>4, <3>1, <3>4 DEF Handles
    <2>5. CASE i # u
      <3>1. i \in {ui.tx, ui.rx} /\ (i = ui.tx => ~IsHalfDuplex(u))
        BY <1>1, <2>1, <2>3, <2>5 DEF EnabledByTask
      <3>2. i \in Streams /\ i \in KernelIrqs /\ i \notin Uarts /\ i # "OTG_FS"
            /\ callbacks[i] = ui
        BY <2>3, <3>1, Names
      <3> QED
        BY <1>4, <1>5, <2>3, <3>1, <3>2 DEF Handles
    <2> QED
      BY <2>4, <2>5
  <1> QED
    BY <1>2, <1>6, <1>7, <1>8 DEF Justified

-------------------------------------------------------------------------------
(* The parts of the invariant that a step keeps. *)

\* main() and the interrupts leave the tasks where they are.
Frame ==
  /\ UNCHANGED <<program, callbacks, txTask, rxTask, halfDuplex>>
  /\ next' \in Nat /\ next' >= next

LEMMA FrameKeeps ==
  ASSUME IInv, Frame
  PROVE  /\ Registration' /\ TasksConstructed' /\ TransmittersFirst'
         /\ (scheduler' = scheduler => SchedulerLast')
         /\ (\A u \in Uarts : <<u, "tc">> \in flags' => <<u, "tc">> \in flags) => FlagCleared'
         /\ \A s, u : EnabledByTask(s, u)' = EnabledByTask(s, u)
  <1>1. /\ Types /\ Registration /\ TasksConstructed /\ TransmittersFirst /\ SchedulerLast
        /\ FlagCleared /\ next \in Nat
    BY DEF IInv, Types
  <1>2. /\ program' = program /\ callbacks' = callbacks /\ txTask' = txTask
        /\ rxTask' = rxTask /\ halfDuplex' = halfDuplex /\ next' \in Nat /\ next' >= next
    BY DEF Frame
  <1>3. \A u : IsHalfDuplex(u)' = IsHalfDuplex(u)
    BY <1>2 DEF IsHalfDuplex
  <1>4. \A k \in Done : k \in Done'
    <2>1. \A k \in DOMAIN Programs[program].calls : k \in Nat
      BY <1>1, Program DEF WellFormed
    <2> QED
      BY <1>1, <1>2, <2>1 DEF Done
  <1>5. Registration'
    BY <1>1, <1>2, <1>4 DEF Registration, Owned
  <1>6. TasksConstructed' /\ TransmittersFirst'
    BY <1>1, <1>2, <1>3 DEF TasksConstructed, TransmittersFirst
  <1>7. scheduler' = scheduler => SchedulerLast'
    <2>1. Len(Programs[program].calls) \in Nat
      BY <1>1, Program DEF WellFormed
    <2> QED
      BY <1>1, <1>2, <2>1 DEF SchedulerLast
  <1>8. (\A u \in Uarts : <<u, "tc">> \in flags' => <<u, "tc">> \in flags) => FlagCleared'
    BY <1>1, <1>2, <1>3 DEF FlagCleared
  <1>9. \A s, u : EnabledByTask(s, u)' = EnabledByTask(s, u)
    BY <1>2, <1>3 DEF EnabledByTask
  <1> QED
    BY <1>5, <1>6, <1>7, <1>8, <1>9

LEMMA UsbKept ==
  ASSUME IInv, program' = program, next' \in Nat, next' >= next, usb' \in On => usb \in On
  PROVE  UsbOnce'
  <1>1. Types /\ UsbOnce /\ next \in Nat
    BY DEF IInv, Types
  <1>2. \A k \in Done : k \in Done'
    <2>1. \A k \in DOMAIN Programs[program].calls : k \in Nat
      BY <1>1, Program DEF WellFormed
    <2> QED
      BY <1>1, <2>1 DEF Done
  <1> QED
    BY <1>1, <1>2 DEF UsbOnce

LEMMA SourcesKept ==
  ASSUME IInv, usb \in On => usb' \in On,
         \A s \in sources, u \in Uarts : EnabledByTask(s, u) => EnabledByTask(s, u)',
         \A s \in sources' : s \in sources \/ Justified(s)'
  PROVE  SourcesJustified'
  <1>1. ASSUME NEW s \in sources
        PROVE  Justified(s)'
    BY DEF IInv, SourcesJustified, Justified
  <1> QED
    BY <1>1 DEF SourcesJustified

\* A generated function may enable interrupts and start timers.
LEMMA SetUpKeeps ==
  ASSUME IInv, NEW init, GivesGoodPriorities(init), SetUp(init)
  PROVE  /\ nvic' \in [Irqs -> Nat] /\ Priorities'
         /\ \A s \in sources' : s \in sources \/ Justified(s)'
  <1>1. nvic \in [Irqs -> Nat] /\ Priorities
    BY DEF IInv, Types
  <1>2. nvic' \in [Irqs -> Nat]
    BY <1>1 DEF SetUp, GivesGoodPriorities
  <1>3. ASSUME NEW i \in KernelIrqs
        PROVE  nvic'[i] >= P!MaxSyscallPriority
    <2>1. i \in Irqs /\ nvic[i] >= P!MaxSyscallPriority
      BY <1>1, Names DEF Priorities
    <2>2. nvic'[i] = IF i \in DOMAIN init.irqs THEN init.irqs[i] ELSE nvic[i]
      BY <2>1 DEF SetUp
    <2> QED
      BY <2>1, <2>2 DEF GivesGoodPriorities
  <1>4. \A s \in sources' : s \in sources \/ Justified(s)'
    BY DEF SetUp, GivesGoodPriorities, Justified
  <1> QED
    BY <1>2, <1>3, <1>4 DEF Priorities

-------------------------------------------------------------------------------
(* main() *)

LEMMA CallIs ==
  ASSUME Types, NEW name, Calls(name)
  PROVE  /\ next \in DOMAIN Programs[program].calls /\ next \in Nat
         /\ Programs[program].calls[next].call = name
         /\ next <= Len(Programs[program].calls) /\ Len(Programs[program].calls) \in Nat
         /\ next \notin Done /\ next + 1 \in Nat \ {0} /\ next + 1 >= next
  <1>1. Len(Programs[program].calls) \in Nat
        /\ DOMAIN Programs[program].calls = 1 .. Len(Programs[program].calls)
    BY Program DEF WellFormed
  <1>2. next \in Nat \ {0} /\ next <= Len(Programs[program].calls)
    BY DEF Types, Calls
  <1> QED
    BY <1>1, <1>2 DEF Done, Calls, Call

LEMMA InitialiseKeeps ==
  ASSUME IInv, InitialisePeripheral
  PROVE  IInv'
  <1>1. Types /\ SchedulerLast /\ ~trapped /\ NoticeIsEarned
    BY DEF IInv
  <1>2. /\ next \in DOMAIN Programs[program].calls /\ next + 1 \in Nat \ {0}
        /\ next + 1 >= next /\ Programs[program].calls[next].call = "init"
    BY <1>1, CallIs DEF InitialisePeripheral
  <1>3. GivesGoodPriorities(Call) /\ SetUp(Call)
    BY <1>1, <1>2, Program DEF WellFormed, Call, InitialisePeripheral
  <1>4. nvic' \in [Irqs -> Nat] /\ Priorities'
        /\ \A s \in sources' : s \in sources \/ Justified(s)'
    <2> HIDE DEF IInv
    <2> QED
      BY <1>3, SetUpKeeps
  <1>5. Frame /\ scheduler' = scheduler /\ usb' = usb /\ flags' = flags /\ notified' = notified
        /\ trapped' = trapped /\ next' = next + 1 /\ program' = program
    BY <1>2 DEF InitialisePeripheral, Frame, usbVars, taskVars
  <1>6. /\ Registration' /\ TasksConstructed' /\ TransmittersFirst' /\ SchedulerLast'
        /\ FlagCleared' /\ \A s, u : EnabledByTask(s, u)' = EnabledByTask(s, u)
    BY <1>5, FrameKeeps
  <1>7. UsbOnce'
    BY <1>2, <1>5, UsbKept
  <1>8. SourcesJustified'
    BY <1>4, <1>5, <1>6, SourcesKept
  <1>9. Types'
    BY <1>1, <1>2, <1>4, <1>5 DEF Types, Frame
  <1> QED
    BY <1>1, <1>4, <1>5, <1>6, <1>7, <1>8, <1>9 DEF IInv, NoticeIsEarned

LEMMA ConstructTaskKeeps ==
  ASSUME IInv, ConstructTask
  PROVE  IInv'
  <1>1. Types /\ Priorities /\ ~trapped /\ NoticeIsEarned
    BY DEF IInv
  <1>2. next + 1 \in Nat \ {0} /\ next + 1 >= next
    BY <1>1, CallIs DEF ConstructTask
  <1>3. /\ Frame /\ scheduler' = scheduler /\ usb' = usb /\ flags' = flags
        /\ notified' = notified /\ trapped' = trapped /\ next' = next + 1 /\ nvic' = nvic
        /\ sources' = sources /\ program' = program
    BY <1>2 DEF ConstructTask, Frame, hardwareVars, usbVars, taskVars
  <1>4. /\ Registration' /\ TasksConstructed' /\ TransmittersFirst' /\ SchedulerLast'
        /\ FlagCleared' /\ \A s, u : EnabledByTask(s, u)' = EnabledByTask(s, u)
    BY <1>3, FrameKeeps
  <1>5. UsbOnce' /\ SourcesJustified'
    BY <1>2, <1>3, <1>4, UsbKept, SourcesKept
  <1>6. Types' /\ Priorities'
    BY <1>1, <1>2, <1>3 DEF Types, Frame, Priorities
  <1> QED
    BY <1>1, <1>3, <1>4, <1>5, <1>6 DEF IInv, NoticeIsEarned

LEMMA ConstructUsbKeeps ==
  ASSUME IInv, ConstructUsbTask
  PROVE  IInv'
  <1>1. Types /\ UsbOnce /\ NoticeIsEarned
    BY DEF IInv
  <1>2. /\ next \in DOMAIN Programs[program].calls /\ next \notin Done /\ next \in Nat
        /\ Programs[program].calls[next].call = "UsbTask"
    BY <1>1, CallIs DEF ConstructUsbTask
  <1>3. usb = "off"
    <2>1. \A k \in Done : Programs[program].calls[k].call = "UsbTask" => k = next
      BY <1>1, <1>2, Program DEF WellFormed, Done
    <2>2. usb \notin On
      BY <1>1, <1>2, <2>1 DEF UsbOnce
    <2> QED
      BY <1>1, <2>2 DEF ConstructUsbTask, Types
  <1>4. GivesGoodPriorities(Programs[program].usb.msp)
    BY <1>1, Program DEF WellFormed
  <1>5. nvic' \in [Irqs -> Nat] /\ Priorities'
        /\ \A s \in sources' : s \in sources \/ Justified(s)'
    BY <1>4, SetUpKeeps DEF ConstructUsbTask
  <1>6. /\ Frame /\ scheduler' = scheduler /\ usb' = "init" /\ flags' = flags
        /\ notified' = notified /\ next' = next /\ ~trapped' /\ program' = program
    <2>1. ~trapped'
      BY <1>3 DEF ConstructUsbTask
    <2>2. Frame
      BY <1>2 DEF ConstructUsbTask, Frame, taskVars
    <2>3. next' = next /\ scheduler' = scheduler /\ usb' = "init" /\ flags' = flags
          /\ notified' = notified /\ program' = program
      BY DEF ConstructUsbTask, taskVars
    <2> QED
      BY <2>1, <2>2, <2>3
  <1>7. /\ Registration' /\ TasksConstructed' /\ TransmittersFirst' /\ SchedulerLast'
        /\ FlagCleared' /\ \A s, u : EnabledByTask(s, u)' = EnabledByTask(s, u)
    BY <1>6, FrameKeeps
  <1>8. usb \notin On /\ usb' \notin On
    BY <1>3, <1>6 DEF On
  <1>9. UsbOnce' /\ SourcesJustified'
    BY <1>2, <1>5, <1>6, <1>7, <1>8, UsbKept, SourcesKept
  <1>10. Types'
    BY <1>1, <1>2, <1>5, <1>6 DEF Types, Frame
  <1> QED
    BY <1>1, <1>5, <1>6, <1>7, <1>9, <1>10 DEF IInv, NoticeIsEarned

LEMMA StartUsbKeeps ==
  ASSUME IInv, StartUsbDevice
  PROVE  IInv'
  <1>1. Types /\ Priorities /\ ~trapped /\ NoticeIsEarned
    BY DEF IInv
  <1>2. /\ next \in DOMAIN Programs[program].calls /\ next \in Nat /\ next + 1 \in Nat \ {0}
        /\ next + 1 >= next /\ Programs[program].calls[next].call = "UsbTask"
    BY <1>1, CallIs DEF StartUsbDevice
  <1>3. /\ Frame /\ scheduler' = scheduler /\ usb = "init" /\ usb' = "attached"
        /\ flags' = flags /\ notified' = notified /\ trapped' = trapped /\ next' = next + 1
        /\ nvic' = nvic /\ sources' = sources \cup {<<"OTG_FS", "bus">>}
        /\ program' = program
    BY <1>2 DEF StartUsbDevice, Frame, taskVars
  <1>4. /\ Registration' /\ TasksConstructed' /\ TransmittersFirst' /\ SchedulerLast'
        /\ FlagCleared' /\ \A s, u : EnabledByTask(s, u)' = EnabledByTask(s, u)
    BY <1>3, FrameKeeps
  <1>5. UsbOnce'
    <2>1. next \in Done'
      BY <1>2, <1>3 DEF Done
    <2> QED
      BY <1>2, <1>3, <2>1 DEF UsbOnce
  <1>6. Justified(<<"OTG_FS", "bus">>)' /\ usb' \in On
    BY <1>3 DEF Justified, On
  <1>7. SourcesJustified'
    BY <1>3, <1>4, <1>6, SourcesKept
  <1>8. Types' /\ Priorities'
    BY <1>1, <1>2, <1>3, <1>6 DEF Types, Frame, Priorities
  <1> QED
    BY <1>1, <1>3, <1>4, <1>5, <1>7, <1>8 DEF IInv, NoticeIsEarned

LEMMA StartSchedulerKeeps ==
  ASSUME IInv, StartScheduler
  PROVE  IInv'
  <1>1. Types /\ Priorities /\ ~trapped /\ NoticeIsEarned
    BY DEF IInv
  <1>2. /\ next \in DOMAIN Programs[program].calls /\ next \in Nat /\ next + 1 \in Nat \ {0}
        /\ next + 1 >= next /\ Programs[program].calls[next].call = "vTaskStartScheduler"
        /\ Len(Programs[program].calls) \in Nat
    BY <1>1, CallIs DEF StartScheduler
  <1>3. next = Len(Programs[program].calls)
    BY <1>1, <1>2, Program DEF WellFormed
  <1>4. /\ Frame /\ scheduler' = TRUE /\ usb' = usb /\ flags' = flags /\ notified' = notified
        /\ trapped' = trapped /\ next' = next + 1 /\ nvic' = nvic
        /\ sources' = sources \cup {<<"TIM11", "update">>} /\ program' = program
    BY <1>2 DEF StartScheduler, Frame, usbVars, taskVars
  <1>5. /\ Registration' /\ TasksConstructed' /\ TransmittersFirst'
        /\ FlagCleared' /\ \A s, u : EnabledByTask(s, u)' = EnabledByTask(s, u)
    BY <1>4, FrameKeeps
  <1>6. SchedulerLast'
    BY <1>2, <1>3, <1>4 DEF SchedulerLast
  <1>7. Justified(<<"TIM11", "update">>)'
    BY DEF Justified, Timers
  <1>8. UsbOnce' /\ SourcesJustified'
    BY <1>2, <1>4, <1>5, <1>7, UsbKept, SourcesKept
  <1>9. Types' /\ Priorities'
    BY <1>1, <1>2, <1>4 DEF Types, Frame, Priorities
  <1> QED
    BY <1>1, <1>4, <1>5, <1>6, <1>8, <1>9 DEF IInv, NoticeIsEarned

\* The callbacks are nobody's, since only this call is for them; and nothing is
\* enabled for any UART, since no task has run.
LEMMA ConstructUartKeeps ==
  ASSUME IInv, ConstructUartTasks
  PROVE  IInv'
  <1> DEFINE calls == Programs[program].calls
             ui == calls[next].ui
             u == ui.uart
  <1>1. /\ Types /\ Priorities /\ Registration /\ TasksConstructed /\ SchedulerLast
        /\ SourcesJustified /\ NoticeIsEarned
    BY DEF IInv
  <1>2. /\ next \in DOMAIN calls /\ next \in Nat /\ next + 1 \in Nat \ {0} /\ next + 1 >= next
        /\ next <= Len(calls) /\ Len(calls) \in Nat
        /\ next \notin Done /\ next \in UartCalls(calls)
    BY <1>1, CallIs DEF ConstructUartTasks, UartCalls
  <1>3. /\ program' = program /\ next' = next + 1 /\ nvic' = nvic /\ sources' = sources
        /\ flags' = flags /\ scheduler' = scheduler /\ usb' = usb /\ notified' = notified
        /\ txTask' = [txTask EXCEPT ![u] = "created"]
        /\ rxTask' = [rxTask EXCEPT ![u] = "created"]
        /\ (halfDuplex' = halfDuplex \/ \E d : halfDuplex' = halfDuplex \cup {<<u, d>>})
        /\ trapped' = \E i \in Own(ui) : callbacks[i] # NoOwner
        /\ callbacks' = [i \in Uarts \cup Streams |-> IF i \in Own(ui) THEN ui ELSE callbacks[i]]
    BY DEF ConstructUartTasks, registerCallbacks, Call, hardwareVars, usbVars
  <1>4. /\ ui \in Infos /\ ui.uart \in Uarts /\ ui.tx \in Streams /\ ui.rx \in Streams
        /\ ui # NoOwner
        /\ \A l \in UartCalls(calls) \ {next} : Own(ui) \cap Own(calls[l].ui) = {}
    BY <1>1, <1>2, UartCall
  <1> HIDE DEF ui
  <1>5. u \in Uarts /\ Own(ui) \subseteq Uarts \cup Streams /\ u \in Own(ui)
    BY <1>4 DEF Own
  <1>6. \A k \in Done \cap UartCalls(calls) : Own(ui) \cap Own(calls[k].ui) = {}
    BY <1>2, <1>4
  <1>7. \A i \in Own(ui) : callbacks[i] = NoOwner
    BY <1>1, <1>5, <1>6 DEF Registration, Owned
  <1>8. ~trapped'
    BY <1>3, <1>7
  <1>9. /\ ~scheduler
        /\ \A v \in Uarts : /\ txTask[v] \in {"none", "created"}
                            /\ rxTask[v] \in {"none", "created"}
    BY <1>1, <1>2 DEF SchedulerLast, Types
  <1>10. \A v \in Uarts : /\ txTask'[v] = (IF v = u THEN "created" ELSE txTask[v])
                          /\ rxTask'[v] = (IF v = u THEN "created" ELSE rxTask[v])
    BY <1>1, <1>3 DEF Types
  <1>11. \A v \in Uarts : /\ txTask'[v] \in {"none", "created"}
                          /\ rxTask'[v] \in {"none", "created"}
    BY <1>9, <1>10
  <1>12. Done \subseteq Done' /\ next \in Done'
    <2>1. \A k \in DOMAIN calls : k \in Nat
      BY <1>1, Program DEF WellFormed
    <2>2. next \in Nat
      BY <1>2
    <2> QED
      BY <1>2, <1>3, <2>1, <2>2 DEF Done
  <1>13. \A i \in Uarts \cup Streams : callbacks'[i] = IF i \in Own(ui) THEN ui ELSE callbacks[i]
    BY <1>3
  <1>14. Registration'
    <2>0. program' = program
      BY <1>3
    <2> SUFFICES ASSUME NEW i \in Uarts \cup Streams, callbacks'[i] # NoOwner
                 PROVE  \E k \in Done' \cap UartCalls(calls) :
                          i \in Own(calls[k].ui)
                          /\ \A j \in Own(calls[k].ui) : callbacks'[j] = calls[k].ui
      BY <2>0 DEF Registration, Owned
    <2>1. CASE i \in Own(ui)
      <3>1. \A j \in Own(ui) : callbacks'[j] = ui
        BY <1>5, <1>13
      <3> QED
        BY <1>2, <1>12, <2>1, <3>1 DEF ui
    <2>2. CASE i \notin Own(ui)
      <3>1. callbacks[i] # NoOwner
        BY <1>13, <2>2
      <3>2. PICK k \in Done \cap UartCalls(calls) :
                   i \in Own(calls[k].ui)
                   /\ \A j \in Own(calls[k].ui) : callbacks[j] = calls[k].ui
        BY <1>1, <3>1 DEF Registration, Owned
      <3>3. Own(calls[k].ui) \subseteq Uarts \cup Streams
        <4>1. k \in UartCalls(Programs[program].calls) /\ Types
          BY <1>1, <3>2
        <4>2. /\ calls[k].ui.uart \in Uarts
              /\ calls[k].ui.tx \in Streams /\ calls[k].ui.rx \in Streams
          BY <4>1, UartCall
        <4> QED
          BY <4>2 DEF Own
      <3>4. \A j \in Own(calls[k].ui) : callbacks'[j] = calls[k].ui
        BY <1>6, <1>13, <3>2, <3>3
      <3> QED
        BY <1>12, <3>2, <3>4
    <2> QED
      BY <2>1, <2>2
  <1>15. TasksConstructed'
    <2> SUFFICES ASSUME NEW v \in Uarts,
                        txTask'[v] # "none" \/ rxTask'[v] # "none" \/ IsHalfDuplex(v)'
                 PROVE  callbacks'[v] # NoOwner /\ txTask'[v] # "none"
      BY DEF TasksConstructed
    <2>1. CASE v = u
      BY <1>4, <1>5, <1>10, <1>13, <2>1
    <2>2. CASE v # u
      <3>1. IsHalfDuplex(v)' => IsHalfDuplex(v)
        BY <1>3, <2>2 DEF IsHalfDuplex
      <3>2. callbacks[v] # NoOwner /\ txTask[v] # "none"
        BY <1>1, <1>10, <2>2, <3>1 DEF TasksConstructed
      <3> QED
        BY <1>4, <1>10, <1>13, <2>2, <3>2
    <2> QED
      BY <2>1, <2>2
  <1>16. SchedulerLast' /\ TransmittersFirst' /\ FlagCleared'
    BY <1>3, <1>9, <1>11 DEF SchedulerLast, TransmittersFirst, FlagCleared
  <1>17. UsbOnce'
    BY <1>2, <1>3, UsbKept
  <1>18. SourcesJustified'
    <2>1. \A s, v : v \in Uarts => ~EnabledByTask(s, v)
      BY <1>9 DEF EnabledByTask
    <2> QED
      BY <1>3, <2>1, SourcesKept
  <1>19. Types'
    <2>1. callbacks' \in [Uarts \cup Streams -> Infos \cup {NoOwner}]
      BY <1>1, <1>3, <1>4 DEF Types
    <2> QED
      BY <1>1, <1>2, <1>3, <2>1 DEF Types
  <1> QED
    BY <1>1, <1>3, <1>8, <1>14, <1>15, <1>16, <1>17, <1>18, <1>19
       DEF IInv, NoticeIsEarned, Priorities

-------------------------------------------------------------------------------
(* The tasks of a UART *)

\* A task only looks after its own UART.
TaskStep(u) ==
  /\ UNCHANGED <<program, next, nvic, callbacks, scheduler, usb, halfDuplex, notified, trapped>>
  /\ scheduler
  /\ \/ /\ rxTask' = rxTask
        /\ \E t \in {"cleared", "waiting"} : txTask' = [txTask EXCEPT ![u] = t]
        /\ txTask[u] \in {"created", "cleared"}
     \/ /\ txTask' = txTask
        /\ \E t \in {"enabled", "waiting"} : rxTask' = [rxTask EXCEPT ![u] = t]
        /\ rxTask[u] # "none"
        /\ \A v \in Uarts : txTask[v] \in {"none", "waiting"}

LEMMA TaskKeeps ==
  ASSUME IInv, NEW u \in Uarts, TaskStep(u)
  PROVE  /\ Types' /\ Priorities' /\ Registration' /\ TasksConstructed' /\ SchedulerLast'
         /\ TransmittersFirst' /\ UsbOnce' /\ NoticeIsEarned' /\ ~trapped'
         /\ \A s \in sources, v \in Uarts : EnabledByTask(s, v) => EnabledByTask(s, v)'
         /\ \A v : IsHalfDuplex(v)' = IsHalfDuplex(v)
  <1>1. /\ Types /\ Priorities /\ Registration /\ TasksConstructed /\ SchedulerLast
        /\ TransmittersFirst /\ UsbOnce /\ NoticeIsEarned /\ ~trapped
    BY DEF IInv
  <1>2. /\ program' = program /\ next' = next /\ nvic' = nvic /\ callbacks' = callbacks
        /\ scheduler' = scheduler /\ scheduler /\ usb' = usb /\ halfDuplex' = halfDuplex
        /\ notified' = notified /\ trapped' = trapped
    BY DEF TaskStep
  <1>3. /\ Priorities' /\ Registration' /\ UsbOnce' /\ NoticeIsEarned' /\ ~trapped'
        /\ SchedulerLast' /\ \A v : IsHalfDuplex(v)' = IsHalfDuplex(v)
    BY <1>1, <1>2 DEF Priorities, Registration, Owned, Done, UsbOnce, NoticeIsEarned,
       SchedulerLast, IsHalfDuplex
  <1>4. CASE /\ rxTask' = rxTask
             /\ \E t \in {"cleared", "waiting"} : txTask' = [txTask EXCEPT ![u] = t]
             /\ txTask[u] \in {"created", "cleared"}
    <2>1. PICK t \in {"cleared", "waiting"} : txTask' = [txTask EXCEPT ![u] = t]
      BY <1>4
    <2>2. /\ txTask' \in [Uarts -> {"none", "created", "cleared", "waiting"}]
          /\ \A v \in Uarts : txTask'[v] = IF v = u THEN t ELSE txTask[v]
      BY <1>1, <2>1 DEF Types
    <2>3. Types'
      BY <1>1, <1>2, <1>4, <2>2 DEF Types
    <2>4. TasksConstructed'
      BY <1>1, <1>2, <1>3, <1>4, <2>2 DEF TasksConstructed
    <2>5. TransmittersFirst'
      BY <1>1, <1>4, <2>2 DEF TransmittersFirst
    <2>6. \A s \in sources, v \in Uarts : EnabledByTask(s, v) => EnabledByTask(s, v)'
      BY <1>2, <1>3, <1>4, <2>2 DEF EnabledByTask
    <2> QED
      BY <1>3, <2>3, <2>4, <2>5, <2>6
  <1>5. CASE /\ txTask' = txTask
             /\ \E t \in {"enabled", "waiting"} : rxTask' = [rxTask EXCEPT ![u] = t]
             /\ rxTask[u] # "none"
             /\ \A v \in Uarts : txTask[v] \in {"none", "waiting"}
    <2>1. PICK t \in {"enabled", "waiting"} : rxTask' = [rxTask EXCEPT ![u] = t]
      BY <1>5
    <2>2. /\ rxTask' \in [Uarts -> {"none", "created", "enabled", "waiting"}]
          /\ \A v \in Uarts : rxTask'[v] = IF v = u THEN t ELSE rxTask[v]
      BY <1>1, <2>1 DEF Types
    <2>3. Types'
      BY <1>1, <1>2, <1>5, <2>2 DEF Types
    <2>4. TasksConstructed'
      BY <1>1, <1>2, <1>3, <1>5, <2>2 DEF TasksConstructed
    <2>5. TransmittersFirst'
      BY <1>5 DEF TransmittersFirst
    <2>6. \A s \in sources, v \in Uarts : EnabledByTask(s, v) => EnabledByTask(s, v)'
      BY <1>2, <1>3, <1>5, <2>2 DEF EnabledByTask
    <2> QED
      BY <1>3, <2>3, <2>4, <2>5, <2>6
  <1> QED
    BY <1>4, <1>5 DEF TaskStep

LEMMA TasksKeep ==
  ASSUME IInv, NEW u \in Uarts, Tasks(u)
  PROVE  IInv'
  <1>1. Types /\ FlagCleared /\ (usb' = usb => (usb \in On => usb' \in On))
    BY DEF IInv
  <1>2. CASE ClearFlagTC(u)
    <2>1. TaskStep(u)
      BY <1>2 DEF ClearFlagTC, TaskStep, TxMayRun, usbVars
    <2>2. /\ flags' = flags \ {<<u, "tc">>} /\ sources' = sources /\ usb' = usb
          /\ txTask' = [txTask EXCEPT ![u] = "cleared"]
      BY <1>2 DEF ClearFlagTC, usbVars
    <2>3. \A v \in Uarts : v # u => txTask'[v] = txTask[v]
      BY <1>1, <2>2 DEF Types
    <2>4. FlagCleared'
      BY <1>1, <2>1, <2>2, <2>3, TaskKeeps DEF FlagCleared
    <2>5. SourcesJustified'
      BY <1>1, <2>1, <2>2, TaskKeeps, SourcesKept
    <2> QED
      BY <2>1, <2>4, <2>5, TaskKeeps DEF IInv
  <1>3. CASE EnableIT(u)
    <2> DEFINE new == IF IsHalfDuplex(u) THEN <<u, "tc">> ELSE <<callbacks[u].tx, "transfer">>
    <2>1. TaskStep(u)
      BY <1>3 DEF EnableIT, TaskStep, TxMayRun, usbVars
    <2>2. /\ flags' = flags /\ sources' = sources \cup {new} /\ usb' = usb
          /\ txTask' = [txTask EXCEPT ![u] = "waiting"] /\ callbacks' = callbacks
          /\ IsHalfDuplex(u) => txTask[u] = "cleared"
      BY <1>3 DEF EnableIT, usbVars
    <2>3. \A v \in Uarts : txTask'[v] = IF v = u THEN "waiting" ELSE txTask[v]
      BY <1>1, <2>2 DEF Types
    <2>4. FlagCleared'
      BY <1>1, <2>1, <2>2, <2>3, TaskKeeps DEF FlagCleared
    <2>5. ASSUME NEW s, s = new
          PROVE  Justified(s)'
      <3>1. EnabledByTask(s, u)'
        BY <2>1, <2>2, <2>3, <2>5, TaskKeeps DEF EnabledByTask
      <3> QED
        BY <3>1 DEF Justified
    <2>6. SourcesJustified'
      <3> HIDE DEF new
      <3>1. \A s \in sources' : s \in sources \/ Justified(s)'
        <4>1. \A s \in sources' : s \in sources \/ s = new
          BY <2>2
        <4> QED
          BY <4>1, <2>5
      <3>2. \A s \in sources, v \in Uarts : EnabledByTask(s, v) => EnabledByTask(s, v)'
        BY <2>1, TaskKeeps
      <3> QED
        BY <2>2, <3>1, <3>2, SourcesKept
    <2> QED
      BY <2>1, <2>4, <2>6, TaskKeeps DEF IInv
  <1>4. CASE EnableRxInterrupts(u)
    <2>1. TaskStep(u)
      BY <1>4 DEF EnableRxInterrupts, TaskStep, RxMayRun, txPriority, rxPriority,
         osPriorityAboveNormal, osPriorityNormal, usbVars
    <2>2. /\ flags' = flags /\ usb' = usb /\ callbacks' = callbacks /\ txTask' = txTask
          /\ sources' = sources \cup {<<callbacks[u].rx, "transfer">>, <<u, "idle">>}
          /\ rxTask' = [rxTask EXCEPT ![u] = "enabled"]
      BY <1>4 DEF EnableRxInterrupts, usbVars
    <2>3. FlagCleared'
      BY <1>1, <2>1, <2>2, TaskKeeps DEF FlagCleared
    <2>4. rxTask'[u] = "enabled"
      BY <1>1, <2>2 DEF Types
    <2>5. Justified(<<callbacks[u].rx, "transfer">>)' /\ Justified(<<u, "idle">>)'
      BY <2>2, <2>4 DEF Justified, EnabledByTask
    <2>6. SourcesJustified'
      <3>1. \A s \in sources' : s \in sources \/ Justified(s)'
        BY <2>2, <2>5
      <3>2. \A s \in sources, v \in Uarts : EnabledByTask(s, v) => EnabledByTask(s, v)'
        BY <2>1, TaskKeeps
      <3> QED
        BY <2>2, <3>1, <3>2, SourcesKept
    <2> QED
      BY <2>1, <2>3, <2>6, TaskKeeps DEF IInv
  <1>5. CASE EnableStream(u)
    <2>1. TaskStep(u)
      BY <1>5 DEF EnableStream, TaskStep, RxMayRun, txPriority, rxPriority,
         osPriorityAboveNormal, osPriorityNormal, usbVars, hardwareVars
    <2>2. flags' = flags /\ usb' = usb /\ txTask' = txTask /\ sources' = sources
      BY <1>5 DEF EnableStream, usbVars, hardwareVars
    <2>3. FlagCleared'
      BY <1>1, <2>1, <2>2, TaskKeeps DEF FlagCleared
    <2>4. SourcesJustified'
      BY <1>1, <2>1, <2>2, TaskKeeps, SourcesKept
    <2> QED
      BY <2>1, <2>3, <2>4, TaskKeeps DEF IInv
  <1> QED
    BY <1>2, <1>3, <1>4, <1>5 DEF Tasks

-------------------------------------------------------------------------------
(* The hardware and the interrupts *)

\* They touch no task, and enable nothing.
HardwareStep ==
  /\ UNCHANGED <<program, next, nvic, sources, callbacks, scheduler, txTask, rxTask, halfDuplex>>
  /\ \A u \in Uarts : <<u, "tc">> \in flags' => <<u, "tc">> \in flags
  /\ usb' = usb \/ (usb \in On /\ usb' \in On)

LEMMA HardwareKeeps ==
  ASSUME IInv, HardwareStep, ~trapped', notified' = notified
  PROVE  IInv'
  <1>1. Types /\ Priorities /\ NoticeIsEarned /\ next \in Nat
    BY DEF IInv, Types
  <1>2. Frame /\ scheduler' = scheduler /\ sources' = sources /\ nvic' = nvic /\ next' = next
        /\ program' = program /\ next' \in Nat /\ next' >= next
    BY <1>1 DEF HardwareStep, Frame
  <1>3. (usb \in On => usb' \in On) /\ (usb' \in On => usb \in On)
        /\ \A u \in Uarts : <<u, "tc">> \in flags' => <<u, "tc">> \in flags
    BY DEF HardwareStep
  <1>4. /\ Registration' /\ TasksConstructed' /\ TransmittersFirst' /\ SchedulerLast'
        /\ FlagCleared' /\ \A s, u : EnabledByTask(s, u)' = EnabledByTask(s, u)
    BY <1>2, <1>3, FrameKeeps
  <1>5. UsbOnce' /\ SourcesJustified'
    BY <1>2, <1>3, <1>4, UsbKept, SourcesKept
  <1>6. Types' /\ Priorities' /\ NoticeIsEarned'
    BY <1>1, <1>2 DEF Types, Frame, Priorities, NoticeIsEarned, HardwareStep
  <1> QED
    BY <1>4, <1>5, <1>6 DEF IInv

LEMMA InterruptKeeps ==
  ASSUME IInv, NEW i \in Irqs, Interrupt(i)
  PROVE  IInv'
  <1>1. Taken(i) /\ ~trapped
    BY DEF IInv, Interrupt, DmaInterrupt, UartInterrupt, TimerInterrupt, UsbInterrupt
  <1>2. CASE DmaInterrupt(i)
    <2>1. /\ Vectors[i].of = i /\ callbacks[i] # NoOwner /\ KernelCallAllowed(i)
          /\ ~(callbacks[i].tx = i /\ IsHalfDuplex(callbacks[i].uart))
      BY <1>1, <1>2, TakenIs DEF DmaInterrupt
    <2>2. ~trapped'
      BY <1>2, <2>1 DEF DmaInterrupt
    <2>3. HardwareStep /\ notified' = notified
      BY <1>2 DEF DmaInterrupt, HardwareStep, usbVars, taskVars
    <2> QED
      BY <2>2, <2>3, HardwareKeeps
  <1>3. CASE UartInterrupt(i)
    <2>1. /\ i \in Uarts /\ Vectors[i].of = i /\ callbacks[i] # NoOwner /\ KernelCallAllowed(i)
          /\ IsHalfDuplex(i) => <<i, "tc">> \notin flags
      BY <1>1, <1>3, TakenIs DEF UartInterrupt
    <2>2. ~trapped'
      BY <1>3, <2>1 DEF UartInterrupt
    <2>3. HardwareStep /\ notified' = notified
      BY <1>3, <2>1 DEF UartInterrupt, uartCallback, HardwareStep, usbVars, taskVars
    <2> QED
      BY <2>2, <2>3, HardwareKeeps
  <1>4. CASE TimerInterrupt(i)
    <2>1. HardwareStep /\ notified' = notified /\ trapped' = trapped
      BY <1>4 DEF TimerInterrupt, HardwareStep, usbVars, taskVars
    <2> QED
      BY <1>1, <2>1, HardwareKeeps
  <1>5. CASE UsbInterrupt(i)
    <2>1. usb \in On /\ KernelCallAllowed(i)
      BY <1>1, <1>5, TakenIs DEF UsbInterrupt
    <2>2. ~trapped'
      BY <1>5, <2>1 DEF UsbInterrupt, On
    <2>3. usb' \in On
      BY <1>5, <2>1 DEF UsbInterrupt, HAL_PCD_ResetCallback, HAL_PCD_SetupStageCallback,
         HAL_PCD_SuspendCallback, HAL_PCD_ResumeCallback, HAL_PCD_ConnectCallback,
         HAL_PCD_DisconnectCallback, HAL_PCD_DataOutStageCallback,
         HAL_PCD_DataInStageCallback, usbVars, On
    <2>4. HardwareStep /\ notified' = notified
      BY <1>5, <2>1, <2>3 DEF UsbInterrupt, HardwareStep, taskVars
    <2> QED
      BY <2>2, <2>4, HardwareKeeps
  <1> QED
    BY <1>2, <1>3, <1>4, <1>5 DEF Interrupt

LEMMA RaiseKeeps ==
  ASSUME IInv, NEW f \in Raisable, Raise(f)
  PROVE  IInv'
  <1>1. \A u : f # <<u, "tc">>
    BY DEF Raisable
  <1>2. HardwareStep /\ notified' = notified /\ trapped' = trapped
    BY <1>1 DEF Raise, HardwareStep, usbVars, taskVars
  <1>3. ~trapped
    BY DEF IInv
  <1> QED
    BY <1>2, <1>3, HardwareKeeps

-------------------------------------------------------------------------------
LEMMA InvInit == Init => IInv
  <1> SUFFICES ASSUME Init PROVE IInv
    OBVIOUS
  <1>1. Types /\ Priorities
    <2>1. Disabled \in Nat /\ Disabled >= P!MaxSyscallPriority
      BY DEF Disabled, P!MaxSyscallPriority
    <2>2. \A i \in KernelIrqs : i \in Irqs /\ nvic[i] = Disabled
      BY Names DEF Init
    <2>3. nvic \in [Irqs -> Nat]
      BY <2>1 DEF Init
    <2>4. callbacks \in [Uarts \cup Streams -> Infos \cup {NoOwner}]
      BY DEF Init
    <2>5. /\ txTask \in [Uarts -> {"none", "created", "cleared", "waiting"}]
          /\ rxTask \in [Uarts -> {"none", "created", "enabled", "waiting"}]
      BY DEF Init
    <2>6. program \in DOMAIN Programs /\ next = 1 /\ usb = "off" /\ scheduler = FALSE
      BY DEF Init
    <2>7. next \in Nat \ {0} /\ usb \in {"off", "init"} \cup On /\ scheduler \in BOOLEAN
      <3>1. next \in Nat \ {0}
        BY <2>6
      <3>2. usb \in {"off", "init"} \cup On
        BY <2>6
      <3>3. scheduler \in BOOLEAN
        BY <2>6, Zenon
      <3> QED
        BY <3>1, <3>2, <3>3
    <2>8. Types
      BY <2>3, <2>4, <2>5, <2>6, <2>7, Zenon DEF Types
    <2> QED
      BY <2>1, <2>2, <2>8 DEF Priorities
  <1>2. Registration /\ TasksConstructed /\ SchedulerLast
    BY DEF Init, Registration, TasksConstructed, IsHalfDuplex, SchedulerLast
  <1>3. TransmittersFirst /\ FlagCleared /\ UsbOnce /\ SourcesJustified
    BY DEF Init, TransmittersFirst, FlagCleared, UsbOnce, On, SourcesJustified
  <1>4. ~trapped /\ NoticeIsEarned
    BY DEF Init, NoticeIsEarned
  <1> QED
    BY <1>1, <1>2, <1>3, <1>4 DEF IInv

LEMMA InvStep == IInv /\ [Next]_vars => IInv'
  <1> SUFFICES ASSUME IInv, [Next]_vars PROVE IInv'
    OBVIOUS
  <1>1. CASE Main
    BY <1>1, InitialiseKeeps, ConstructTaskKeeps, ConstructUartKeeps, ConstructUsbKeeps,
       StartUsbKeeps, StartSchedulerKeeps DEF Main
  <1>2. ASSUME NEW u \in Uarts, Tasks(u)
        PROVE  IInv'
    BY <1>2, TasksKeep
  <1>3. ASSUME NEW f \in Raisable, Raise(f)
        PROVE  IInv'
    BY <1>3, RaiseKeeps
  <1>4. ASSUME NEW i \in Irqs, Interrupt(i)
        PROVE  IInv'
    BY <1>4, InterruptKeeps
  <1>5. CASE UNCHANGED vars
    <2>1. HardwareStep /\ notified' = notified /\ trapped' = trapped
      BY <1>5 DEF vars, hardwareVars, usbVars, taskVars, HardwareStep
    <2>2. ~trapped
      BY DEF IInv
    <2> QED
      BY <2>1, <2>2, HardwareKeeps
  <1> QED
    BY <1>1, <1>2, <1>3, <1>4, <1>5 DEF Next

\* The strengthened invariant holds in every reachable state.
THEOREM InvAlways == Spec => []IInv
  BY InvInit, InvStep, PTL DEF Spec

\* No interrupt, whenever it arrives, ends in one of the endless loops: its
\* handler is there, asks for its own instance and finds a callback that is
\* registered, and the kernel accepts its priority; no callback is registered
\* twice and no device constructed twice.
THEOREM StartUpIsSafe == Spec => []NothingTraps
  <1>1. IInv => NothingTraps
    BY TakenIs DEF IInv, NothingTraps
  <1> QED
    BY <1>1, InvAlways, PTL

\* No task is notified of the end of a transmission before there was one: the
\* tasks that clear the flag reset has set run before any interrupt of a UART
\* can look at it.
THEOREM NoEarlyNotice == Spec => []NoticeIsEarned
  <1>1. IInv => NoticeIsEarned
    BY DEF IInv
  <1> QED
    BY <1>1, InvAlways, PTL
-------------------------------------------------------------------------------
(* Pins, streams and priorities: a task waits only when all of main() is   *)
(* behind it, so whatever the order of its calls, everything the task uses *)
(* has been set up, and nothing has taken it away since.                   *)

ThisProgram == Programs[program]

ClaimsKnown == claimed \subseteq Claims(ThisProgram)

SetUpStands ==
  \A k \in Done \cap InitCalls(ThisProgram.calls) :
    /\ ThisProgram.calls[k].claims \subseteq claimed
    /\ \A i \in Irqs : i \in DOMAIN ThisProgram.calls[k].irqs => nvic[i] # Disabled

PinsKnown ==
  \A h \in halfDuplex : \E k \in UartCalls(ThisProgram.calls) :
    /\ ThisProgram.calls[k].de # "none"
    /\ h = <<ThisProgram.calls[k].ui.uart, ThisProgram.calls[k].de>>

RInv == IInv /\ ClaimsKnown /\ SetUpStands /\ PinsKnown

LEMMA RInvInit == Init => RInv
  <1> SUFFICES ASSUME Init PROVE RInv
    OBVIOUS
  <1>1. IInv
    BY InvInit
  <1>2. ClaimsKnown /\ PinsKnown
    BY DEF Init, ClaimsKnown, PinsKnown
  <1>3. SetUpStands
    <2>1. \A k \in DOMAIN ThisProgram.calls : k \in Nat /\ k >= 1
      BY <1>1, Program DEF IInv, WellFormed, ThisProgram
    <2>2. Done = {}
      BY <2>1 DEF Done, Init, ThisProgram
    <2> QED
      BY <2>2 DEF SetUpStands
  <1> QED
    BY <1>1, <1>2, <1>3 DEF RInv

LEMMA ResourcesOf ==
  ASSUME Types
  PROVE  ResourcesAgree(ThisProgram)
  BY ResourcesAssumption DEF Types, ThisProgram

\* The steps that initialise nothing.
LEMMA SetUpKept ==
  ASSUME Types, ClaimsKnown, SetUpStands, program' = program, claimed' = claimed, nvic' = nvic,
         \/ next' = next
         \/ next' = next + 1 /\ next \notin InitCalls(ThisProgram.calls)
  PROVE  ClaimsKnown' /\ SetUpStands'
  <1>1. ClaimsKnown' /\ ThisProgram' = ThisProgram
    BY DEF ClaimsKnown, ThisProgram
  <1>2. Done' \cap InitCalls(ThisProgram.calls) \subseteq Done \cap InitCalls(ThisProgram.calls)
    <2>1. \A k \in DOMAIN ThisProgram.calls : k \in Nat
      BY Program DEF WellFormed, ThisProgram
    <2>2. next \in Nat
      BY DEF Types
    <2> QED
      BY <2>1, <2>2 DEF Done, ThisProgram, InitCalls
  <1> QED
    BY <1>1, <1>2 DEF SetUpStands

LEMMA PinsKept ==
  ASSUME PinsKnown, program' = program, halfDuplex' = halfDuplex
  PROVE  PinsKnown'
  BY DEF PinsKnown, ThisProgram

\* An initialisation adds what is claimed, and enables what it names.
LEMMA SetUpAdds ==
  ASSUME Types, ClaimsKnown, SetUpStands, NEW init, SetUp(init), GivesGoodPriorities(init),
         init.claims \subseteq Claims(ThisProgram), program' = program,
         \A i \in Irqs : i \in DOMAIN init.irqs => init.irqs[i] # Disabled
  PROVE  /\ ClaimsKnown'
         /\ claimed \subseteq claimed' /\ init.claims \subseteq claimed'
         /\ \A i \in Irqs : nvic[i] # Disabled \/ i \in DOMAIN init.irqs => nvic'[i] # Disabled
  <1>1. claimed' = claimed \cup init.claims
    BY DEF SetUp
  <1>2. \A i \in Irqs : nvic'[i] = IF i \in DOMAIN init.irqs THEN init.irqs[i] ELSE nvic[i]
    BY DEF SetUp
  <1>3. ClaimsKnown'
    BY <1>1 DEF ClaimsKnown, ThisProgram
  <1> QED
    BY <1>1, <1>2, <1>3

LEMMA InitialiseResources ==
  ASSUME RInv, InitialisePeripheral
  PROVE  ClaimsKnown' /\ SetUpStands' /\ PinsKnown'
  <1>1. Types /\ ClaimsKnown /\ SetUpStands /\ PinsKnown
    BY DEF RInv, IInv
  <1>2. /\ next \in InitCalls(ThisProgram.calls) /\ next \in Nat
        /\ Call = ThisProgram.calls[next]
    BY <1>1, CallIs DEF InitialisePeripheral, InitCalls, ThisProgram, Call
  <1>3. /\ SetUp(Call) /\ program' = program /\ next' = next + 1 /\ halfDuplex' = halfDuplex
        /\ ThisProgram' = ThisProgram
    BY DEF InitialisePeripheral, taskVars, ThisProgram
  <1>4. GivesGoodPriorities(Call)
    BY <1>1, <1>2, Program DEF WellFormed, InitCalls, ThisProgram
  <1>5. Call.claims \subseteq Claims(ThisProgram)
    BY <1>2 DEF Claims
  <1>6. \A i \in Irqs : i \in DOMAIN Call.irqs => Call.irqs[i] # Disabled
    BY <1>1, <1>2, ResourcesOf DEF ResourcesAgree
  <1>7. /\ ClaimsKnown'
        /\ claimed \subseteq claimed' /\ Call.claims \subseteq claimed'
        /\ \A i \in Irqs : nvic[i] # Disabled \/ i \in DOMAIN Call.irqs => nvic'[i] # Disabled
    BY <1>1, <1>3, <1>4, <1>5, <1>6, SetUpAdds
  <1>8. SetUpStands'
    <2> SUFFICES ASSUME NEW k \in Done' \cap InitCalls(ThisProgram.calls)
                 PROVE  /\ ThisProgram.calls[k].claims \subseteq claimed'
                        /\ \A i \in Irqs : i \in DOMAIN ThisProgram.calls[k].irqs
                                               => nvic'[i] # Disabled
      BY <1>3 DEF SetUpStands
    <2>1. k \in DOMAIN ThisProgram.calls /\ k \in Nat /\ k < next + 1
      BY <1>1, <1>3, Program DEF WellFormed, Done, ThisProgram
    <2>2. CASE k = next
      BY <1>2, <1>7, <2>2
    <2>3. CASE k < next
      <3>1. k \in Done
        BY <2>1, <2>3 DEF Done, ThisProgram
      <3> QED
        BY <1>1, <1>7, <3>1 DEF SetUpStands
    <2> QED
      BY <1>2, <2>1, <2>2, <2>3
  <1>9. PinsKnown'
    BY <1>1, <1>3, PinsKept
  <1> QED
    BY <1>7, <1>8, <1>9

LEMMA UsbResources ==
  ASSUME RInv, ConstructUsbTask
  PROVE  ClaimsKnown' /\ SetUpStands' /\ PinsKnown'
  <1> DEFINE msp == ThisProgram.usb.msp
  <1>1. Types /\ ClaimsKnown /\ SetUpStands /\ PinsKnown
    BY DEF RInv, IInv
  <1>2. /\ SetUp(msp) /\ program' = program /\ next' = next /\ halfDuplex' = halfDuplex
        /\ ThisProgram' = ThisProgram
    BY DEF ConstructUsbTask, taskVars, ThisProgram
  <1>3. GivesGoodPriorities(msp)
    BY <1>1, Program DEF WellFormed, ThisProgram
  <1>4. msp.claims \subseteq Claims(ThisProgram)
    BY DEF Claims
  <1>5. \A i \in Irqs : i \in DOMAIN msp.irqs => msp.irqs[i] # Disabled
    BY <1>1, ResourcesOf DEF ResourcesAgree
  <1> HIDE DEF msp
  <1>6. /\ ClaimsKnown' /\ claimed \subseteq claimed'
        /\ \A i \in Irqs : nvic[i] # Disabled => nvic'[i] # Disabled
    BY <1>1, <1>2, <1>3, <1>4, <1>5, SetUpAdds
  <1>7. Done' = Done
    BY <1>2 DEF Done
  <1>8. SetUpStands'
    BY <1>1, <1>2, <1>6, <1>7 DEF SetUpStands
  <1>9. PinsKnown'
    BY <1>1, <1>2, PinsKept
  <1> QED
    BY <1>6, <1>8, <1>9

LEMMA UartResources ==
  ASSUME RInv, ConstructUartTasks
  PROVE  ClaimsKnown' /\ SetUpStands' /\ PinsKnown'
  <1>1. Types /\ ClaimsKnown /\ SetUpStands /\ PinsKnown
    BY DEF RInv, IInv
  <1>2. /\ next \in UartCalls(ThisProgram.calls) /\ Call = ThisProgram.calls[next]
        /\ ThisProgram.calls[next].call = "UartTasks"
    BY <1>1, CallIs DEF ConstructUartTasks, UartCalls, ThisProgram, Call
  <1>3. /\ program' = program /\ next' = next + 1 /\ claimed' = claimed /\ nvic' = nvic
        /\ halfDuplex' = IF Call.de = "none" THEN halfDuplex
                         ELSE halfDuplex \cup {<<Call.ui.uart, Call.de>>}
    BY DEF ConstructUartTasks, hardwareVars
  <1>4. ClaimsKnown' /\ SetUpStands'
    BY <1>1, <1>2, <1>3, SetUpKept DEF InitCalls
  <1>5. PinsKnown'
    <2>1. ThisProgram' = ThisProgram
      BY <1>3 DEF ThisProgram
    <2>2. ASSUME NEW h \in halfDuplex'
          PROVE  h \in halfDuplex \/ (Call.de # "none" /\ h = <<Call.ui.uart, Call.de>>)
      BY <1>3
    <2> QED
      BY <1>1, <1>2, <2>1, <2>2 DEF PinsKnown
  <1> QED
    BY <1>4, <1>5

LEMMA RInvStep == RInv /\ [Next]_vars => RInv'
  <1> SUFFICES ASSUME RInv, [Next]_vars PROVE RInv'
    OBVIOUS
  <1>1. IInv' /\ Types /\ ClaimsKnown /\ SetUpStands /\ PinsKnown
    BY InvStep DEF RInv, IInv
  <1>2. CASE InitialisePeripheral
    BY <1>1, <1>2, InitialiseResources DEF RInv
  <1>3. CASE ConstructUsbTask
    BY <1>1, <1>3, UsbResources DEF RInv
  <1>4. CASE ConstructUartTasks
    BY <1>1, <1>4, UartResources DEF RInv
  <1>5. CASE ConstructTask \/ StartUsbDevice \/ StartScheduler
    <2>1. next \notin InitCalls(ThisProgram.calls)
      BY <1>1, <1>5, CallIs
      DEF ConstructTask, StartUsbDevice, StartScheduler, InitCalls, ThisProgram
    <2>2. /\ program' = program /\ next' = next + 1 /\ claimed' = claimed /\ nvic' = nvic
          /\ halfDuplex' = halfDuplex
      BY <1>5 DEF ConstructTask, StartUsbDevice, StartScheduler, hardwareVars, taskVars
    <2> QED
      BY <1>1, <2>1, <2>2, SetUpKept, PinsKept DEF RInv
  <1>6. CASE \/ \E u \in Uarts : Tasks(u)
             \/ \E f \in Raisable : Raise(f)
             \/ \E i \in Irqs : Interrupt(i)
             \/ UNCHANGED vars
    <2>1. /\ program' = program /\ next' = next /\ claimed' = claimed /\ nvic' = nvic
          /\ halfDuplex' = halfDuplex
      <3>1. ASSUME NEW u \in Uarts, Tasks(u)
            PROVE  /\ program' = program /\ next' = next /\ claimed' = claimed
                   /\ nvic' = nvic /\ halfDuplex' = halfDuplex
        BY <3>1 DEF Tasks, ClearFlagTC, EnableIT, EnableRxInterrupts, EnableStream, hardwareVars
      <3>2. ASSUME NEW f \in Raisable, Raise(f)
            PROVE  /\ program' = program /\ next' = next /\ claimed' = claimed
                   /\ nvic' = nvic /\ halfDuplex' = halfDuplex
        BY <3>2 DEF Raise, taskVars
      <3>3. ASSUME NEW i \in Irqs, Interrupt(i)
            PROVE  /\ program' = program /\ next' = next /\ claimed' = claimed
                   /\ nvic' = nvic /\ halfDuplex' = halfDuplex
        BY <3>3 DEF Interrupt, DmaInterrupt, UartInterrupt, TimerInterrupt, UsbInterrupt, taskVars
      <3>4. CASE UNCHANGED vars
        BY <3>4 DEF vars, hardwareVars, taskVars
      <3> QED
        BY <1>6, <3>1, <3>2, <3>3, <3>4
    <2> QED
      BY <1>1, <2>1, SetUpKept, PinsKept DEF RInv
  <1> QED
    BY <1>2, <1>3, <1>4, <1>5, <1>6 DEF Next, Main

\* As many resources as claims, when no two claims are of the same resource.
LEMMA ClaimsCount ==
  ASSUME NEW S, IsFiniteSet(S), \A c, d \in S : c[1] = d[1] => c = d
  PROVE  Cardinality({c[1] : c \in S}) = Cardinality(S)
  <1> DEFINE T == {c[1] : c \in S}
             f == [c \in S |-> c[1]]
  <1>1. f \in Bijection(S, T)
    <2>1. f \in [S -> T]
      OBVIOUS
    <2>2. \A c, d \in S : f[c] = f[d] => c = d
      OBVIOUS
    <2>3. ASSUME NEW t \in T PROVE \E c \in S : f[c] = t
      OBVIOUS
    <2> HIDE DEF f, T
    <2>4. f \in Injection(S, T)
      BY <2>1, <2>2 DEF Injection, IsInjective
    <2>5. f \in Surjection(S, T)
      BY <2>1, <2>3 DEF Surjection
    <2> QED
      BY <2>4, <2>5 DEF Bijection
  <1>2. ExistsBijection(S, T)
    BY <1>1 DEF ExistsBijection
  <1> QED
    BY <1>2, FS_Bijection

\* Once the scheduler runs, main() has made all its calls.
LEMMA AllSetUp ==
  ASSUME RInv, scheduler
  PROVE  /\ \A c : ClaimedInMain(ThisProgram, c) => c \in claimed
         /\ \A i \in Irqs : EnabledInMain(ThisProgram, i) => nvic[i] # Disabled
  <1>1. InitCalls(ThisProgram.calls) \subseteq Done
    <2>1. /\ next > Len(ThisProgram.calls) /\ Len(ThisProgram.calls) \in Nat
          /\ DOMAIN ThisProgram.calls = 1 .. Len(ThisProgram.calls) /\ next \in Nat
      BY Program DEF RInv, IInv, SchedulerLast, WellFormed, ThisProgram, Types
    <2> QED
      BY <2>1 DEF InitCalls, Done, ThisProgram
  <1> QED
    BY <1>1 DEF RInv, SetUpStands, ClaimedInMain, EnabledInMain

\* What a task finds set up when it waits for work.
LEMMA TaskResources ==
  ASSUME RInv, NEW u \in Uarts, txTask[u] = "waiting" \/ rxTask[u] = "waiting"
  PROVE  /\ <<callbacks[u].tx, u, "tx">> \in claimed
         /\ <<callbacks[u].rx, u, "rx">> \in claimed
         /\ nvic[callbacks[u].tx] # Disabled /\ nvic[callbacks[u].rx] # Disabled
         /\ nvic[u] # Disabled
  <1>1. Types /\ Registration /\ TasksConstructed /\ SchedulerLast
    BY DEF RInv, IInv
  <1>2. scheduler
    BY <1>1 DEF SchedulerLast, Types
  <1>3. callbacks[u] # NoOwner
    BY <1>1 DEF TasksConstructed
  <1>4. PICK k \in UartCalls(ThisProgram.calls) :
               u \in Own(ThisProgram.calls[k].ui) /\ callbacks[u] = ThisProgram.calls[k].ui
    BY <1>1, <1>3 DEF Registration, Owned, ThisProgram
  <1> DEFINE ui == ThisProgram.calls[k].ui
  <1>5. /\ ui.uart \in Uarts /\ ui.tx \in Streams /\ ui.rx \in Streams
    BY <1>1, <1>4, UartCall DEF ThisProgram
  <1>6. ui.uart = u
    BY <1>4, <1>5, Names DEF Own
  <1>7. /\ ClaimedInMain(ThisProgram, <<ui.tx, ui.uart, "tx">>)
        /\ ClaimedInMain(ThisProgram, <<ui.rx, ui.uart, "rx">>)
        /\ \A i \in Own(ui) : EnabledInMain(ThisProgram, i)
    BY <1>1, <1>4, ResourcesOf DEF ResourcesAgree
  <1>8. Own(ui) \subseteq Irqs /\ ui.tx \in Own(ui) /\ ui.rx \in Own(ui) /\ u \in Own(ui)
    BY <1>5, <1>6, Names DEF Own
  <1> HIDE DEF ui
  <1>9. callbacks[u] = ui
    BY <1>4 DEF ui
  <1> QED
    BY <1>2, <1>6, <1>7, <1>8, <1>9, AllSetUp

\* The pin that turns the line of a waiting task around is an output.
LEMMA PinResources ==
  ASSUME RInv, NEW u \in Uarts, txTask[u] = "waiting", NEW h \in halfDuplex
  PROVE  <<h[2], "gpio", "out">> \in claimed
  <1>1. Types /\ SchedulerLast /\ PinsKnown
    BY DEF RInv, IInv
  <1>2. scheduler
    BY <1>1 DEF SchedulerLast, Types
  <1>3. PICK k \in UartCalls(ThisProgram.calls) :
               /\ ThisProgram.calls[k].de # "none"
               /\ h = <<ThisProgram.calls[k].ui.uart, ThisProgram.calls[k].de>>
    BY <1>1 DEF PinsKnown
  <1>4. ClaimedInMain(ThisProgram, <<ThisProgram.calls[k].de, "gpio", "out">>)
    BY <1>1, <1>3, ResourcesOf DEF ResourcesAgree
  <1> QED
    BY <1>2, <1>3, <1>4, AllSetUp

\* No pin and no stream ever serves two purposes, and a UART task that waits for
\* work uses streams its own UART was set up with, with their interrupts enabled,
\* and a pin that is an output, in whatever order main() initialises and
\* constructs.
THEOREM NothingIsShared == Spec => []ResourcesUnshared
  <1>1. RInv => ResourcesUnshared
    <2> SUFFICES ASSUME RInv PROVE ResourcesUnshared
      OBVIOUS
    <2>1. Cardinality({c[1] : c \in claimed}) = Cardinality(claimed)
      <3>1. ResourcesAgree(ThisProgram) /\ claimed \subseteq Claims(ThisProgram)
        BY ResourcesOf DEF RInv, IInv, ClaimsKnown
      <3>2. IsFiniteSet(claimed)
        BY <3>1, FS_Subset DEF ResourcesAgree
      <3>3. \A c, d \in claimed : c[1] = d[1] => c = d
        BY <3>1 DEF ResourcesAgree
      <3> QED
        BY <3>2, <3>3, ClaimsCount
    <2> QED
      BY <2>1, TaskResources, PinResources DEF ResourcesUnshared
  <1> QED
    BY <1>1, RInvInit, RInvStep, PTL DEF Spec

================================================================================
