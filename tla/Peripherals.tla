----------------------------- MODULE Peripherals -----------------------------
(***************************************************************************)
(* What the two boards have in common: which streams a UART uses           *)
(* (common/inc/uart_info.h), and the calls main() consists of, as records. *)
(*                                                                         *)
(* An interrupt carries the name of its source: "uart4", "dma1s4" for      *)
(* stream 4 of DMA1, "TIM8", "OTG_FS".  A claim <<resource, user, use>>    *)
(* says that a pin or a stream was set up for something.  Clocks, speeds   *)
(* and the other details of a peripheral are left out.                     *)
(***************************************************************************)
\* From FreeRTOSConfig.h: an interrupt that uses the kernel is at least this
\* number, and a critical section masks those that are.
MaxSyscallPriority == 5

\* From stm32f4xx_hal_conf.h: the tick of the HAL is never masked.
TickPriorityLowest == 15
TICK_INT_PRIORITY == 0

\* The interrupts that any part of the two projects enables.
Uarts == {"uart4", "uart5", "uart7", "uart8", "uart9"}
Streams == {"dma1s0", "dma1s1", "dma1s2", "dma1s3", "dma1s4", "dma1s6", "dma1s7",
            "dma2s0", "dma2s7"}
Interrupts == Uarts \cup Streams \cup {"TIM8", "TIM11", "OTG_FS", "PendSV"}

(***************************************************************************)
(* UartInfo.                                                               *)
(***************************************************************************)
UartInfo(uart, tx, rx) == [uart |-> uart, tx |-> tx, rx |-> rx]

uartInfo4 == UartInfo("uart4", "dma1s4", "dma1s2")
uartInfo5 == UartInfo("uart5", "dma1s7", "dma1s0")
uartInfo7 == UartInfo("uart7", "dma1s1", "dma1s3")
uartInfo8 == UartInfo("uart8", "dma1s0", "dma1s6")
uartInfo9 == UartInfo("uart9", "dma2s0", "dma2s7")

(***************************************************************************)
(* Calls of main().                                                        *)
(***************************************************************************)
\* An initialisation: interrupts enabled in the NVIC and their priority, pins
\* and streams set up, timers started.
Initialise(irqs, claims, starts) ==
  [call |-> "init", irqs |-> irqs, claims |-> claims, starts |-> starts]

Enable(irqs, priority) == [i \in irqs |-> priority]

Outputs(pins) == {<<p, "gpio", "out">> : p \in pins}

\* A UART with one stream from memory and one circular stream to memory.
UartInit(uart, txPin, rxPin, tx, rx) ==
  Initialise(Enable({uart}, 5),
             {<<txPin, uart, "tx">>, <<rxPin, uart, "rx">>,
              <<tx, uart, "tx">>, <<rx, uart, "rx">>},
             {})

\* Constructors.  deTx is the pin of HalfDuplexCallbacks, or "none".
NewUartTasks(ui, deTx) == [call |-> "UartTasks", ui |-> ui, de |-> deTx]
NewUsbTask == [call |-> "UsbTask"]
NewTask(name) == [call |-> "Task", name |-> name]
StartScheduler == [call |-> "vTaskStartScheduler"]

(***************************************************************************)
(* Interrupt handlers.                                                     *)
(***************************************************************************)
handleDmaInterrupt(stream) == [handler |-> "dma", of |-> stream]
handleUartInterrupt(uart) == [handler |-> "uart", of |-> uart]
HAL_TIM_IRQHandler(timer) == [handler |-> "timer", of |-> timer]
HAL_PCD_IRQHandler == [handler |-> "usb", of |-> "OTG_FS"]

\* The switch of tasks: the kernel's handler goes by the name in the vector table.
xPortPendSVHandler == [handler |-> "kernel", of |-> "PendSV"]

\* An endless loop.
Default_Handler == [handler |-> "default", of |-> "none"]
=============================================================================
