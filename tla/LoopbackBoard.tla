---------------------------- MODULE LoopbackBoard ----------------------------
(***************************************************************************)
(* The project loopback: its generated initialisation functions            *)
(* (loopback/Core, loopback/USB_DEVICE), its interrupt handlers            *)
(* (stm32f4xx_it.c) and the six programs custom/src/main.cpp can be built  *)
(* as.                                                                     *)
(***************************************************************************)
EXTENDS Peripherals, Sequences, TLC

(***************************************************************************)
(* Initialisation.                                                         *)
(***************************************************************************)
HAL_InitTick == Initialise(Enable({"TIM8"}, TICK_INT_PRIORITY), {}, {"TIM8"})

HAL_MspInit == Initialise(Enable({"PendSV"}, 15), {}, {})

\* HAL_RCC_ClockConfig sets the tick up again for the new clock.
SystemClock_Config == HAL_InitTick

MX_GPIO_Init ==
  Initialise(<<>>,
             Outputs({"PE8", "PE9", "PE10", "PE11", "PE12", "PD4", "PD5"})
               \cup {<<p, "sdio", "pin">> : p \in {"PC8", "PC9", "PC10", "PC11", "PC12"}},
             {})

MX_DMA_Init ==
  Initialise(Enable({"dma1s0", "dma1s1", "dma1s2", "dma1s3", "dma1s4", "dma1s7",
                     "dma2s0", "dma2s7"}, 5), {}, {})

MX_UART4_Init == UartInit("uart4", "PD10", "PD0", "dma1s4", "dma1s2")
MX_UART5_Init == UartInit("uart5", "PB13", "PD2", "dma1s7", "dma1s0")
MX_UART7_Init == UartInit("uart7", "PF7", "PF6", "dma1s1", "dma1s3")
MX_UART9_Init == UartInit("uart9", "PG1", "PG0", "dma2s0", "dma2s7")

\* HAL_TIM_Base_MspInit: the timer is not started here.
MX_TIM11_Init == Initialise(Enable({"TIM11"}, 5), {}, {})

\* Called by HAL_PCD_Init.
HAL_PCD_MspInit ==
  Initialise(Enable({"OTG_FS"}, 6), {<<"PA11", "usb", "dm">>, <<"PA12", "usb", "dp">>}, {})

\* The USB driver without low power.
USBD_LL_Init == [msp |-> HAL_PCD_MspInit, low_power_enable |-> FALSE]

(***************************************************************************)
(* Interrupt handlers.                                                     *)
(***************************************************************************)
DMA1_Stream0_IRQHandler == handleDmaInterrupt("dma1s0")
DMA1_Stream1_IRQHandler == handleDmaInterrupt("dma1s1")
DMA1_Stream2_IRQHandler == handleDmaInterrupt("dma1s2")
DMA1_Stream3_IRQHandler == handleDmaInterrupt("dma1s3")
DMA1_Stream4_IRQHandler == handleDmaInterrupt("dma1s4")
TIM1_TRG_COM_TIM11_IRQHandler == HAL_TIM_IRQHandler("TIM11")
TIM8_UP_TIM13_IRQHandler == HAL_TIM_IRQHandler("TIM8")
DMA1_Stream7_IRQHandler == handleDmaInterrupt("dma1s7")
UART4_IRQHandler == handleUartInterrupt("uart4")
UART5_IRQHandler == handleUartInterrupt("uart5")
DMA2_Stream0_IRQHandler == handleDmaInterrupt("dma2s0")
OTG_FS_IRQHandler == HAL_PCD_IRQHandler
DMA2_Stream7_IRQHandler == handleDmaInterrupt("dma2s7")
UART7_IRQHandler == handleUartInterrupt("uart7")
UART9_IRQHandler == handleUartInterrupt("uart9")

\* The weak aliases of the start-up file, for a project without a handler.
WeakHandlers == [i \in Interrupts |-> Default_Handler]

\* The vector table: these handlers in place of the weak ones.
g_pfnVectors ==
  [dma1s0 |-> DMA1_Stream0_IRQHandler, dma1s1 |-> DMA1_Stream1_IRQHandler,
   dma1s2 |-> DMA1_Stream2_IRQHandler, dma1s3 |-> DMA1_Stream3_IRQHandler,
   dma1s4 |-> DMA1_Stream4_IRQHandler, dma1s7 |-> DMA1_Stream7_IRQHandler,
   dma2s0 |-> DMA2_Stream0_IRQHandler, dma2s7 |-> DMA2_Stream7_IRQHandler,
   uart4 |-> UART4_IRQHandler, uart5 |-> UART5_IRQHandler,
   uart7 |-> UART7_IRQHandler, uart9 |-> UART9_IRQHandler,
   TIM11 |-> TIM1_TRG_COM_TIM11_IRQHandler, TIM8 |-> TIM8_UP_TIM13_IRQHandler,
   OTG_FS |-> OTG_FS_IRQHandler, PendSV |-> xPortPendSVHandler] @@ WeakHandlers

(***************************************************************************)
(* The programs.                                                           *)
(***************************************************************************)
\* What main() does before the tasks of a particular build, HAL_Init first.
Prologue ==
  <<HAL_InitTick, HAL_MspInit, SystemClock_Config, MX_GPIO_Init, MX_DMA_Init,
    MX_UART4_Init, MX_UART5_Init, MX_UART7_Init, MX_UART9_Init, MX_TIM11_Init,
    NewTask("watchdog"), NewTask("logger")>>

TEST_UART_THROUGHPUT ==
  <<NewUartTasks(uartInfo4, "none"), NewTask("producer4"), NewTask("consumer4"),
    NewUartTasks(uartInfo5, "none"), NewTask("producer5"), NewTask("consumer5"),
    NewUartTasks(uartInfo7, "none"), NewTask("producer7"), NewTask("consumer7"),
    NewUartTasks(uartInfo9, "none"), NewTask("producer9"), NewTask("consumer9")>>

TEST_USB_IO == <<NewUsbTask, NewTask("producerUsb"), NewTask("consumerUsb")>>

TEST_USB_LOOPBACK == <<NewUsbTask, NewTask("usbLoop")>>

TEST_USB_PACKET_PARSING ==
  <<NewUsbTask, NewTask("intake"), NewTask("output"), NewTask("coupling")>>

TEST_USB_SINGLE_UART_LOOPBACK ==
  <<NewUsbTask, NewUartTasks(uartInfo5, "none"),
    NewTask("usbToUart5"), NewTask("uart5ToUsb")>>

TEST_USB_ALL_UART_LOOPBACK ==
  <<NewUsbTask, NewUartTasks(uartInfo7, "none"), NewUartTasks(uartInfo9, "none"),
    NewUartTasks(uartInfo5, "none"), NewUartTasks(uartInfo4, "none"),
    NewTask("usbToUart7"), NewTask("uart9ToUart4"), NewTask("uart4ToUart5"),
    NewTask("uart5ToUart9"), NewTask("uart7ToUsb")>>

main(build) ==
  [calls |-> Prologue \o build \o <<StartScheduler>>,
   usb |-> USBD_LL_Init, vectors |-> g_pfnVectors]
=============================================================================
