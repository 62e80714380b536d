---------------------------- MODULE VfdBenchBoard ----------------------------
(***************************************************************************)
(* The project vfd_bench: its generated initialisation functions           *)
(* (vfd_bench/Core, vfd_bench/USB_DEVICE), its interrupt handlers          *)
(* (stm32f4xx_it.c) and custom/src/main.cpp, with and without the          *)
(* simulated drive.                                                        *)
(***************************************************************************)
EXTENDS Peripherals, Sequences, TLC

(***************************************************************************)
(* Initialisation.                                                         *)
(***************************************************************************)
HAL_InitTick == Initialise(Enable({"TIM8"}, TICK_INT_PRIORITY), {}, {"TIM8"})

HAL_MspInit == Initialise(Enable({"PendSV"}, 15), {}, {})

\* HAL_RCC_ClockConfig sets the tick up again for the new clock.
SystemClock_Config == HAL_InitTick

MX_GPIO_Init ==
  Initialise(<<>>,
             Outputs({"PE8", "PE9", "PE10", "PE11", "PE12", "PE13", "PE14", "PE15",
                      "PD4", "PD5"})
               \cup {<<p, "sdio", "pin">> : p \in {"PC8", "PC9", "PC10", "PC11", "PC12"}},
             {})

MX_DMA_Init ==
  Initialise(Enable({"dma1s0", "dma1s1", "dma1s2", "dma1s3", "dma1s4", "dma1s6",
                     "dma2s0", "dma2s7"}, 5), {}, {})

MX_UART4_Init == UartInit("uart4", "PD10", "PD0", "dma1s4", "dma1s2")
MX_UART7_Init == UartInit("uart7", "PF7", "PF6", "dma1s1", "dma1s3")
MX_UART8_Init == UartInit("uart8", "PF9", "PF8", "dma1s0", "dma1s6")
MX_UART9_Init == UartInit("uart9", "PG1", "PG0", "dma2s0", "dma2s7")

\* HAL_TIM_Base_MspInit: the timer is not started here.
MX_TIM11_Init == Initialise(Enable({"TIM11"}, 5), {}, {})

\* Called by HAL_PCD_Init.
HAL_PCD_MspInit ==
  Initialise(Enable({"OTG_FS"}, 6), {<<"PA11", "usb", "dm">>, <<"PA12", "usb", "dp">>}, {})

\* The USB driver without low power.
USBD_LL_Init == [msp |-> HAL_PCD_MspInit, low_power_enable |-> FALSE]

(***************************************************************************)
(* Interrupt handlers.                                                     *)
(***************************************************************************)
DMA1_Stream0_IRQHandler == handleDmaInterrupt("dma1s0")
DMA1_Stream1_IRQHandler == handleDmaInterrupt("dma1s1")
DMA1_Stream2_IRQHandler == handleDmaInterrupt("dma1s2")
DMA1_Stream3_IRQHandler == handleDmaInterrupt("dma1s3")
DMA1_Stream4_IRQHandler == handleDmaInterrupt("dma1s4")
DMA1_Stream6_IRQHandler == handleDmaInterrupt("dma1s6")
TIM1_TRG_COM_TIM11_IRQHandler == HAL_TIM_IRQHandler("TIM11")
TIM8_UP_TIM13_IRQHandler == HAL_TIM_IRQHandler("TIM8")
UART4_IRQHandler == handleUartInterrupt("uart4")
DMA2_Stream0_IRQHandler == handleDmaInterrupt("dma2s0")
OTG_FS_IRQHandler == HAL_PCD_IRQHandler
DMA2_Stream7_IRQHandler == handleDmaInterrupt("dma2s7")
UART7_IRQHandler == handleUartInterrupt("uart7")
UART8_IRQHandler == handleUartInterrupt("uart8")
UART9_IRQHandler == handleUartInterrupt("uart9")

\* The weak aliases of the start-up file, for a project without a handler.
WeakHandlers == [i \in Interrupts |-> Default_Handler]

\* The vector table: these handlers in place of the weak ones.
g_pfnVectors ==
  [dma1s0 |-> DMA1_Stream0_IRQHandler, dma1s1 |-> DMA1_Stream1_IRQHandler,
   dma1s2 |-> DMA1_Stream2_IRQHandler, dma1s3 |-> DMA1_Stream3_IRQHandler,
   dma1s4 |-> DMA1_Stream4_IRQHandler, dma1s6 |-> DMA1_Stream6_IRQHandler,
   dma2s0 |-> DMA2_Stream0_IRQHandler, dma2s7 |-> DMA2_Stream7_IRQHandler,
   uart4 |-> UART4_IRQHandler, uart7 |-> UART7_IRQHandler,
   uart8 |-> UART8_IRQHandler, uart9 |-> UART9_IRQHandler,
   TIM11 |-> TIM1_TRG_COM_TIM11_IRQHandler, TIM8 |-> TIM8_UP_TIM13_IRQHandler,
   OTG_FS |-> OTG_FS_IRQHandler, PendSV |-> xPortPendSVHandler] @@ WeakHandlers

(***************************************************************************)
(* The programs.                                                           *)
(***************************************************************************)
\* What main() does before the tasks, HAL_Init first.  MX_UART5_Init would take
\* the stream of uart8, which ResourcesAssumption refuses.
Prologue ==
  <<HAL_InitTick, HAL_MspInit, SystemClock_Config, MX_GPIO_Init, MX_DMA_Init,
    MX_UART4_Init, MX_UART8_Init, MX_UART7_Init, MX_UART9_Init, MX_TIM11_Init,
    NewTask("watchdog"), NewTask("logger")>>

USE_FAKE_VFD == <<NewUartTasks(uartInfo9, "none"), NewTask("fakeVfd")>>

main(fakeVfd) ==
  [calls |-> Prologue
       \o <<NewUsbTask, NewTask("intake"), NewTask("output"),
            NewUartTasks(uartInfo8, "PE14"), NewTask("vfdTask")>>
       \o (IF fakeVfd THEN USE_FAKE_VFD ELSE <<>>)
       \o <<NewTask("dispatcherTask"), StartScheduler>>,
   usb |-> USBD_LL_Init, vectors |-> g_pfnVectors]
=============================================================================
