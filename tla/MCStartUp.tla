------------------------------ MODULE MCStartUp ------------------------------
EXTENDS StartUp

L == INSTANCE LoopbackBoard
V == INSTANCE VfdBenchBoard

AllPrograms ==
  [uart_throughput |-> L!main(L!TEST_UART_THROUGHPUT),
   usb_io |-> L!main(L!TEST_USB_IO),
   usb_loopback |-> L!main(L!TEST_USB_LOOPBACK),
   packet_parsing |-> L!main(L!TEST_USB_PACKET_PARSING),
   single_uart |-> L!main(L!TEST_USB_SINGLE_UART_LOOPBACK),
   all_uarts |-> L!main(L!TEST_USB_ALL_UART_LOOPBACK),
   vfd_bench |-> V!main(FALSE),
   vfd_bench_with_fake_vfd |-> V!main(TRUE)]
=============================================================================
