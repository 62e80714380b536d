------------------------------- MODULE DmaFlags -------------------------------
(***************************************************************************)
(* dmaFlagCheckAndClear (common/inc/dma_reg.h): the interrupt flags of the *)
(* eight streams of a DMA controller, packed into two registers at         *)
(* positions that are computed.  A register is the set of its bits that    *)
(* are 1; to write a mask to the clear register removes the mask.          *)
(*                                                                         *)
(* UartRx, UartTx and StartUp give every stream flags of its own that are  *)
(* tested and cleared alone; UartRxProofs proves that the packed registers *)
(* are such flags, whatever they hold.                                     *)
(***************************************************************************)
EXTENDS Naturals

DmaFlag == [FE |-> 0, DME |-> 2, TE |-> 3, HT |-> 4, TC |-> 5]
flagOffset == <<0, 6, 16, 22>>

Streams == 0 .. 7
Flags == DOMAIN DmaFlag

Bit(stream, flag) == DmaFlag[flag] + flagOffset[(stream % 4) + 1]
Register(stream) == IF stream < 4 THEN "LISR" ELSE "HISR"

\* What the two registers may hold.
Status == [{"LISR", "HISR"} -> SUBSET (0 .. 31)]

IsSet(status, stream, flag) == Bit(stream, flag) \in status[Register(stream)]

\* The result, and the registers as the call leaves them.
dmaFlagCheckAndClear(status, stream, flag) ==
  [result |-> IsSet(status, stream, flag),
   status |-> [status EXCEPT ![Register(stream)] = @ \ {Bit(stream, flag)}]]
=============================================================================
