---------------------------- MODULE MCModbusLink ----------------------------
(* ModbusLink for TLC: a drive gets a frequency, everyone gets another, and   *)
(* its status is read.                                                        *)
EXTENDS ModbusLink

TheRequests ==
  {[node |-> 1, command |-> WriteSingleRegister, data |-> 300],
   [node |-> 0, command |-> WriteSingleRegister, data |-> 600],
   [node |-> 1, command |-> ReadMultipleRegisters, data |-> 0]}
=============================================================================
