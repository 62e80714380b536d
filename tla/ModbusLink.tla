------------------------------ MODULE ModbusLink ------------------------------
(***************************************************************************)
(* The Modbus driver and the simulated drives on one line, as main.cpp of  *)
(* vfd_bench wires them.  Requests follow each other for ever; VfdControl  *)
(* says which the VFD task sends, here each may be any of Requests.        *)
(*                                                                         *)
(* The line may lose or change bytes, and the server may be later than the *)
(* deadline of the driver, which may then send into an unfinished exchange.*)
(* Bounds of the model: MaxFaults disturbances, refusals and such          *)
(* requests; what is lost has a size of LossSizes; a read returns a number *)
(* of bytes from ReadSizes, or everything.                                 *)
(***************************************************************************)
EXTENDS ModbusFrames

CONSTANTS
  Addresses, MaxModbusPktSize,
  Requests,         \* records: node, command, data
  ReadSizes, LossSizes, MaxFaults

RequestsOK ==
  /\ 0 \in Addresses /\ Addresses \subseteq Byte
  /\ Requests \subseteq [node : Addresses, data : Words,
                         command : {ReadMultipleRegisters, WriteSingleRegister}]
  /\ \A r \in Requests : r.node = 0 => r.command = WriteSingleRegister
  /\ ReadSizes \subseteq Nat \ {0} /\ LossSizes \subseteq Nat \ {0}
  /\ MaxFaults \in Nat

ASSUME RequestsAssumption == RequestsOK

VARIABLES
  toServer, toDriver,       \* bytes sent and not read yet
  drvBuf, drvPc, request, outBuf, readDone, expired,
  srvBuf, index, srvPc, outPkt, frequencies,
  faultsLeft,
  pending,          \* history: requests sent that the server has not handled,
  sinceServed,      \* how many were sent since it handled one or bytes were disturbed,
  lost,             \* whether bytes were ever disturbed on the way to it,
  overlapped        \* and whether a request was sent before an exchange was over

Driver == INSTANCE ModbusDriver WITH
            rx <- toDriver, tx <- toServer, inBuf <- drvBuf, pc <- drvPc
Server == INSTANCE FakeVfd WITH
            rx <- toServer, tx <- toDriver, inBuf <- srvBuf, pc <- srvPc

drvVars == <<drvBuf, drvPc, request, outBuf, readDone, expired>>
srvVars == <<srvBuf, index, srvPc, outPkt, frequencies>>
history == <<pending, sinceServed, lost, overlapped>>
linkVars == <<toServer, toDriver, drvVars, srvVars, faultsLeft, history>>

LinkInit ==
  /\ Driver!Init /\ Server!Init
  /\ faultsLeft = MaxFaults
  /\ pending = <<>> /\ sinceServed = 0 /\ lost = FALSE /\ overlapped = FALSE

\* The server has done what it was asked to.
ServerIsDone == toServer = <<>> /\ srvPc = "read"

\* After a bad echo or a deadline the next request may follow when the server is
\* not done with the last one, or its answer is still on the line.
Send ==
  /\ \E arrived \in {0, Len(toDriver)}, r \in Requests :
       /\ Driver!SendRequest(r, arrived)
       /\ IF ServerIsDone /\ arrived = Len(toDriver)
          THEN UNCHANGED <<faultsLeft, overlapped>>
          ELSE faultsLeft > 0 /\ faultsLeft' = faultsLeft - 1 /\ overlapped' = TRUE
  /\ pending' = IF lost THEN <<>> ELSE Append(pending, request')
  /\ sinceServed' = sinceServed + 1
  /\ UNCHANGED <<srvVars, lost>>

DriverReads ==
  /\ Driver!ReadBytes
  /\ UNCHANGED <<srvVars, faultsLeft, history>>

\* The server may be later than the deadline.
Deadline ==
  /\ Driver!Expire
  /\ UNCHANGED <<srvVars, faultsLeft, history>>

\* A response was accepted.
Succeed ==
  /\ Driver!EndResponse /\ Driver!GoodResponse
  /\ UNCHANGED <<srvVars, faultsLeft, history>>

DriverGoesOn ==
  /\ Driver!EndEcho \/ Driver!BadEcho \/ Driver!BadResponse
  /\ UNCHANGED <<srvVars, faultsLeft, history>>

ServerReads ==
  /\ Server!Read \/ Server!AwaitBytes \/ Server!SkipByte \/ Server!Respond
  /\ UNCHANGED <<drvVars, faultsLeft, history>>

\* What the server takes for a request is the next one of the driver, unless
\* bytes were disturbed.
ServerHandles ==
  /\ Server!TakeRequest
  /\ pending' = IF pending = <<>> THEN <<>> ELSE Tail(pending)
  /\ sinceServed' = IF modbusValidCrc(Server!inPkt) THEN 0 ELSE sinceServed
  /\ UNCHANGED <<drvVars, faultsLeft, lost, overlapped>>

\* Bytes i to i + n - 1 are lost on the line, or a bit of byte i is turned round.
Without(bytes, i, n) == SubSeq(bytes, 1, i - 1) \o SubSeq(bytes, i + n, Len(bytes))
Disturbed(bytes) ==
  {Without(bytes, i, n) : n \in LossSizes, i \in 1 .. Len(bytes)}
    \union {[bytes EXCEPT ![i] = FlipBit(@, 1)] : i \in DOMAIN bytes}

Disturb ==
  /\ faultsLeft > 0
  /\ \/ /\ toServer' \in Disturbed(toServer)
        /\ lost' = TRUE /\ pending' = <<>> /\ sinceServed' = 0
        /\ UNCHANGED <<toDriver, overlapped>>
     \/ /\ toDriver' \in Disturbed(toDriver)
        /\ UNCHANGED <<toServer, history>>
  /\ faultsLeft' = faultsLeft - 1
  /\ UNCHANGED <<drvVars, srvVars>>

\* A drive other than the simulated ones may answer with an exception.
Refuse ==
  /\ faultsLeft > 0
  /\ srvPc = "respond"
  /\ Len(outPkt) # ModbusExceptionPktSize
  /\ outPkt' = Prepared(<<outPkt[1], outPkt[2] + Exception, 1>>)
  /\ faultsLeft' = faultsLeft - 1
  /\ UNCHANGED <<toServer, toDriver, drvVars, srvBuf, index, srvPc, frequencies, history>>

LinkNext == Send \/ DriverReads \/ Deadline \/ Succeed \/ DriverGoesOn
        \/ ServerReads \/ ServerHandles \/ Disturb \/ Refuse

LinkSpec == LinkInit /\ [][LinkNext]_linkVars

-------------------------------------------------------------------------------
(* Properties *)

\* The server always has room for its next read.
LinkTypeOK ==
  /\ {toServer, toDriver, drvBuf, srvBuf, outPkt} \subseteq Seq(Byte)
  /\ Len(drvBuf) <= MaxModbusPktSize
  /\ Len(srvBuf) <= MaxModbusPktSize /\ index \in 0 .. Len(srvBuf)
  /\ drvPc \in {"idle", "echo", "response"}
  /\ srvPc \in {"read", "parse", "respond"}
  /\ srvPc = "read" => Len(srvBuf) < MaxModbusPktSize
  /\ request.command \in {ReadMultipleRegisters, WriteSingleRegister}
  /\ readDone \in BOOLEAN /\ expired \in BOOLEAN
  /\ frequencies \in [Addresses -> Words]
  /\ faultsLeft \in 0 .. MaxFaults
  /\ pending \in Seq(Requests) /\ sinceServed \in Nat
  /\ lost \in BOOLEAN /\ overlapped \in BOOLEAN

\* What the driver accepts is true of the drive when it accepts it: a write was
\* done and is in force, a status is that of now, whatever was disturbed.  Not so once
\* a late answer or a bad echo made it send a request into an unfinished exchange:
\* then the echo of a write passes for the response to the same write before it.
AcceptedIsTrue ==
  [][Succeed /\ ~overlapped =>
       IF request.command = WriteSingleRegister
       THEN frequencies[request.node] = request.data
       ELSE Word(drvBuf[8], drvBuf[9]) = frequencies[request.node]]_linkVars

\* As long as no byte is disturbed the server finds each request once and in order,
\* wherever its reads cut them and while one waits behind the other.
ServedInOrder ==
  ~lost => /\ index = 0
           /\ srvBuf \o toServer = FlattenSeq([i \in DOMAIN pending |-> RequestFrame(pending[i])])

\* A disturbance costs a request or two, not those after them: the server finds the
\* beginning of a request again.
ServerRecovers == sinceServed <= 2
===============================================================================
