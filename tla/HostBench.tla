------------------------------- MODULE HostBench -------------------------------
(***************************************************************************)
(* From the keyboard to the drives: a host application (Commander or       *)
(* Throughput) at one end of the port, the target of vfd_bench at the      *)
(* other (Dispatcher), and the VFD task with its drives (VfdControl) on a  *)
(* good bus: the commands that VfdControl leaves open come from the host   *)
(* here, and the faults of its bus do not happen (FaultyBus is FALSE).     *)
(*                                                                         *)
(* Assumed of the user: no key is pressed before the VFD task has written  *)
(* to every drive once.                                                    *)
(***************************************************************************)
EXTENDS SerialBuffer, VfdControl

CONSTANTS
  TtySize, RxSize, OutputLen,
  numVfds, MaxKeys, MaxFrequency, MaxHeartbeats,
  MaxPackets

\* The commander has a packet for the broadcast and for one drive at least.
ASSUME VfdsAssumption == numVfds \in Nat /\ numVfds > 1

VARIABLES
  app,                \* the application that runs
  tty, incoming,
  freqPkts, selectedVfd, quit, keysLeft, heartbeatsLeft,
  t, nextPacketEvent, outId, outPktCount, lastInId, inPktCount,
  rxMsgBuf, packet,
  heard,              \* history: the last whole command per address, on the target
  missed              \* history: numbers of the packets cut off or dropped there

User == INSTANCE Commander
Load == INSTANCE Throughput
Target == INSTANCE Dispatcher

commanderVars == <<freqPkts, selectedVfd, quit, keysLeft, heartbeatsLeft>>
throughputVars == <<t, nextPacketEvent, outId, outPktCount, lastInId, inPktCount>>
appVars == <<app, commanderVars, throughputVars>>
history == <<heard, missed>>
benchVars == <<appVars, tty, incoming, rxMsgBuf, packet, vars, history>>

BenchInit ==
  /\ app \in {"commander", "throughput"}
  /\ User!Init /\ Load!Init /\ Target!Init /\ Init
  /\ heard = [a \in 0 .. numVfds - 1 |-> Unset]
  /\ missed = {}

CommanderSteps(A) ==
  /\ app = "commander"
  /\ A
  /\ UNCHANGED <<app, throughputVars, rxMsgBuf, packet, vars, history>>

KeyPressed == lastFrequency[0] # Unset /\ CommanderSteps(User!Keyboard)
HeartbeatSent == CommanderSteps(User!SendHeartbeat)
CommanderReads == CommanderSteps(User!processPacket)

ThroughputSteps(A) ==
  /\ app = "throughput"
  /\ A
  /\ UNCHANGED <<app, commanderVars, rxMsgBuf, packet, vars, history>>

ThroughputWrites == ThroughputSteps(Load!WritePacket \/ Load!WriteFails)
ThroughputReads == ThroughputSteps(Load!processPacket)
TimePasses == ThroughputSteps(Load!TimePasses)

Receive ==
  /\ Target!receiveCb
  /\ LET p == Head(tty)
         whole == Fits(rxMsgBuf, RxSize, p)
     IN /\ heard' = IF whole /\ p.id = "VfdSetFrequency"
                    THEN [heard EXCEPT ![p.node] = p.frequency] ELSE heard
        /\ missed' = IF ~whole /\ p.id = "DummyPacket"
                     THEN missed \union {p.outId} ELSE missed
  /\ UNCHANGED <<appVars, vars>>

\* The queue of the VFD task takes any address, and the task ignores those
\* it has no drive for.
Enqueue(p) ==
  HostCommands(IF p.node < numNodes THEN p.node ELSE numNodes, p.frequency)

Dispatch ==
  /\ \/ /\ Target!Read \/ Target!ToOutput
        /\ UNCHANGED vars
     \/ Target!ToVfdTask /\ Enqueue(packet)
  /\ UNCHANGED <<appVars, history>>

OnTheBus(A) == A /\ UNCHANGED <<appVars, tty, incoming, rxMsgBuf, packet, history>>

VfdTask == OnTheBus(func)
DriveAnswers(n) == OnTheBus(NodeAnswers(n))

BenchNext ==
  \/ KeyPressed \/ HeartbeatSent \/ CommanderReads
  \/ ThroughputWrites \/ ThroughputReads \/ TimePasses
  \/ Receive \/ Dispatch
  \/ VfdTask \/ \E n \in Nodes : DriveAnswers(n)

\* The loops of the host run, time passes, the tasks and interrupts of the
\* target run and the drives answer; nobody has to press a key.
BenchFairness ==
  /\ WF_benchVars(CommanderReads) /\ WF_benchVars(ThroughputReads)
  /\ WF_benchVars(ThroughputWrites) /\ WF_benchVars(TimePasses)
  /\ WF_benchVars(Receive) /\ WF_benchVars(Dispatch)
  /\ WF_benchVars(VfdTask) /\ \A n \in Nodes : WF_benchVars(DriveAnswers(n))

BenchSpec == BenchInit /\ [][BenchNext]_benchVars /\ BenchFairness

----------------------------------------------------------------------------
(* Properties.                                                              *)

\* What reached the target for the drive n; nothing when both the drive and
\* the broadcast address were commanded, since then the later need not win.
Commanded(n) ==
  IF heard[n] = Unset THEN heard[0]
  ELSE IF heard[0] = Unset THEN heard[n]
  ELSE Unset

\* A command that got whole into the receive buffer (receiveCb) is carried
\* out: it is neither lost nor overtaken by an older one on its way through
\* the dispatcher, the queue of the VFD task and the bus, though heartbeats
\* and pieces of cut-off packets go the same way and every buffer fills up.
\* (Not after the commander quit: a report nobody reads keeps the dispatcher
\* from the commands behind it.)
DrivesFollow ==
  \A n \in Nodes :
    <>[](quit \/ Commanded(n) = Unset \/ nodeFreq[n] = Commanded(n))

OnTheWay ==
  {p \in UNION {{s[i] : i \in DOMAIN s} : s \in {tty, rxMsgBuf, <<packet>>, incoming}} :
     p.id = "DummyPacket"}

\* Once a packet came back, throughput's report (main) tells the losses from
\* the delays: Dropped is exactly the lost packets up to the last that came
\* back, Pending those that are on the way or were lost behind it.
CountsAreTrue ==
  inPktCount > 0 =>
    /\ Load!Dropped = Cardinality({i \in missed : i <= lastInId})
    /\ Load!Pending = Cardinality(OnTheWay) + Cardinality({i \in missed : i > lastInId})

\* A packet that throughput could not write when it was due is written
\* later, with the same number: in the end all that were due are written and
\* all that the target did not drop are counted (main, processPacket).
CatchesUp ==
  app = "throughput" ~>
    /\ outPktCount = MaxPackets
    /\ inPktCount = MaxPackets - Cardinality(missed)
===============================================================================
