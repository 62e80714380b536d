------------------------------- MODULE Commander -------------------------------
(***************************************************************************)
(* host_apps/commander/main.cpp: one set-frequency packet per drive and    *)
(* one for the broadcast, changed and sent by key presses, and a           *)
(* heartbeat.  The port is not blocking and a packet that is written in    *)
(* part is not written again.  Log files, sequence numbers and printing    *)
(* are left out.                                                           *)
(* Bounds of the model: MaxKeys, MaxFrequency, MaxHeartbeats.              *)
(***************************************************************************)
EXTENDS SerialBuffer

CONSTANTS TtySize, numVfds, MaxKeys, MaxFrequency, MaxHeartbeats

VARIABLES
  tty, incoming,
  freqPkts,           \* address |-> frequency in its packet
  selectedVfd,
  quit,
  keysLeft, heartbeatsLeft

commanderVars == <<freqPkts, selectedVfd, quit, keysLeft, heartbeatsLeft>>

\* The port is opened without blocking and flushed both ways.
setupSerial == tty = <<>> /\ incoming = <<>>

Init ==
  /\ setupSerial
  /\ freqPkts = [a \in 0 .. numVfds - 1 |-> 0]
  /\ selectedVfd = 1
  /\ quit = FALSE
  /\ keysLeft = MaxKeys
  /\ heartbeatsLeft = MaxHeartbeats

Key ==
  /\ ~quit
  /\ keysLeft > 0
  /\ keysLeft' = keysLeft - 1
  /\ UNCHANGED <<incoming, heartbeatsLeft>>

writeToMonitorAndSerialOut(p) == tty' = WithWhatFits(tty, TtySize, p)

SendFrequency(f) ==
  /\ freqPkts' = [freqPkts EXCEPT ![selectedVfd] = f]
  /\ writeToMonitorAndSerialOut(VfdSetFrequency(selectedVfd, f))
  /\ UNCHANGED <<selectedVfd, quit>>

Up ==
  /\ Key
  /\ freqPkts[selectedVfd] < MaxFrequency
  /\ SendFrequency(freqPkts[selectedVfd] + 1)

Larger(a, b) == IF a < b THEN b ELSE a
Smaller(a, b) == IF a < b THEN a ELSE b

Down == Key /\ SendFrequency(Larger(1, freqPkts[selectedVfd]) - 1)

Zero == Key /\ SendFrequency(0)

\* The space bar: every packet is set to zero, the broadcast is sent.
ZeroAll ==
  /\ Key
  /\ freqPkts' = [a \in 0 .. numVfds - 1 |-> 0]
  /\ writeToMonitorAndSerialOut(VfdSetFrequency(0, 0))
  /\ UNCHANGED <<selectedVfd, quit>>

Select(a) ==
  /\ Key
  /\ selectedVfd' = a
  /\ UNCHANGED <<tty, freqPkts, quit>>

NextVfd == Select(Smaller(selectedVfd, numVfds - 2) + 1)
PreviousVfd == Select(Larger(1, selectedVfd) - 1)

Quit ==
  /\ Key
  /\ quit' = TRUE
  /\ UNCHANGED <<tty, freqPkts, selectedVfd>>

SendHeartbeat ==
  /\ ~quit
  /\ heartbeatsLeft > 0
  /\ heartbeatsLeft' = heartbeatsLeft - 1
  /\ writeToMonitorAndSerialOut(Heartbeat)
  /\ UNCHANGED <<incoming, freqPkts, selectedVfd, quit, keysLeft>>

\* What comes back is printed and logged.
processPacket ==
  /\ ~quit
  /\ incoming # <<>>
  /\ incoming' = Tail(incoming)
  /\ UNCHANGED <<tty, commanderVars>>

Keyboard ==
  \/ Up \/ Down \/ Zero \/ ZeroAll \/ NextVfd \/ PreviousVfd \/ Quit
===============================================================================
