----------------------------- MODULE VfdControl -----------------------------
(***************************************************************************)
(* The VFD task (vfd_bench/custom/src/vfd_task.cpp), the Modbus driver it  *)
(* calls (common/src/modbus_driver.cpp) and the half-duplex bus with the   *)
(* drives on it.                                                           *)
(*                                                                         *)
(* The task polls the addresses in turn, address 0 being the broadcast: it *)
(* writes a set point that was not acknowledged yet and otherwise reads    *)
(* the status.  Requests, echoes and answers are whole frames.  A frame is *)
(* lost, refused or late only while the bus is bad.                        *)
(*                                                                         *)
(* Assumed of the drives: one that is asked again gives up an answer it    *)
(* has not sent yet, so no answer is later than a whole round.             *)
(* Bounds of the model: MaxCommands, QueueLen and Freqs.                   *)
(***************************************************************************)
EXTENDS Integers, Sequences

CONSTANTS
  numNodes,        \* addresses 0 .. numNodes - 1; 0 is the broadcast address
  Freqs,           \* frequencies a host asks for
  Unset,           \* the value of lastFrequency before the first success
  QueueLen,        \* commands that fit in the message buffer
  MaxCommands,     \* commands of the host in one behaviour
  HostAddresses,   \* addresses the host commands; numNodes is one too many
  HostRepeats,     \* TRUE: the host may ask a drive for a frequency it had before
  HostWaits,       \* TRUE: the host is silent until the first broadcast succeeded
  FaultyBus        \* FALSE: the bus is good from the start

ASSUME NodesAssumption == numNodes \in Nat /\ numNodes > 1
ASSUME FreqsAssumption == Freqs \subseteq Nat /\ 0 \in Freqs /\ Unset \notin Freqs
ASSUME HostAssumption ==
  /\ QueueLen \in Nat /\ MaxCommands \in Nat
  /\ HostAddresses \subseteq 0 .. numNodes
  /\ HostRepeats \in BOOLEAN
  /\ HostWaits \in BOOLEAN /\ FaultyBus \in BOOLEAN

Addresses == 0 .. numNodes - 1
Nodes == 1 .. numNodes - 1
NoFrame == [type |-> "none"]
Echo == [type |-> "echo"]
\* An answer repeats the command of its request; an exception marks it.
Answers == [type : {"response", "exception"}, node : Nodes,
            command : {"write", "read"}, data : Freqs]
Requests == [node : Addresses, command : {"write", "read"}, data : Freqs]

VARIABLES
  commands,       \* msgbuf: commands of the host, <<address, frequency>>
  setFrequency, lastFrequency,
  focus,
  pc,             \* collect, send, echo or reply
  request,        \* outPkt
  input,          \* inBuf and the bytes received behind it, as frames
  answers,        \* each drive: the answer it has not sent yet
  nodeFreq,       \* each drive: the frequency it runs at
  busGood,        \* from now on no frame is lost, refused or late
  wanted,         \* history: the last frequency the host asked of each drive
  commandsLeft    \* commands the host may still send

taskVars == <<setFrequency, lastFrequency, focus, pc, request>>
hostVars == <<commands, wanted, commandsLeft>>
busVars == <<input, answers, nodeFreq>>
vars == <<taskVars, hostVars, busVars, busGood>>

Init ==
  /\ commands = <<>>
  /\ setFrequency = [a \in Addresses |-> 0]
  /\ lastFrequency = [a \in Addresses |-> Unset]
  /\ focus = 0
  /\ pc = "collect"
  /\ request = [node |-> 0, command |-> "write", data |-> 0]
  /\ input = <<>>
  /\ answers = [n \in Nodes |-> NoFrame]
  /\ nodeFreq \in [Nodes -> Freqs]
  /\ busGood = ~FaultyBus
  /\ wanted = [n \in Nodes |-> 0]
  /\ commandsLeft = MaxCommands

----------------------------------------------------------------------------
(* The host, through the dispatcher.                                        *)

Reaches(a, n) == a = n \/ a = 0

HostCommands(a, f) ==
  /\ commandsLeft > 0
  /\ Len(commands) < QueueLen
  /\ HostWaits => lastFrequency[0] # Unset
  /\ ~HostRepeats => \A n \in Nodes : Reaches(a, n) => f > wanted[n]
  /\ commands' = Append(commands, <<a, f>>)
  /\ wanted' = [n \in Nodes |-> IF Reaches(a, n) THEN f ELSE wanted[n]]
  /\ commandsLeft' = commandsLeft - 1
  /\ UNCHANGED <<taskVars, busVars, busGood>>

----------------------------------------------------------------------------
(* The task: commands, then the next address.                               *)

Collect ==
  /\ pc = "collect"
  /\ commands # <<>>
  /\ LET a == Head(commands)[1]
         f == Head(commands)[2]
     IN setFrequency' = IF a \in Addresses THEN [setFrequency EXCEPT ![a] = f]
                                           ELSE setFrequency
  /\ commands' = Tail(commands)
  /\ UNCHANGED <<lastFrequency, focus, pc, request, wanted, commandsLeft, busVars, busGood>>

\* Round robin; nothing is sent for an unchanged broadcast value.
NextFocus == (focus + 1) % numNodes

Advance ==
  /\ pc = "collect"
  /\ commands = <<>>
  /\ focus' = NextFocus
  /\ \/ /\ setFrequency[NextFocus] # lastFrequency[NextFocus]
        /\ request' = [node |-> NextFocus, command |-> "write", data |-> setFrequency[NextFocus]]
        /\ pc' = "send"
     \/ /\ setFrequency[NextFocus] = lastFrequency[NextFocus]
        /\ NextFocus # 0
        /\ request' = [node |-> NextFocus, command |-> "read", data |-> 0]
        /\ pc' = "send"
     \/ /\ setFrequency[NextFocus] = lastFrequency[NextFocus]
        /\ NextFocus = 0
        /\ UNCHANGED <<request, pc>>
  /\ UNCHANGED <<setFrequency, lastFrequency, hostVars, busVars, busGood>>

----------------------------------------------------------------------------
(* The bus and the drives.                                                  *)

\* A drive that hears a request executes it and prepares its answer, or
\* refuses it with an exception; the status it returns is not modelled.
Answer(n, type) ==
  [type |-> type, node |-> n, command |-> request.command, data |-> request.data]

\* sendRequest flushes the input and writes the request.  A request that is
\* sent while a drive still owes an answer may be destroyed by it.
Send ==
  /\ pc = "send"
  /\ \E heard \in SUBSET {n \in Nodes : Reaches(request.node, n)},
        type \in {"response", "exception"}, echoed \in BOOLEAN :
       /\ busGood => /\ echoed /\ type = "response"
                     /\ \A n \in Nodes : Reaches(request.node, n) => n \in heard
                     /\ \A n \in Nodes : answers[n] = NoFrame
       /\ input' = IF echoed THEN <<Echo>> ELSE <<>>
       /\ nodeFreq' = [n \in Nodes |->
            IF n \in heard /\ type = "response" /\ request.command = "write"
            THEN request.data ELSE nodeFreq[n]]
       /\ answers' = [n \in Nodes |->
            IF n # request.node THEN answers[n]
            ELSE IF n \in heard THEN Answer(n, type) ELSE NoFrame]
  /\ pc' = "echo"
  /\ UNCHANGED <<setFrequency, lastFrequency, focus, request, hostVars, busGood>>

NodeAnswers(n) ==
  /\ answers[n] # NoFrame
  /\ input' = Append(input, answers[n])
  /\ answers' = [answers EXCEPT ![n] = NoFrame]
  /\ UNCHANGED <<taskVars, hostVars, nodeFreq, busGood>>

AnswerLost(n) ==
  /\ ~busGood
  /\ answers[n] # NoFrame
  /\ answers' = [answers EXCEPT ![n] = NoFrame]
  /\ UNCHANGED <<taskVars, hostVars, input, nodeFreq, busGood>>

BusSettles ==
  /\ ~busGood
  /\ busGood' = TRUE
  /\ UNCHANGED <<taskVars, hostVars, busVars>>

----------------------------------------------------------------------------
(* The task again: echo and response.                                       *)

\* Back to the loop, with the set point written or not.
Succeed ==
  /\ lastFrequency' = IF request.command = "write"
                      THEN [lastFrequency EXCEPT ![focus] = setFrequency[focus]]
                      ELSE lastFrequency
  /\ pc' = "collect"

FailForgets ==
  /\ lastFrequency' = [lastFrequency EXCEPT ![focus] = setFrequency[focus]]
  /\ pc' = "collect"
FailRetries ==
  /\ pc' = "send"
  /\ UNCHANGED lastFrequency
Fail ==
  /\ pc' = "collect"
  /\ UNCHANGED lastFrequency

\* The echo is as sent; a broadcast has no response.
EchoMatches ==
  /\ pc = "echo"
  /\ input # <<>>
  /\ Head(input) = Echo
  /\ input' = Tail(input)
  /\ IF request.node = 0 THEN Succeed ELSE pc' = "reply" /\ UNCHANGED lastFrequency
  /\ UNCHANGED <<setFrequency, focus, request, hostVars, answers, nodeFreq, busGood>>

\* The echo is short or differs: all input is dropped.
BadEcho ==
  /\ pc = "echo"
  /\ input # <<>> => Head(input) # Echo
  /\ input' = <<>>
  /\ Fail
  /\ UNCHANGED <<setFrequency, focus, request, hostVars, answers, nodeFreq, busGood>>

\* Address and command are compared, the data is not.
MatchesAnyNode(frame) == frame.type = "response" /\ frame.command = request.command
Matches(frame) ==
  /\ frame.type = "response"
  /\ frame.node = request.node
  /\ frame.command = request.command

\* The address of an exception is not compared.
IsException(frame) == frame.type = "exception" /\ frame.command = request.command

ValidResponse ==
  /\ pc = "reply"
  /\ input # <<>>
  /\ Matches(Head(input))
  /\ input' = Tail(input)
  /\ Succeed
  /\ UNCHANGED <<setFrequency, focus, request, hostVars, answers, nodeFreq, busGood>>

\* An exception or a malformed packet: it is consumed and nothing is done.
InvalidResponse ==
  /\ pc = "reply"
  /\ input # <<>>
  /\ IsException(Head(input)) \/ ~Matches(Head(input))
  /\ input' = Tail(input)
  /\ Fail
  /\ UNCHANGED <<setFrequency, focus, request, hostVars, answers, nodeFreq, busGood>>

ResponseTimeout ==
  /\ pc = "reply"
  /\ input = <<>>
  /\ busGood => answers[request.node] = NoFrame
  /\ Fail
  /\ UNCHANGED <<setFrequency, focus, request, hostVars, busVars, busGood>>

func ==
  \/ Collect \/ Advance \/ Send \/ EchoMatches \/ BadEcho
  \/ ValidResponse \/ InvalidResponse \/ ResponseTimeout

Next ==
  \/ func
  \/ \E a \in HostAddresses, f \in Freqs : HostCommands(a, f)
  \/ \E n \in Nodes : NodeAnswers(n) \/ AnswerLost(n)
  \/ BusSettles

\* The task runs and its waits end; a drive does send the answer it owes.
Fairness == WF_vars(func) /\ \A n \in Nodes : WF_vars(NodeAnswers(n))

Spec == Init /\ [][Next]_vars /\ Fairness

----------------------------------------------------------------------------
(* Properties.                                                              *)

TypeOK ==
  /\ commands \in Seq((0 .. numNodes) \X Freqs)
  /\ setFrequency \in [Addresses -> Freqs]
  /\ lastFrequency \in [Addresses -> Freqs \union {Unset}]
  /\ focus \in Addresses
  /\ pc \in {"collect", "send", "echo", "reply"}
  /\ request \in Requests
  /\ pc # "collect" => /\ request.node = focus
                       /\ request.command = "write" => request.data = setFrequency[focus]
                       /\ request.command = "read" => focus # 0
  /\ pc = "reply" => focus # 0
  /\ input \in Seq(Answers \union {Echo})
  /\ answers \in [Nodes -> Answers \union {NoFrame}]
  /\ nodeFreq \in [Nodes -> Freqs]
  /\ busGood \in BOOLEAN
  /\ wanted \in [Nodes -> Freqs]
  /\ commandsLeft \in 0 .. MaxCommands

\* A set point counts as written (lastFrequency) only when the drive runs at
\* it, whatever is lost, refused, late or out of turn on the bus.
AckIsTrue ==
  [][\A n \in Nodes : lastFrequency'[n] # lastFrequency[n] => nodeFreq[n] = lastFrequency'[n]]_vars

\* The task has nothing left to write.
Settled ==
  /\ commands = <<>>
  /\ pc = "collect"
  /\ \A a \in Addresses : setFrequency[a] = lastFrequency[a]

\* When the task (func) has nothing left to write, every drive runs at the
\* frequency the host asked for last.
SettledNodesObey == Settled => \A n \in Nodes : nodeFreq[n] = wanted[n]

\* Every drive is asked again and again, however bad the bus: a drive that
\* never answers does not keep the task from the others (focus).
EveryNodeAsked == \A n \in Nodes : []<>(pc = "send" /\ request.node = n)

\* Once the bus is good, every drive ends up at the frequency the host asked
\* for last: what was lost before is sent again.
CommandsTakeEffect == <>busGood => <>[](\A n \in Nodes : nodeFreq[n] = wanted[n])
=============================================================================
