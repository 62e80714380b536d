-------------------------- MODULE VfdControlProofs --------------------------
(***************************************************************************)
(* For any number of drives, any frequencies and any behaviour of the bus, *)
(* the VFD task takes a set point for written only when the drive runs at  *)
(* it.                                                                     *)
(*                                                                         *)
(* The inductive invariant: while the task waits, an acknowledgement of    *)
(* the drive it asked, sent or not, means that the drive has executed this *)
(* very request.  Stale ones were flushed or given up when it was sent.    *)
(*                                                                         *)
(* The last part is about the bench around the task: the losses that       *)
(* throughput reports are the losses there are.                            *)
(***************************************************************************)
EXTENDS HostBench, SequenceTheorems, FiniteSetTheorems, TLAPS

\* An acknowledgement of a write by a drive.
IsAck(frame, n) ==
  /\ frame \in Answers
  /\ frame.type = "response"
  /\ frame.node = n
  /\ frame.command = "write"

AckOnItsWay ==
  \/ \E i \in 1 .. Len(input) : IsAck(input[i], request.node)
  \/ \E n \in Nodes : IsAck(answers[n], request.node)

AckIsFresh ==
  pc \in {"echo", "reply"} /\ request.command = "write" /\ AckOnItsWay
    => nodeFreq[request.node] = request.data

\* A drive answers for itself.
OwnAnswers == \A n \in Nodes : answers[n] \in Answers => answers[n].node = n

Inv == TypeOK /\ AckIsFresh /\ OwnAnswers

\* Neither an echo nor a missing frame is an answer.
LEMMA NotAnswers == Echo \notin Answers /\ NoFrame \notin Answers
  <1> SUFFICES ASSUME NEW a \in Answers PROVE a # Echo /\ a # NoFrame
    OBVIOUS
  <1>1. a.type \in {"response", "exception"}
    BY DEF Answers
  <1>2. Echo.type = "echo" /\ NoFrame.type = "none"
    BY DEF Echo, NoFrame
  <1> QED BY <1>1, <1>2

\* What the head and the tail of a sequence are made of.
LEMMA TailElements ==
  ASSUME NEW S, NEW s \in Seq(S), s # <<>>
  PROVE  /\ Tail(s) \in Seq(S) /\ Head(s) \in S
         /\ 1 \in 1 .. Len(s) /\ Head(s) = s[1]
         /\ \A i \in 1 .. Len(Tail(s)) : i + 1 \in 1 .. Len(s) /\ Tail(s)[i] = s[i + 1]
  <1>1. Len(s) \in Nat \ {0} /\ Len(Tail(s)) = Len(s) - 1
    BY HeadTailProperties, EmptySeq
  <1>2. Tail(s) \in Seq(S) /\ Head(s) \in S
    BY HeadTailProperties
  <1>3. Head(s) = s[1]
    OBVIOUS
  <1>4. \A i \in 1 .. Len(Tail(s)) : Tail(s)[i] = s[i + 1]
    BY HeadTailProperties
  <1> QED BY <1>1, <1>2, <1>3, <1>4

\* What a sequence with one more element is made of.
LEMMA AppendElements ==
  ASSUME NEW S, NEW s \in Seq(S), NEW e \in S
  PROVE  /\ Append(s, e) \in Seq(S)
         /\ \A i \in 1 .. Len(Append(s, e)) :
              \/ Append(s, e)[i] = e
              \/ i \in 1 .. Len(s) /\ Append(s, e)[i] = s[i]
  <1>1. Append(s, e) \in Seq(S) /\ Len(Append(s, e)) = Len(s) + 1 /\ Len(s) \in Nat
    BY AppendProperties
  <1>2. \A i \in 1 .. Len(s) : Append(s, e)[i] = s[i]
    BY AppendProperties
  <1>3. Append(s, e)[Len(s) + 1] = e
    BY AppendProperties
  <1> QED BY <1>1, <1>2, <1>3

\* The invariant holds initially.
LEMMA InitInv == Init => Inv
  <1> SUFFICES ASSUME Init PROVE Inv
    OBVIOUS
  <1> USE NodesAssumption, FreqsAssumption, HostAssumption DEF Init
  <1>1. TypeOK
    <2>1. /\ commands \in Seq((0 .. numNodes) \X Freqs)
          /\ input \in Seq(Answers \union {Echo})
      BY EmptySeq
    <2>2. request \in Requests
      BY DEF Requests, Addresses
    <2>3. answers \in [Nodes -> Answers \union {NoFrame}]
      OBVIOUS
    <2>4. /\ setFrequency \in [Addresses -> Freqs]
          /\ lastFrequency \in [Addresses -> Freqs \union {Unset}]
          /\ focus \in Addresses
          /\ wanted \in [Nodes -> Freqs]
          /\ commandsLeft \in 0 .. MaxCommands
      BY DEF Addresses
    <2> QED BY <2>1, <2>2, <2>3, <2>4 DEF TypeOK
  <1>2. AckIsFresh
    BY DEF AckIsFresh
  <1>3. OwnAnswers
    BY NotAnswers DEF OwnAnswers
  <1> QED BY <1>1, <1>2, <1>3 DEF Inv

\* The host only adds a command.
LEMMA HostType ==
  ASSUME Inv, NEW a \in HostAddresses, NEW f \in Freqs, HostCommands(a, f)
  PROVE  TypeOK'
  <1> USE DEF Inv, TypeOK, taskVars, busVars
  <1>1. commands' \in Seq((0 .. numNodes) \X Freqs)
    <2>1. <<a, f>> \in (0 .. numNodes) \X Freqs
      BY HostAssumption
    <2> QED BY <2>1, AppendElements DEF HostCommands
  <1>2. wanted' \in [Nodes -> Freqs]
    BY DEF HostCommands
  <1>3. commandsLeft' \in 0 .. MaxCommands
    BY HostAssumption DEF HostCommands
  <1> QED BY <1>1, <1>2, <1>3 DEF HostCommands

\* The task collects a command or turns to the next address.
LEMMA CollectType == Inv /\ Collect => TypeOK'
  <1> SUFFICES ASSUME Inv, Collect PROVE TypeOK'
    OBVIOUS
  <1> USE DEF Inv, TypeOK, busVars
  <1>1. /\ commands' \in Seq((0 .. numNodes) \X Freqs)
        /\ Head(commands) \in (0 .. numNodes) \X Freqs
    BY TailElements DEF Collect
  <1>2. setFrequency' \in [Addresses -> Freqs]
    BY <1>1 DEF Collect
  <1>3. pc = "collect" /\ pc' = "collect"
    BY DEF Collect
  <1> QED BY <1>1, <1>2, <1>3 DEF Collect

LEMMA AdvanceType == Inv /\ Advance => TypeOK'
  <1> SUFFICES ASSUME Inv, Advance PROVE TypeOK'
    OBVIOUS
  <1> USE DEF Inv, TypeOK, busVars, hostVars
  <1>1. NextFocus \in Addresses
    BY NodesAssumption DEF NextFocus, Addresses
  <1>2. focus' = NextFocus /\ focus' \in Addresses
    BY <1>1 DEF Advance
  <1>3. request' \in Requests
    <2>1. setFrequency[NextFocus] \in Freqs
      BY <1>1
    <2> QED BY <1>1, <2>1, FreqsAssumption DEF Advance, Requests
  <1>4. pc' \in {"collect", "send"}
    BY DEF Advance
  <1>5. pc' # "collect" => /\ request'.node = focus'
                           /\ request'.command = "write" => request'.data = setFrequency'[focus']
                           /\ request'.command = "read" => focus' # 0
    BY <1>2 DEF Advance
  <1>6. UNCHANGED <<commands, setFrequency, lastFrequency, input, answers, nodeFreq, busGood,
                    wanted, commandsLeft>>
    BY DEF Advance
  <1> QED BY <1>2, <1>3, <1>4, <1>5, <1>6

\* An answer to a request is an answer.
LEMMA AnswerType ==
  ASSUME Inv, NEW n \in Nodes, NEW type \in {"response", "exception"}
  PROVE  Answer(n, type) \in Answers
  BY DEF Inv, TypeOK, Requests, Answer, Answers

\* sendRequest leaves at most the echo in the input and a fresh answer behind.
LEMMA SendInv == Inv /\ Send => Inv'
  <1> SUFFICES ASSUME Inv, Send PROVE Inv'
    OBVIOUS
  <1>1. PICK hearing \in SUBSET {n \in Nodes : Reaches(request.node, n)},
             type \in {"response", "exception"}, echoed \in BOOLEAN :
       /\ input' = IF echoed THEN <<Echo>> ELSE <<>>
       /\ nodeFreq' = [n \in Nodes |->
            IF n \in hearing /\ type = "response" /\ request.command = "write"
            THEN request.data ELSE nodeFreq[n]]
       /\ answers' = [n \in Nodes |->
            IF n # request.node THEN answers[n]
            ELSE IF n \in hearing THEN Answer(n, type) ELSE NoFrame]
    BY DEF Send
  <1>2. /\ pc = "send" /\ pc' = "echo"
        /\ UNCHANGED <<commands, setFrequency, lastFrequency, focus, request, wanted,
                       commandsLeft, busGood>>
    BY DEF Send, hostVars
  <1>3. TypeOK'
    <2>1. input' \in Seq(Answers \union {Echo})
      <3>1. Echo \in Answers \union {Echo} /\ <<>> \in Seq(Answers \union {Echo})
        BY EmptySeq
      <3>2. <<Echo>> \in Seq(Answers \union {Echo})
        BY <3>1
      <3> QED BY <1>1, <3>1, <3>2
    <2>2. answers' \in [Nodes -> Answers \union {NoFrame}]
      BY <1>1, AnswerType DEF Inv, TypeOK
    <2>3. nodeFreq' \in [Nodes -> Freqs]
      BY <1>1 DEF Inv, TypeOK, Requests
    <2> QED BY <1>2, <2>1, <2>2, <2>3 DEF Inv, TypeOK
  <1>4. AckIsFresh'
    <2> SUFFICES ASSUME request.command = "write", AckOnItsWay'
                 PROVE  nodeFreq'[request.node] = request.data
      BY <1>2 DEF AckIsFresh
    <2>1. \A i \in 1 .. Len(input') : ~IsAck(input'[i], request.node)
      <3>1. Echo \notin Answers
        BY NotAnswers
      <3>2. \A i \in 1 .. Len(input') : input'[i] = Echo
        BY <1>1
      <3> QED BY <3>1, <3>2 DEF IsAck
    <2>2. PICK n \in Nodes : IsAck(answers'[n], request.node)
      BY <1>2, <2>1 DEF AckOnItsWay
    <2>3. n = request.node
      BY <1>1, <2>2 DEF Inv, OwnAnswers, IsAck
    <2>4. n \in hearing /\ answers'[n] = Answer(n, type)
      BY <1>1, <2>2, <2>3, NotAnswers DEF IsAck
    <2>5. type = "response"
      BY <2>2, <2>4 DEF IsAck, Answer
    <2> QED BY <1>1, <2>3, <2>4, <2>5
  <1>5. OwnAnswers'
    <2> SUFFICES ASSUME NEW n \in Nodes, answers'[n] \in Answers PROVE answers'[n].node = n
      BY DEF OwnAnswers
    <2>1. CASE n # request.node
      BY <1>1, <2>1 DEF Inv, OwnAnswers
    <2>2. CASE n = request.node
      BY <1>1, <2>2, NotAnswers DEF Answer
    <2> QED BY <2>1, <2>2
  <1> QED BY <1>3, <1>4, <1>5 DEF Inv

\* A drive sends the answer it owes: the acknowledgements on their way stay.
LEMMA NodeAnswersInv ==
  ASSUME Inv, NEW n \in Nodes, NodeAnswers(n)
  PROVE  Inv'
  <1> USE DEF Inv, taskVars, hostVars
  <1>1. answers[n] \in Answers
    BY DEF NodeAnswers, TypeOK
  <1>2. /\ input' \in Seq(Answers \union {Echo})
        /\ \A i \in 1 .. Len(input') :
             \/ input'[i] = answers[n]
             \/ i \in 1 .. Len(input) /\ input'[i] = input[i]
    BY <1>1, AppendElements DEF NodeAnswers, TypeOK
  <1>3. TypeOK'
    BY <1>2 DEF NodeAnswers, TypeOK
  <1>4. AckOnItsWay' => AckOnItsWay
    <2>1. ASSUME NEW m \in Nodes, IsAck(answers'[m], request.node) PROVE AckOnItsWay
      <3>1. m # n
        BY <2>1, NotAnswers DEF NodeAnswers, TypeOK, IsAck
      <3> QED BY <2>1, <3>1 DEF NodeAnswers, AckOnItsWay, TypeOK
    <2>2. ASSUME NEW i \in 1 .. Len(input'), IsAck(input'[i], request.node) PROVE AckOnItsWay
      BY <1>2, <2>2 DEF AckOnItsWay
    <2>3. request' = request
      BY DEF NodeAnswers
    <2> QED BY <2>1, <2>2, <2>3 DEF AckOnItsWay
  <1>5. AckIsFresh'
    BY <1>4 DEF AckIsFresh, NodeAnswers
  <1>6. OwnAnswers'
    BY NotAnswers DEF OwnAnswers, NodeAnswers, TypeOK
  <1> QED BY <1>3, <1>5, <1>6

LEMMA AnswerLostInv ==
  ASSUME Inv, NEW n \in Nodes, AnswerLost(n)
  PROVE  Inv'
  <1> USE DEF Inv, taskVars, hostVars, AnswerLost
  <1>1. TypeOK'
    BY DEF TypeOK
  <1>2. AckOnItsWay' => AckOnItsWay
    <2>1. ASSUME NEW m \in Nodes, IsAck(answers'[m], request.node) PROVE AckOnItsWay
      <3>1. m # n
        BY <2>1, NotAnswers DEF TypeOK, IsAck
      <3> QED BY <2>1, <3>1 DEF AckOnItsWay, TypeOK
    <2> QED BY <2>1 DEF AckOnItsWay
  <1>3. AckIsFresh'
    BY <1>2 DEF AckIsFresh
  <1>4. OwnAnswers'
    BY NotAnswers DEF OwnAnswers, TypeOK
  <1> QED BY <1>1, <1>3, <1>4

\* The end of a transaction, good or bad: the task is back in its loop.
LEMMA LoopInv ==
  ASSUME Inv, pc \in {"echo", "reply"}, pc' = "collect",
         input' \in Seq(Answers \union {Echo}),
         lastFrequency' \in [Addresses -> Freqs \union {Unset}],
         UNCHANGED <<setFrequency, focus, request, hostVars, answers, nodeFreq, busGood>>
  PROVE  Inv'
  <1>1. TypeOK'
    BY DEF Inv, TypeOK, hostVars
  <1>2. AckIsFresh'
    BY DEF AckIsFresh
  <1>3. OwnAnswers'
    BY DEF Inv, OwnAnswers
  <1> QED BY <1>1, <1>2, <1>3 DEF Inv

\* What a success or a failure leaves in lastFrequency.
LEMMA LastType ==
  ASSUME Inv, Succeed \/ Fail
  PROVE  lastFrequency' \in [Addresses -> Freqs \union {Unset}] /\ pc' = "collect"
  BY DEF Inv, TypeOK, Succeed, Fail

\* The steps of the task that read the input.
LEMMA InputInv ==
  ASSUME Inv, EchoMatches \/ BadEcho \/ ValidResponse \/ InvalidResponse \/ ResponseTimeout
  PROVE  Inv'
  <1>1. input \in Seq(Answers \union {Echo})
    BY DEF Inv, TypeOK
  <1>2. input # <<>> => Tail(input) \in Seq(Answers \union {Echo})
    BY <1>1, TailElements
  <1>3. CASE EchoMatches /\ request.node # 0
    <2>1. pc' = "reply" /\ input' = Tail(input) /\ pc = "echo" /\ input # <<>>
      BY <1>3 DEF EchoMatches
    <2>2. UNCHANGED <<setFrequency, lastFrequency, focus, request, hostVars, answers,
                      nodeFreq, busGood>>
      BY <1>3 DEF EchoMatches
    <2>3. TypeOK'
      BY <1>2, <1>3, <2>1, <2>2 DEF Inv, TypeOK, hostVars
    <2>4. AckOnItsWay' => AckOnItsWay
      <3>1. \A i \in 1 .. Len(Tail(input)) : i + 1 \in 1 .. Len(input) /\ Tail(input)[i] = input[i + 1]
        BY <1>1, <2>1, TailElements
      <3> QED BY <2>1, <2>2, <3>1 DEF AckOnItsWay
    <2>5. AckIsFresh'
      BY <2>1, <2>2, <2>4 DEF Inv, AckIsFresh
    <2>6. OwnAnswers'
      BY <2>2 DEF Inv, OwnAnswers
    <2> QED BY <2>3, <2>5, <2>6 DEF Inv
  <1>4. CASE EchoMatches /\ request.node = 0
    BY <1>2, <1>4, LastType, LoopInv DEF EchoMatches
  <1>5. CASE BadEcho
    BY <1>5, EmptySeq, LastType, LoopInv DEF BadEcho
  <1>6. CASE ValidResponse
    BY <1>2, <1>6, LastType, LoopInv DEF ValidResponse
  <1>7. CASE InvalidResponse
    BY <1>2, <1>7, LastType, LoopInv DEF InvalidResponse
  <1>8. CASE ResponseTimeout
    BY <1>1, <1>8, LastType, LoopInv DEF ResponseTimeout, busVars
  <1> QED BY <1>3, <1>4, <1>5, <1>6, <1>7, <1>8

\* The steps before a request is sent: no request is under way.
LEMMA IdleInv ==
  ASSUME Inv, TypeOK', pc' \notin {"echo", "reply"}, UNCHANGED answers
  PROVE  Inv'
  <1>1. AckIsFresh'
    BY DEF AckIsFresh
  <1>2. OwnAnswers'
    BY DEF Inv, OwnAnswers
  <1> QED BY <1>1, <1>2 DEF Inv

LEMMA InvNext == Inv /\ [Next]_vars => Inv'
  <1> SUFFICES ASSUME Inv, [Next]_vars PROVE Inv'
    OBVIOUS
  <1>1. CASE Collect
    BY <1>1, CollectType, IdleInv DEF Collect, busVars
  <1>2. CASE Advance
    <2>1. pc' \notin {"echo", "reply"} /\ UNCHANGED answers
      BY <1>2 DEF Advance, busVars
    <2> QED BY <1>2, <2>1, AdvanceType, IdleInv
  <1>3. CASE Send
    BY <1>3, SendInv
  <1>4. CASE EchoMatches \/ BadEcho \/ ValidResponse \/ InvalidResponse \/ ResponseTimeout
    BY <1>4, InputInv
  <1>5. ASSUME NEW a \in HostAddresses, NEW f \in Freqs, HostCommands(a, f) PROVE Inv'
    <2>1. TypeOK'
      BY <1>5, HostType
    <2>2. UNCHANGED <<pc, request, input, answers, nodeFreq>>
      BY <1>5 DEF HostCommands, taskVars, busVars
    <2> QED BY <2>1, <2>2 DEF Inv, AckIsFresh, AckOnItsWay, OwnAnswers
  <1>6. ASSUME NEW n \in Nodes, NodeAnswers(n) \/ AnswerLost(n) PROVE Inv'
    BY <1>6, NodeAnswersInv, AnswerLostInv
  <1>7. CASE BusSettles \/ UNCHANGED vars
    <2>1. UNCHANGED <<taskVars, hostVars, busVars>> /\ busGood' \in BOOLEAN
      BY <1>7 DEF BusSettles, vars, Inv, TypeOK
    <2> QED BY <2>1 DEF Inv, TypeOK, AckIsFresh, AckOnItsWay, OwnAnswers, taskVars, hostVars, busVars
  <1> QED BY <1>1, <1>2, <1>3, <1>4, <1>5, <1>6, <1>7 DEF Next, func

\* The inductive invariant holds in every state of every behaviour.
THEOREM Invariance == Spec => []Inv
  BY InvNext, InitInv, PTL DEF Spec

\* The task's variables, the frames and the drives keep their types, and a
\* request under way is for the address in focus and its set point.
THEOREM TypeCorrect == Spec => []TypeOK
  <1>1. Inv => TypeOK
    BY DEF Inv
  <1> QED BY <1>1, Invariance, PTL

\* The drive whose acknowledgement is accepted runs at its set point.
LEMMA ResponseIsTrue ==
  ASSUME Inv, ValidResponse, request.command = "write"
  PROVE  nodeFreq[focus] = setFrequency[focus]
  <1>1. request.node = focus /\ request.data = setFrequency[focus] /\ pc = "reply"
    BY DEF ValidResponse, Inv, TypeOK
  <1>2. input \in Seq(Answers \union {Echo}) /\ input # <<>>
    BY DEF ValidResponse, Inv, TypeOK
  <1>3. 1 \in 1 .. Len(input) /\ Head(input) = input[1] /\ Head(input) \in Answers \union {Echo}
    BY <1>2, TailElements
  <1>4. Head(input).type = "response"
    BY DEF ValidResponse, Matches
  <1>5. Head(input) \in Answers
    BY <1>3, <1>4 DEF Echo
  <1>6. IsAck(input[1], request.node)
    BY <1>3, <1>5 DEF ValidResponse, Matches, IsAck
  <1> QED BY <1>1, <1>3, <1>6 DEF Inv, AckIsFresh, AckOnItsWay

\* lastFrequency of a drive changes only when the drive runs at the new value.
THEOREM AcknowledgedMeansApplied == Spec => AckIsTrue
  <1>1. Inv /\ [Next]_vars =>
          [\A n \in Nodes : lastFrequency'[n] # lastFrequency[n]
                             => nodeFreq[n] = lastFrequency'[n]]_vars
    <2> SUFFICES ASSUME Inv, Next, NEW n \in Nodes, lastFrequency'[n] # lastFrequency[n]
                 PROVE  nodeFreq[n] = lastFrequency'[n]
      OBVIOUS
    <2>1. CASE ValidResponse
      <3>1. request.command = "write" /\ n = focus /\ lastFrequency'[n] = setFrequency[focus]
        BY <2>1 DEF ValidResponse, Succeed, Inv, TypeOK
      <3> QED BY <2>1, <3>1, ResponseIsTrue
    <2>2. CASE EchoMatches
      <3>1. CASE request.node = 0
        <4>1. focus = 0 /\ focus # n
          BY <2>2, <3>1 DEF EchoMatches, Inv, TypeOK, Nodes
        <4>2. /\ lastFrequency \in [Addresses -> Freqs \union {Unset}]
              /\ focus \in Addresses /\ n \in Addresses
          BY DEF Inv, TypeOK, Nodes, Addresses
        <4>3. \/ lastFrequency' = [lastFrequency EXCEPT ![focus] = setFrequency[focus]]
              \/ lastFrequency' = lastFrequency
          BY <2>2, <3>1 DEF EchoMatches, Succeed
        <4>4. lastFrequency'[n] = lastFrequency[n]
          BY <4>1, <4>2, <4>3
        <4> QED BY <4>4
      <3>2. CASE request.node # 0
        BY <2>2, <3>2 DEF EchoMatches
      <3> QED BY <3>1, <3>2
    <2>3. CASE ~ValidResponse /\ ~EchoMatches
      BY <2>3 DEF Next, func, Collect, Advance, Send, BadEcho, InvalidResponse, ResponseTimeout,
         Fail, HostCommands, NodeAnswers, AnswerLost, BusSettles, taskVars
    <2> QED BY <2>1, <2>2, <2>3
  <1> QED BY <1>1, Invariance, PTL DEF Spec, AckIsTrue

----------------------------------------------------------------------------
(* What the drives do in the end, when the host asks each of them for ever   *)
(* higher frequencies, sends no broadcast and starts after the task's own.   *)
RisingHost == ~HostRepeats /\ HostWaits /\ 0 \notin HostAddresses

\* Every command of a drive is a step up from its set point to what is wanted,
\* and what is wanted last is the set point or still among the commands.
CommandsRise ==
  /\ \A i \in 1 .. Len(commands) : commands[i][1] # 0
  /\ \A i \in 1 .. Len(commands), n \in Nodes :
       commands[i][1] = n => /\ setFrequency[n] < commands[i][2]
                             /\ commands[i][2] <= wanted[n]
  /\ \A i, j \in 1 .. Len(commands) :
       i < j /\ commands[i][1] = commands[j][1] /\ commands[i][1] \in Nodes
         => commands[i][2] < commands[j][2]
  /\ \A n \in Nodes : \/ setFrequency[n] = wanted[n]
                      \/ \E i \in 1 .. Len(commands) : commands[i] = <<n, wanted[n]>>

\* The only broadcast is the zero the task starts with.
StartBroadcast ==
  /\ setFrequency[0] = 0
  /\ lastFrequency[0] \in {0, Unset}
  /\ lastFrequency[0] = Unset => commands = <<>> /\ \A n \in Nodes : setFrequency[n] = 0
  /\ pc # "collect" /\ request.node = 0 => lastFrequency[0] = Unset

\* The acknowledged value of a drive is at most its set point; when it is the set
\* point, the drive still runs at it.
AckStands ==
  \A n \in Nodes : lastFrequency[n] # Unset =>
    /\ lastFrequency[n] <= setFrequency[n]
    /\ lastFrequency[n] = setFrequency[n] => nodeFreq[n] = setFrequency[n]

RisingInv == Inv /\ CommandsRise /\ StartBroadcast /\ AckStands

LEMMA RisingInit == Init => RisingInv
  <1> SUFFICES ASSUME Init PROVE RisingInv
    OBVIOUS
  <1>1. Inv
    BY InitInv
  <1>2. 0 \in Addresses /\ \A n \in Nodes : n \in Addresses
    BY NodesAssumption DEF Addresses, Nodes
  <1>3. CommandsRise
    BY <1>2 DEF Init, CommandsRise
  <1>4. StartBroadcast
    BY <1>2 DEF Init, StartBroadcast
  <1>5. AckStands
    BY <1>2 DEF Init, AckStands
  <1> QED BY <1>1, <1>3, <1>4, <1>5 DEF RisingInv

\* Types of what the host's commands are compared with.
LEMMA RisingTypes ==
  ASSUME Inv
  PROVE  /\ 0 \in Addresses /\ \A n \in Nodes : n \in Addresses /\ n # 0
         /\ \A a \in Addresses : /\ setFrequency[a] \in Freqs /\ setFrequency[a] \in Nat
                                 /\ setFrequency[a] # Unset
                                 /\ lastFrequency[a] # Unset => lastFrequency[a] \in Nat
         /\ \A n \in Nodes : wanted[n] \in Nat
         /\ \A i \in 1 .. Len(commands) : /\ commands[i] \in (0 .. numNodes) \X Freqs
                                          /\ commands[i][1] \in Nat
                                          /\ commands[i][2] \in Freqs
                                          /\ commands[i][2] \in Nat
  <1>1. 0 \in Addresses /\ \A n \in Nodes : n \in Addresses /\ n # 0
    BY NodesAssumption DEF Addresses, Nodes
  <1>2. \A i \in 1 .. Len(commands) : commands[i] \in (0 .. numNodes) \X Freqs
    BY DEF Inv, TypeOK
  <1>3. \A a \in Addresses : /\ setFrequency[a] \in Freqs /\ setFrequency[a] \in Nat
                             /\ setFrequency[a] # Unset
                             /\ lastFrequency[a] # Unset => lastFrequency[a] \in Nat
    BY FreqsAssumption DEF Inv, TypeOK
  <1>4. \A n \in Nodes : wanted[n] \in Nat
    BY FreqsAssumption DEF Inv, TypeOK
  <1>5. \A i \in 1 .. Len(commands) : /\ commands[i][1] \in Nat
                                      /\ commands[i][2] \in Freqs
                                      /\ commands[i][2] \in Nat
    <2>1. \A i \in 1 .. Len(commands) : commands[i][1] \in 0 .. numNodes /\ commands[i][2] \in Freqs
      BY <1>2
    <2>2. \A x \in 0 .. numNodes : x \in Nat
      BY NodesAssumption
    <2>3. \A x \in Freqs : x \in Nat
      BY FreqsAssumption
    <2> QED BY <2>1, <2>2, <2>3, Zenon
  <1> QED BY <1>1, <1>2, <1>3, <1>4, <1>5

\* The host adds a command above all that it asked of the drive before.
LEMMA RisingCommand ==
  ASSUME RisingInv, RisingHost, NEW a \in HostAddresses, NEW f \in Freqs, HostCommands(a, f)
  PROVE  CommandsRise' /\ StartBroadcast' /\ AckStands'
  <1>1. UNCHANGED <<setFrequency, lastFrequency, pc, request, nodeFreq>>
    BY DEF HostCommands, taskVars, busVars
  <1>2. AckStands'
    BY <1>1 DEF RisingInv, AckStands
  <1>3. StartBroadcast'
    BY <1>1 DEF RisingInv, StartBroadcast, RisingHost, HostCommands
  <1>4. /\ a # 0 /\ a \in Nat /\ f \in Nat /\ Inv
        /\ \A n \in Nodes : a = n => f > wanted[n]
        /\ \A n \in Nodes : wanted'[n] = IF a = n THEN f ELSE wanted[n]
    BY HostAssumption, FreqsAssumption DEF HostCommands, RisingHost, Reaches, RisingInv
  <1>5. commands \in Seq((0 .. numNodes) \X Freqs) /\ <<a, f>> \in (0 .. numNodes) \X Freqs
    BY HostAssumption DEF RisingInv, Inv, TypeOK
  <1>6. /\ Len(commands') = Len(commands) + 1 /\ Len(commands) \in Nat
        /\ \A i \in 1 .. Len(commands) : commands'[i] = commands[i]
        /\ commands'[Len(commands) + 1] = <<a, f>>
    <2>1. commands' = Append(commands, <<a, f>>)
      BY DEF HostCommands
    <2> HIDE DEF RisingInv
    <2> QED BY <1>5, <2>1, AppendProperties
  <1>7. \A i \in 1 .. Len(commands') :
          \/ i \in 1 .. Len(commands) /\ commands'[i] = commands[i]
          \/ i = Len(commands) + 1 /\ commands'[i][1] = a /\ commands'[i][2] = f
    BY <1>6
  <1>8. CommandsRise'
    <2>1. \A i \in 1 .. Len(commands') : commands'[i][1] # 0
      BY <1>4, <1>7 DEF RisingInv, CommandsRise
    <2>2. ASSUME NEW i \in 1 .. Len(commands'), NEW n \in Nodes, commands'[i][1] = n
          PROVE  setFrequency[n] < commands'[i][2] /\ commands'[i][2] <= wanted'[n]
      <3>1. setFrequency[n] <= wanted[n]
        <4>1. setFrequency[n] \in Nat /\ wanted[n] \in Nat
          BY <1>4, RisingTypes
        <4>2. CASE setFrequency[n] = wanted[n]
          BY <4>1, <4>2
        <4>3. ASSUME NEW k \in 1 .. Len(commands), commands[k] = <<n, wanted[n]>>
              PROVE  setFrequency[n] <= wanted[n]
          <5>1. commands[k][1] = n /\ commands[k][2] = wanted[n]
            BY <4>3
          <5>2. setFrequency[n] < wanted[n]
            BY <5>1 DEF RisingInv, CommandsRise
          <5> QED BY <4>1, <5>2
        <4> QED BY <4>2, <4>3 DEF RisingInv, CommandsRise
      <3>2. setFrequency[n] \in Nat /\ wanted[n] \in Nat
        BY <1>4, RisingTypes
      <3>3. CASE i \in 1 .. Len(commands) /\ commands'[i] = commands[i]
        <4>1. commands[i][1] = n
          BY <2>2, <3>3
        <4>2. setFrequency[n] < commands[i][2] /\ commands[i][2] <= wanted[n]
          BY <3>3, <4>1 DEF RisingInv, CommandsRise
        <4>3. commands[i][2] \in Nat
          BY <1>4, <3>3, RisingTypes
        <4>4. wanted[n] <= wanted'[n]
          BY <1>4, <3>2
        <4>5. wanted'[n] \in Nat
          BY <1>4, <3>2
        <4> QED BY <3>2, <3>3, <4>2, <4>3, <4>4, <4>5
      <3>4. CASE commands'[i][1] = a /\ commands'[i][2] = f
        <4>1. a = n
          BY <2>2, <3>4
        <4>2. f > wanted[n] /\ wanted'[n] = f
          BY <1>4, <4>1
        <4> QED BY <1>4, <3>1, <3>2, <3>4, <4>2
      <3> QED BY <1>7, <3>3, <3>4
    <2>3. ASSUME NEW i \in 1 .. Len(commands'), NEW j \in 1 .. Len(commands'),
                 i < j, commands'[i][1] = commands'[j][1], commands'[i][1] \in Nodes
          PROVE  commands'[i][2] < commands'[j][2]
      <3>1. i \in 1 .. Len(commands) /\ commands'[i] = commands[i]
        BY <1>6, <1>7, <2>3
      <3>2. CASE j \in 1 .. Len(commands) /\ commands'[j] = commands[j]
        BY <2>3, <3>1, <3>2 DEF RisingInv, CommandsRise
      <3>3. CASE commands'[j][1] = a /\ commands'[j][2] = f
        <4>1. commands[i][1] = a /\ a \in Nodes
          BY <2>3, <3>1, <3>3
        <4>2. commands[i][2] <= wanted[a] /\ f > wanted[a]
          BY <1>4, <3>1, <4>1 DEF RisingInv, CommandsRise
        <4> QED BY <1>4, <3>1, <3>3, <4>1, <4>2, RisingTypes
      <3> QED BY <1>7, <3>2, <3>3
    <2>4. \A n \in Nodes : \/ setFrequency[n] = wanted'[n]
                           \/ \E i \in 1 .. Len(commands') : commands'[i] = <<n, wanted'[n]>>
      <3> TAKE n \in Nodes
      <3>1. CASE a = n
        BY <1>4, <1>6, <3>1
      <3>2. CASE a # n
        <4>1. wanted'[n] = wanted[n]
          BY <1>4, <3>2
        <4>2. CASE setFrequency[n] = wanted[n]
          BY <4>1, <4>2
        <4>3. CASE \E i \in 1 .. Len(commands) : commands[i] = <<n, wanted[n]>>
          BY <1>6, <4>1, <4>3
        <4> QED BY <4>2, <4>3 DEF RisingInv, CommandsRise
      <3> QED BY <3>1, <3>2
    <2> QED BY <1>1, <2>1, <2>2, <2>3, <2>4 DEF CommandsRise
  <1> QED BY <1>2, <1>3, <1>8

\* The task takes a command: the set point rises, and is not acknowledged.
LEMMA RisingCollect ==
  ASSUME RisingInv, Collect
  PROVE  CommandsRise' /\ StartBroadcast' /\ AckStands'
  <1> DEFINE a == commands[1][1]
             f == commands[1][2]
  <1>1. /\ Inv /\ commands \in Seq((0 .. numNodes) \X Freqs) /\ commands # <<>>
    BY DEF Collect, RisingInv, Inv, TypeOK
  <1>2. /\ Len(commands) \in Nat \ {0} /\ Len(commands') = Len(commands) - 1
        /\ \A i \in 1 .. Len(commands') : commands'[i] = commands[i + 1]
    <2>1. commands' = Tail(commands)
      BY DEF Collect
    <2> HIDE DEF RisingInv
    <2> QED BY <1>1, <2>1, HeadTailProperties, EmptySeq
  <1>3. /\ UNCHANGED <<lastFrequency, nodeFreq, wanted, request>> /\ pc = "collect" /\ pc' = "collect"
        /\ 1 \in 1 .. Len(commands) /\ Head(commands) = commands[1]
    BY <1>1, <1>2 DEF Collect, busVars
  <1>4. setFrequency' = IF a \in Addresses THEN [setFrequency EXCEPT ![a] = f] ELSE setFrequency
    BY <1>3 DEF Collect
  <1>5. \A b \in Addresses : setFrequency'[b] = IF b = a THEN f ELSE setFrequency[b]
    BY <1>1, <1>4 DEF Inv, TypeOK
  <1>6. a # 0
    BY <1>3 DEF RisingInv, CommandsRise
  <1>7. StartBroadcast'
    <2>1. setFrequency'[0] = 0
      BY <1>1, <1>5, <1>6, RisingTypes DEF RisingInv, StartBroadcast
    <2>2. lastFrequency[0] # Unset
      BY <1>1 DEF RisingInv, StartBroadcast
    <2> QED BY <1>3, <2>1, <2>2 DEF RisingInv, StartBroadcast
  <1>8. AckStands'
    <2> SUFFICES ASSUME NEW n \in Nodes, lastFrequency[n] # Unset
                 PROVE  /\ lastFrequency[n] <= setFrequency'[n]
                        /\ lastFrequency[n] = setFrequency'[n] => nodeFreq[n] = setFrequency'[n]
      BY <1>3 DEF AckStands
    <2>1. CASE n = a
      <3>1. setFrequency'[n] = f /\ setFrequency[n] < f
        BY <1>1, <1>3, <1>5, <2>1, RisingTypes DEF RisingInv, CommandsRise
      <3>2. lastFrequency[n] <= setFrequency[n]
        BY DEF RisingInv, AckStands
      <3>3. lastFrequency[n] \in Nat /\ setFrequency[n] \in Nat /\ f \in Nat
        BY <1>1, <1>3, RisingTypes
      <3> HIDE DEF f
      <3> QED BY <3>1, <3>2, <3>3
    <2>2. CASE n # a
      BY <1>1, <1>5, <2>2, RisingTypes DEF RisingInv, AckStands
    <2> QED BY <2>1, <2>2
  <1>9. CommandsRise'
    <2>1. \A i \in 1 .. Len(commands') : i + 1 \in 1 .. Len(commands) /\ commands'[i] = commands[i + 1]
      BY <1>2
    <2>2. \A i \in 1 .. Len(commands') : commands'[i][1] # 0
      BY <2>1 DEF RisingInv, CommandsRise
    <2>3. ASSUME NEW i \in 1 .. Len(commands'), NEW n \in Nodes, commands'[i][1] = n
          PROVE  setFrequency'[n] < commands'[i][2] /\ commands'[i][2] <= wanted[n]
      <3>1. i + 1 \in 1 .. Len(commands) /\ commands'[i] = commands[i + 1] /\ 1 < i + 1
        BY <2>1
      <3>2. CASE n = a
        <4>1. f < commands[i + 1][2]
          BY <1>3, <2>3, <3>1, <3>2 DEF RisingInv, CommandsRise
        <4> QED BY <1>1, <1>5, <2>3, <3>1, <3>2, <4>1, RisingTypes DEF RisingInv, CommandsRise
      <3>3. CASE n # a
        BY <1>1, <1>5, <2>3, <3>1, <3>3, RisingTypes DEF RisingInv, CommandsRise
      <3> QED BY <3>2, <3>3
    <2>4. ASSUME NEW i \in 1 .. Len(commands'), NEW j \in 1 .. Len(commands'),
                 i < j, commands'[i][1] = commands'[j][1], commands'[i][1] \in Nodes
          PROVE  commands'[i][2] < commands'[j][2]
      <3>1. /\ i + 1 \in 1 .. Len(commands) /\ commands'[i] = commands[i + 1]
            /\ j + 1 \in 1 .. Len(commands) /\ commands'[j] = commands[j + 1]
            /\ i + 1 < j + 1
        BY <2>1, <2>4
      <3> QED BY <2>4, <3>1 DEF RisingInv, CommandsRise
    <2>5. ASSUME NEW n \in Nodes
          PROVE  \/ setFrequency'[n] = wanted[n]
                 \/ \E i \in 1 .. Len(commands') : commands'[i] = <<n, wanted[n]>>
      <3>1. CASE setFrequency[n] = wanted[n]
        <4>1. n # a
          BY <1>1, <1>3, <3>1, RisingTypes DEF RisingInv, CommandsRise
        <4> QED BY <1>1, <1>5, <3>1, <4>1, RisingTypes
      <3>2. ASSUME NEW i \in 1 .. Len(commands), commands[i] = <<n, wanted[n]>>
            PROVE  \/ setFrequency'[n] = wanted[n]
                   \/ \E k \in 1 .. Len(commands') : commands'[k] = <<n, wanted[n]>>
        <4>1. CASE i = 1
          BY <1>1, <1>5, <3>2, <4>1, RisingTypes
        <4>2. CASE i # 1
          <5>1. i - 1 \in 1 .. Len(commands') /\ (i - 1) + 1 = i
            BY <1>2, <3>2, <4>2
          <5>2. commands'[i - 1] = commands[i]
            BY <2>1, <5>1
          <5> QED BY <3>2, <5>1, <5>2
        <4> QED BY <4>1, <4>2
      <3> QED BY <3>1, <3>2 DEF RisingInv, CommandsRise
    <2> QED BY <1>3, <2>2, <2>3, <2>4, <2>5 DEF CommandsRise
  <1> QED BY <1>7, <1>8, <1>9

\* A request: nothing is told apart by whether a drive hears it, since it carries
\* the set point of its drive, or the zero that starts them all.
LEMMA RisingSend ==
  ASSUME RisingInv, Send
  PROVE  CommandsRise' /\ StartBroadcast' /\ AckStands'
  <1>1. /\ UNCHANGED <<commands, wanted, setFrequency, lastFrequency, request>> /\ pc = "send"
    BY DEF Send, hostVars
  <1>2. CommandsRise' /\ StartBroadcast'
    <2>1. /\ commands' = commands /\ wanted' = wanted /\ setFrequency' = setFrequency
          /\ lastFrequency' = lastFrequency /\ request' = request /\ pc = "send"
      BY <1>1
    <2>2. CommandsRise'
      BY <2>1 DEF RisingInv, CommandsRise
    <2>3. StartBroadcast'
      BY <2>1 DEF RisingInv, StartBroadcast
    <2> QED BY <2>2, <2>3
  <1>3. PICK hearing \in SUBSET {n \in Nodes : Reaches(request.node, n)},
             type \in {"response", "exception"} :
          nodeFreq' = [n \in Nodes |->
            IF n \in hearing /\ type = "response" /\ request.command = "write"
            THEN request.data ELSE nodeFreq[n]]
    BY DEF Send
  <1>4. ASSUME NEW n \in Nodes, lastFrequency[n] # Unset, lastFrequency[n] = setFrequency[n]
        PROVE  nodeFreq'[n] = setFrequency[n]
    <2>1. nodeFreq[n] = setFrequency[n]
      BY <1>4 DEF RisingInv, AckStands
    <2>2. CASE n \in hearing /\ request.command = "write"
      <3>1. request.node = focus /\ request.data = setFrequency[focus]
        BY <1>1, <2>2 DEF RisingInv, Inv, TypeOK
      <3>2. CASE request.node = n
        BY <1>3, <2>1, <3>1, <3>2
      <3>3. CASE request.node = 0
        <4>1. setFrequency[n] = 0 /\ setFrequency[0] = 0
          BY <1>1, <3>3 DEF RisingInv, StartBroadcast
        <4> QED BY <1>3, <2>1, <3>1, <3>3, <4>1
      <3> QED BY <2>2, <3>2, <3>3 DEF Reaches
    <2>3. CASE ~(n \in hearing /\ request.command = "write")
      BY <1>3, <2>1, <2>3
    <2> QED BY <2>2, <2>3
  <1>5. AckStands'
    BY <1>1, <1>4 DEF RisingInv, AckStands
  <1> QED BY <1>2, <1>5

\* The steps that only move frames or turn to the next address.
LEMMA RisingOther ==
  ASSUME RisingInv,
         \/ Advance \/ BadEcho \/ InvalidResponse \/ ResponseTimeout \/ BusSettles
         \/ \E n \in Nodes : NodeAnswers(n) \/ AnswerLost(n)
         \/ UNCHANGED vars
  PROVE  CommandsRise' /\ StartBroadcast' /\ AckStands'
  <1>1. UNCHANGED <<commands, wanted, setFrequency, lastFrequency, nodeFreq>>
    BY DEF Advance, BadEcho, InvalidResponse, ResponseTimeout, BusSettles, NodeAnswers, AnswerLost,
       Fail, vars, taskVars, hostVars, busVars
  <1>2. CommandsRise' /\ AckStands'
    BY <1>1 DEF RisingInv, CommandsRise, AckStands
  <1>3. pc' # "collect" /\ request'.node = 0 => lastFrequency[0] = Unset
    <2>1. CASE Advance
      <3>1. CASE pc' # "collect" /\ request'.node = 0
        <4>1. NextFocus = 0 /\ setFrequency[NextFocus] # lastFrequency[NextFocus]
          BY <2>1, <3>1 DEF Advance
        <4> QED BY <4>1 DEF RisingInv, StartBroadcast
      <3> QED BY <3>1
    <2>2. CASE ~Advance
      <3>1. pc' # "collect" => pc # "collect" /\ request' = request
        BY <2>2 DEF BadEcho, InvalidResponse, ResponseTimeout, BusSettles, NodeAnswers, AnswerLost,
           Fail, vars, taskVars, hostVars, busVars
      <3> QED BY <3>1 DEF RisingInv, StartBroadcast
    <2> QED BY <2>1, <2>2
  <1>4. StartBroadcast'
    BY <1>1, <1>3 DEF RisingInv, StartBroadcast
  <1> QED BY <1>2, <1>4

\* A success: the set point counts as written, and the drive runs at it.
LEMMA RisingSuccess ==
  ASSUME RisingInv, Inv', EchoMatches \/ ValidResponse
  PROVE  CommandsRise' /\ StartBroadcast' /\ AckStands'
  <1>1. UNCHANGED <<commands, wanted, setFrequency, nodeFreq, request, focus>>
    BY DEF EchoMatches, ValidResponse, hostVars
  <1>2. CommandsRise'
    BY <1>1 DEF RisingInv, CommandsRise
  <1>3. /\ request.node = focus /\ focus \in Addresses
        /\ request.command = "write" => request.data = setFrequency[focus]
        /\ lastFrequency \in [Addresses -> Freqs \union {Unset}]
        /\ pc # "collect" /\ (pc = "reply" => focus # 0)
    BY DEF RisingInv, Inv, TypeOK, EchoMatches, ValidResponse
  <1>4. CASE EchoMatches /\ request.node # 0
    <2>1. UNCHANGED lastFrequency
      BY <1>4 DEF EchoMatches
    <2> QED BY <1>1, <1>2, <1>4, <2>1 DEF RisingInv, StartBroadcast, AckStands
  <1>5. CASE EchoMatches /\ request.node = 0
    <2>1. pc' = "collect" /\ \A n \in Nodes : lastFrequency'[n] = lastFrequency[n]
      BY SMTT(30), <1>3, <1>5 DEF EchoMatches, Succeed, Nodes
    <2>2. AckStands'
      BY <1>1, <2>1 DEF RisingInv, AckStands
    <2>3. request.command = "write"
      BY <1>3, <1>5 DEF RisingInv, Inv, TypeOK, Requests
    <2>4. lastFrequency'[0] = 0
      BY <1>3, <1>5, <2>3 DEF EchoMatches, Succeed, RisingInv, StartBroadcast
    <2>5. 0 # Unset
      BY FreqsAssumption
    <2> QED BY <1>1, <1>2, <2>1, <2>2, <2>4, <2>5 DEF RisingInv, StartBroadcast
  <1>6. CASE ValidResponse
    <2>1. pc = "reply" /\ pc' = "collect" /\ focus # 0 /\ focus \in Nodes
      BY <1>3, <1>6 DEF ValidResponse, Succeed, Addresses, Nodes
    <2>2. lastFrequency'[0] = lastFrequency[0]
      BY <1>3, <1>6, <2>1, RisingTypes DEF ValidResponse, Succeed, RisingInv
    <2>3. StartBroadcast'
      BY <1>1, <2>1, <2>2 DEF RisingInv, StartBroadcast
    <2>4. CASE request.command # "write"
      BY <1>1, <1>2, <1>6, <2>3, <2>4 DEF ValidResponse, Succeed, RisingInv, AckStands
    <2>5. CASE request.command = "write"
      <3>1. \A n \in Nodes :
              lastFrequency'[n] = IF n = focus THEN setFrequency[focus] ELSE lastFrequency[n]
        BY <1>3, <1>6, <2>5, RisingTypes DEF ValidResponse, Succeed, RisingInv
      <3>2. nodeFreq[focus] = setFrequency[focus]
        BY <1>3, <1>6, <2>1, <2>5, ResponseIsTrue DEF RisingInv
      <3>3. setFrequency[focus] \in Nat
        BY <1>3, RisingTypes DEF RisingInv
      <3>4. AckStands'
        BY <1>1, <3>1, <3>2, <3>3 DEF RisingInv, AckStands
      <3> QED BY <1>2, <2>3, <3>4
    <2> QED BY <2>4, <2>5
  <1> QED BY <1>4, <1>5, <1>6

LEMMA RisingNext == RisingHost /\ RisingInv /\ [Next]_vars => RisingInv'
  <1> SUFFICES ASSUME RisingHost, RisingInv, [Next]_vars PROVE RisingInv'
    OBVIOUS
  <1>1. Inv'
    BY InvNext DEF RisingInv
  <1>2. CommandsRise' /\ StartBroadcast' /\ AckStands'
    BY <1>1, RisingCommand, RisingCollect, RisingSend, RisingOther, RisingSuccess DEF Next, func
  <1> QED BY <1>1, <1>2 DEF RisingInv

\* When the task (func) has nothing left to write, every drive runs at what the
\* host asked for last, for any number of drives and whatever the bus has lost,
\* refused or delayed, as long as the frequencies asked of a drive rise and no
\* broadcast follows the one at the start.
THEOREM SettledMeansObeyed ==
  ASSUME RisingHost
  PROVE  Spec => []SettledNodesObey
  <1>1. RisingInv => SettledNodesObey
    <2> SUFFICES ASSUME RisingInv, Settled, NEW n \in Nodes PROVE nodeFreq[n] = wanted[n]
      BY DEF SettledNodesObey
    <2>1. Inv /\ n \in Addresses /\ setFrequency[n] # Unset
      BY RisingTypes DEF RisingInv
    <2>2. setFrequency[n] = wanted[n]
      BY DEF RisingInv, CommandsRise, Settled
    <2>3. lastFrequency[n] = setFrequency[n]
      BY <2>1 DEF Settled
    <2> QED BY <2>1, <2>2, <2>3 DEF RisingInv, AckStands
  <1>2. Init => RisingInv
    BY RisingInit
  <1>3. RisingInv /\ [Next]_vars => RisingInv'
    BY RisingNext
  <1> QED BY <1>1, <1>2, <1>3, PTL DEF Spec

-----------------------------------------------------------------------------
(* The counts of throughput, on the whole bench (HostBench).  What is       *)
(* invariant: the numbers on the way are in the order of the buffers, each  *)
(* at one place, all behind the last that came back (Ordered, Sorted), and  *)
(* every number below outId is on the way, was missed by the target or was  *)
(* counted (Told).                                                          *)

\* The packets on the port, what is left of one included.
Packets ==
  {Fragment, ParsingError, Heartbeat, Target!NoPacket}
    \union {DummyPacket(n) : n \in Nat}
    \union {VfdSetFrequency(n, f) : n \in Nat, f \in Nat}

IsDummy(p) == p.id = "DummyPacket"

\* The numbers in a packet and in a buffer.
IdsOf(p) == IF IsDummy(p) THEN {p.outId} ELSE {}
Ids(s) == UNION {IdsOf(s[i]) : i \in 1 .. Len(s)}

Before(A, B) == \A a \in A, b \in B : a < b
Sorted(s) == \A i, j \in 1 .. Len(s) : i < j => Before(IdsOf(s[i]), IdsOf(s[j]))

\* The numbers in each packet of the port.
LEMMA PacketsAre ==
  /\ Fragment \in Packets /\ IdsOf(Fragment) = {}
  /\ ParsingError \in Packets /\ IdsOf(ParsingError) = {}
  /\ Heartbeat \in Packets /\ IdsOf(Heartbeat) = {}
  /\ Target!NoPacket \in Packets /\ IdsOf(Target!NoPacket) = {}
  /\ \A n \in Nat : DummyPacket(n) \in Packets /\ IdsOf(DummyPacket(n)) = {n}
  /\ \A n, f \in Nat : /\ VfdSetFrequency(n, f) \in Packets
                       /\ IdsOf(VfdSetFrequency(n, f)) = {}
  <1>1. /\ Fragment \in Packets /\ ParsingError \in Packets
        /\ Heartbeat \in Packets /\ Target!NoPacket \in Packets
    BY DEF Packets
  <1>2. /\ IdsOf(Fragment) = {} /\ IdsOf(ParsingError) = {}
        /\ IdsOf(Heartbeat) = {} /\ IdsOf(Target!NoPacket) = {}
    BY DEF IdsOf, IsDummy, Fragment, ParsingError, Heartbeat,
           Target!NoPacket
  <1>3. ASSUME NEW n \in Nat
        PROVE  DummyPacket(n) \in Packets /\ IdsOf(DummyPacket(n)) = {n}
    <2>1. DummyPacket(n) \in Packets
      BY DEF Packets
    <2>2. IdsOf(DummyPacket(n)) = {n}
      BY DEF IdsOf, IsDummy, DummyPacket
    <2> QED
      BY <2>1, <2>2
  <1>4. ASSUME NEW n \in Nat, NEW f \in Nat
        PROVE  /\ VfdSetFrequency(n, f) \in Packets
               /\ IdsOf(VfdSetFrequency(n, f)) = {}
    <2>1. VfdSetFrequency(n, f) \in Packets
      BY DEF Packets
    <2>2. IdsOf(VfdSetFrequency(n, f)) = {}
      BY DEF IdsOf, IsDummy, VfdSetFrequency
    <2> QED
      BY <2>1, <2>2
  <1> QED
    BY <1>1, <1>2, <1>3, <1>4

\* A packet with a number is the numbered packet.
LEMMA DummyIs ==
  ASSUME NEW p \in Packets
  PROVE  /\ IdsOf(p) \subseteq Nat
         /\ IsDummy(p) => p.outId \in Nat /\ p = DummyPacket(p.outId)
  BY DEF Packets, IdsOf, IsDummy, Fragment, ParsingError, Heartbeat,
         Target!NoPacket, DummyPacket, VfdSetFrequency

\* The numbers of a buffer to which a packet is written.
LEMMA IdsAppend ==
  ASSUME NEW s \in Seq(Packets), NEW p \in Packets
  PROVE  /\ Append(s, p) \in Seq(Packets)
         /\ Ids(Append(s, p)) = Ids(s) \union IdsOf(p)
         /\ Sorted(s) /\ Before(Ids(s), IdsOf(p)) => Sorted(Append(s, p))
  <1> DEFINE more == Append(s, p)
  <1>1. /\ more \in Seq(Packets) /\ Len(more) = Len(s) + 1 /\ Len(s) \in Nat
        /\ \A i \in 1 .. Len(s) : more[i] = s[i]
        /\ more[Len(s) + 1] = p
    BY AppendProperties, LenProperties
  <1> HIDE DEF more
  <1>2. \A i \in 1 .. Len(more) : i \in 1 .. Len(s) \/ i = Len(s) + 1
    BY <1>1
  <1>3. Ids(more) = Ids(s) \union IdsOf(p)
    <2>1. \A i \in 1 .. Len(s) : i \in 1 .. Len(more) /\ IdsOf(more[i]) = IdsOf(s[i])
      BY <1>1
    <2>2. Len(s) + 1 \in 1 .. Len(more) /\ IdsOf(more[Len(s) + 1]) = IdsOf(p)
      BY <1>1
    <2>3. Ids(more) \subseteq Ids(s) \union IdsOf(p)
      BY <1>2, <2>1, <2>2 DEF Ids
    <2>4. Ids(s) \union IdsOf(p) \subseteq Ids(more)
      BY <2>1, <2>2 DEF Ids
    <2> QED
      BY <2>3, <2>4
  <1>4. ASSUME Sorted(s), Before(Ids(s), IdsOf(p)), NEW i \in 1 .. Len(more), NEW j \in 1 .. Len(more),
               i < j
        PROVE  Before(IdsOf(more[i]), IdsOf(more[j]))
    <2>1. i \in 1 .. Len(s) /\ more[i] = s[i]
      BY <1>1, <1>4
    <2>2. CASE j \in 1 .. Len(s)
      BY <1>1, <1>4, <2>1, <2>2 DEF Sorted
    <2>3. CASE j = Len(s) + 1
      <3>1. IdsOf(s[i]) \subseteq Ids(s)
        BY <2>1 DEF Ids
      <3> QED
        BY <1>1, <1>4, <2>1, <2>3, <3>1 DEF Before
    <2> QED
      BY <1>2, <2>2, <2>3
  <1> QED
    BY <1>1, <1>3, <1>4 DEF more, Sorted

\* The numbers of a buffer from which a packet is taken.
LEMMA IdsTail ==
  ASSUME NEW s \in Seq(Packets), s # <<>>, Sorted(s)
  PROVE  /\ Head(s) \in Packets /\ Tail(s) \in Seq(Packets)
         /\ Ids(s) = IdsOf(Head(s)) \union Ids(Tail(s))
         /\ Before(IdsOf(Head(s)), Ids(Tail(s)))
         /\ Sorted(Tail(s))
  <1> DEFINE head == Head(s)
             rest == Tail(s)
  <1>1. /\ head \in Packets /\ rest \in Seq(Packets)
        /\ 1 \in 1 .. Len(s) /\ head = s[1]
        /\ \A i \in 1 .. Len(rest) : i + 1 \in 1 .. Len(s) /\ rest[i] = s[i + 1]
    BY TailElements
  <1>2. Len(s) \in Nat /\ Len(rest) = Len(s) - 1
    BY HeadTailProperties, LenProperties
  <1> HIDE DEF head, rest
  <1>3. ASSUME NEW i \in 1 .. Len(s)
        PROVE  i = 1 \/ (i - 1 \in 1 .. Len(rest) /\ rest[i - 1] = s[i])
    <2>1. i # 1 => i - 1 \in 1 .. Len(rest) /\ (i - 1) + 1 = i
      BY <1>2
    <2> QED
      BY <1>1, <2>1
  <1>4. Ids(s) = IdsOf(head) \union Ids(rest)
    <2>1. Ids(s) \subseteq IdsOf(head) \union Ids(rest)
      BY <1>1, <1>3 DEF Ids
    <2>2. IdsOf(head) \union Ids(rest) \subseteq Ids(s)
      BY <1>1 DEF Ids
    <2> QED
      BY <2>1, <2>2
  <1>5. Before(IdsOf(head), Ids(rest))
    <2> SUFFICES ASSUME NEW i \in 1 .. Len(rest)
                 PROVE  Before(IdsOf(head), IdsOf(rest[i]))
      BY DEF Before, Ids
    <2>1. 1 < i + 1
      BY <1>2
    <2> QED
      BY <1>1, <2>1 DEF Sorted
  <1>6. Sorted(rest)
    <2> SUFFICES ASSUME NEW i \in 1 .. Len(rest), NEW j \in 1 .. Len(rest), i < j
                 PROVE  Before(IdsOf(rest[i]), IdsOf(rest[j]))
      BY DEF Sorted
    <2>1. i + 1 < j + 1
      BY <1>2
    <2> QED
      BY <1>1, <2>1 DEF Sorted
  <1> QED
    BY <1>1, <1>4, <1>5, <1>6 DEF head, rest

\* What the numbers up to n are: W on the way, M missed, and the others, count of
\* them, back; last is the last of those, and behind it none came back.
Told(W, M, n, last, count) ==
  /\ n \in Nat /\ W \subseteq 0 .. n - 1 /\ M \subseteq 0 .. n - 1 /\ W \intersect M = {}
  /\ Cardinality((0 .. n - 1) \ (W \union M)) = count
  /\ \A k \in (0 .. n - 1) \ (W \union M) : k <= last
  /\ count > 0 => /\ last \in (0 .. n - 1) \ (W \union M)
                  /\ \A k \in W : last < k

\* A new number is on the way.
LEMMA ToldWrites ==
  ASSUME NEW W, NEW M, NEW n, NEW last, NEW count, Told(W, M, n, last, count)
  PROVE  Told(W \union {n}, M, n + 1, last, count)
  <1>1. n \in Nat /\ n + 1 \in Nat /\ W \subseteq 0 .. n - 1 /\ M \subseteq 0 .. n - 1
        /\ W \intersect M = {}
    BY DEF Told
  <1>2. (0 .. (n + 1) - 1) = (0 .. n - 1) \union {n} /\ n \notin 0 .. n - 1
    BY <1>1
  <1>3. (0 .. (n + 1) - 1) \ ((W \union {n}) \union M) = (0 .. n - 1) \ (W \union M)
    BY <1>1, <1>2
  <1>4. /\ W \union {n} \subseteq 0 .. (n + 1) - 1 /\ M \subseteq 0 .. (n + 1) - 1
        /\ (W \union {n}) \intersect M = {}
    BY <1>1, <1>2
  <1>5. count > 0 => \A k \in W \union {n} : last < k
    BY <1>1 DEF Told
  <1> QED
    BY <1>1, <1>3, <1>4, <1>5 DEF Told

\* A number on the way is missed.
LEMMA ToldMisses ==
  ASSUME NEW W, NEW M, NEW n, NEW last, NEW count, Told(W, M, n, last, count), NEW h \in W
  PROVE  Told(W \ {h}, M \union {h}, n, last, count)
  <1>1. (W \ {h}) \union (M \union {h}) = W \union M
    OBVIOUS
  <1> QED
    BY <1>1 DEF Told

\* The first number on the way comes back.
LEMMA ToldReturns ==
  ASSUME NEW W, NEW M, NEW n, NEW last, NEW count, Told(W, M, n, last, count), NEW h \in W,
         \A k \in W \ {h} : h < k
  PROVE  Told(W \ {h}, M, n, h, count + 1)
  <1> DEFINE B == (0 .. n - 1) \ (W \union M)
             C == (0 .. n - 1) \ ((W \ {h}) \union M)
  <1>1. /\ n \in Nat /\ W \subseteq 0 .. n - 1 /\ M \subseteq 0 .. n - 1
        /\ W \intersect M = {} /\ Cardinality(B) = count
        /\ \A k \in B : k <= last
        /\ count > 0 => last \in B /\ \A k \in W : last < k
    BY DEF Told
  <1>2. h \in 0 .. n - 1 /\ h \notin M
    BY <1>1
  <1>3. C = B \union {h} /\ h \notin B
    BY <1>2
  <1>4. B \subseteq 0 .. n - 1
    OBVIOUS
  <1>5. IsFiniteSet(B)
    <2>1. 0 \in Int /\ n - 1 \in Int
      BY <1>1
    <2>2. IsFiniteSet(0 .. n - 1)
      BY <2>1, FS_Interval
    <2> QED
      BY <1>4, <2>2, FS_Subset
  <1> HIDE DEF B, C
  <1>6. Cardinality(C) = count + 1 /\ count \in Nat
    BY <1>1, <1>3, <1>5, FS_AddElement, FS_CardinalityType
  <1>7. \A k \in B : k <= h
    <2>1. CASE count = 0
      BY <1>1, <1>5, <2>1, FS_EmptySet
    <2>2. CASE count > 0
      <3>1. last \in B /\ last < h /\ \A k \in B : k <= last
        BY <1>1, <2>2
      <3>2. h \in Int /\ \A k \in B : k \in Int
        BY <1>2, <1>4
      <3> QED
        BY <3>1, <3>2
    <2> QED
      BY <1>6, <2>1, <2>2
  <1>8. h \in C /\ \A k \in C : k <= h
    BY <1>2, <1>3, <1>7
  <1> QED
    BY <1>1, <1>6, <1>8 DEF Told, C


\* The report's numbers are those of the packets missed and on the way.
LEMMA ToldSays ==
  ASSUME NEW W, NEW M, NEW n, NEW last, NEW count, Told(W, M, n, last, count),
         count > 0
  PROVE  /\ last + 1 - count = Cardinality({i \in M : i <= last})
         /\ n - 1 - last = Cardinality(W) + Cardinality({i \in M : i > last})
         /\ IsFiniteSet(W)
  <1> DEFINE B == (0 .. n - 1) \ (W \union M)
             L == {i \in M : i <= last}
             R == {i \in M : i > last}
  <1>1. /\ n \in Nat /\ W \subseteq 0 .. n - 1 /\ M \subseteq 0 .. n - 1
        /\ W \intersect M = {} /\ Cardinality(B) = count
        /\ \A k \in B : k <= last
        /\ last \in B /\ \A k \in W : last < k
    BY DEF Told
  <1>2. last \in Nat /\ last <= n - 1
    BY <1>1
  <1>3. \A S \in SUBSET (0 .. n - 1) : IsFiniteSet(S) /\ Cardinality(S) \in Nat
    <2>1. 0 \in Int /\ n - 1 \in Int
      BY <1>1
    <2>2. IsFiniteSet(0 .. n - 1)
      BY <2>1, FS_Interval
    <2> QED
      BY <2>2, FS_Subset, FS_CardinalityType
  <1>4. B \subseteq 0 .. n - 1 /\ L \subseteq 0 .. n - 1 /\ R \subseteq 0 .. n - 1
    BY <1>1
  <1>5. 0 .. last = B \union L /\ B \intersect L = {}
    <2>1. ASSUME NEW k \in 0 .. last
          PROVE  k \in B \/ k \in L
      <3>1. k \in 0 .. n - 1 /\ k <= last /\ ~(last < k)
        BY <1>1, <1>2
      <3> QED
        BY <1>1, <3>1
    <2>2. \A k \in B : k \in 0 .. last
      BY <1>1, <1>2, <1>4
    <2>3. \A k \in L : k \in 0 .. last
      BY <1>1, <1>2, <1>4
    <2> QED
      BY <2>1, <2>2, <2>3
  <1>6. last + 1 .. n - 1 = W \union R /\ W \intersect R = {}
    <2>1. ASSUME NEW k \in last + 1 .. n - 1
          PROVE  k \in W \/ k \in R
      <3>1. k \in 0 .. n - 1 /\ k > last /\ ~(k <= last)
        BY <1>1, <1>2
      <3> QED
        BY <1>1, <3>1
    <2>2. \A k \in W : k \in last + 1 .. n - 1
      BY <1>1, <1>2
    <2>3. \A k \in R : k \in last + 1 .. n - 1
      BY <1>1, <1>2, <1>4
    <2> QED
      BY <1>1, <2>1, <2>2, <2>3
  <1>7. Cardinality(0 .. last) = last + 1
    <2>1. 0 \in Int /\ last \in Int /\ ~(0 > last) /\ last - 0 + 1 = last + 1
      BY <1>2
    <2> QED
      BY <2>1, FS_Interval
  <1>8. Cardinality(last + 1 .. n - 1) = n - 1 - last
    <2>1. /\ last + 1 \in Int /\ n - 1 \in Int
          /\ last + 1 > n - 1 => n - 1 - last = 0
          /\ (n - 1) - (last + 1) + 1 = n - 1 - last
      BY <1>1, <1>2
    <2> QED
      BY <2>1, FS_Interval
  <1>9. IsFiniteSet(W)
    BY <1>1, <1>3
  <1> HIDE DEF B, L, R
  <1>10. last + 1 = Cardinality(B) + Cardinality(L)
    <2>1. Cardinality(B \union L) = Cardinality(B) + Cardinality(L) - Cardinality(B \intersect L)
      BY <1>3, <1>4, FS_Union
    <2>2. Cardinality(B) \in Nat /\ Cardinality(L) \in Nat /\ Cardinality({}) = 0
      BY <1>3, <1>4, FS_EmptySet
    <2>3. Cardinality(B \union L) = last + 1 /\ Cardinality(B \intersect L) = 0
      BY <1>5, <1>7, <2>2
    <2> QED
      BY <2>1, <2>2, <2>3
  <1>11. n - 1 - last = Cardinality(W) + Cardinality(R)
    <2>1. Cardinality(W \union R) = Cardinality(W) + Cardinality(R) - Cardinality(W \intersect R)
      BY <1>1, <1>3, <1>4, FS_Union
    <2>2. Cardinality(W) \in Nat /\ Cardinality(R) \in Nat /\ Cardinality({}) = 0
      BY <1>1, <1>3, <1>4, FS_EmptySet
    <2>3. Cardinality(W \union R) = n - 1 - last /\ Cardinality(W \intersect R) = 0
      BY <1>6, <1>8, <2>2
    <2> QED
      BY <2>1, <2>2, <2>3
  <1>12. last + 1 - count = Cardinality(L)
    <2>1. Cardinality(B) \in Nat /\ Cardinality(L) \in Nat
      BY <1>3, <1>4
    <2> QED
      <3>1. last \in Nat /\ Cardinality(B) = count
        BY <1>1, <1>2 DEF B
      <3> QED
        BY <1>10, <2>1, <3>1
  <1> QED
    BY <1>9, <1>11, <1>12 DEF L, R

\* Where the packets are.  No number is twice on the way, and they are in order.
Buffers ==
  /\ incoming \in Seq(Packets) /\ packet \in Packets
  /\ rxMsgBuf \in Seq(Packets) /\ tty \in Seq(Packets)
  /\ Sorted(incoming) /\ Sorted(rxMsgBuf) /\ Sorted(tty)

Ordered(I, P, R, T) ==
  /\ Before(I, P) /\ Before(I, R) /\ Before(I, T)
  /\ Before(P, R) /\ Before(P, T)
  /\ Before(R, T)

Way(I, P, R, T) == I \union P \union R \union T

\* The commander's packets have a drive and a frequency.
Keys ==
  /\ selectedVfd \in 0 .. numVfds - 1
  /\ freqPkts \in [0 .. numVfds - 1 -> Nat]

Counted(I, P, R, T) ==
  /\ Ordered(I, P, R, T)
  /\ Told(Way(I, P, R, T), missed, outId, lastInId, inPktCount)

Numbered ==
  /\ Buffers
  /\ Counted(Ids(incoming), IdsOf(packet), Ids(rxMsgBuf), Ids(tty))
  /\ outPktCount = outId /\ outId \in Nat
  /\ app = "commander" => outId = 0

\* What is written to a buffer comes behind what is in it, whole or cut off.
LEMMA Written ==
  ASSUME NEW s, NEW c, NEW p
  PROVE  /\ User!WithWhatFits(s, c, p) \in {Append(s, p), Append(s, Fragment), s}
         /\ Load!WithWhatFits(s, c, p) \in {Append(s, p), Append(s, Fragment), s}
         /\ Target!WithWhatFits(s, c, p) =
              IF Fits(s, c, p) THEN Append(s, p)
              ELSE IF Space(s, c) > 0 THEN Append(s, Fragment) ELSE s
  <1>1. Target!Pieces(s) = Pieces(s)
    BY DEF Target!Pieces, Pieces, Target!Fragment, Fragment
  <1>2. Target!Space(s, c) = Space(s, c)
    BY <1>1 DEF Target!Space, Space, Target!Cardinality, Cardinality
  <1>3. Target!Fits(s, c, p) = Fits(s, c, p)
    BY <1>2 DEF Target!Fits, Fits, Target!Fragment, Fragment
  <1>4. User!Fragment = Fragment /\ Load!Fragment = Fragment
        /\ Target!Fragment = Fragment
    BY DEF User!Fragment, Load!Fragment, Target!Fragment, Fragment
  <1>5. User!WithWhatFits(s, c, p) \in {Append(s, p), Append(s, Fragment), s}
    BY <1>4 DEF User!WithWhatFits
  <1>6. Load!WithWhatFits(s, c, p) \in {Append(s, p), Append(s, Fragment), s}
    BY <1>4 DEF Load!WithWhatFits
  <1> QED
    BY <1>2, <1>3, <1>4, <1>5, <1>6 DEF Target!WithWhatFits

\* At the start there are no numbers.
LEMMA NumberedInit == BenchInit => Numbered
  <1> SUFFICES ASSUME BenchInit PROVE Numbered
    OBVIOUS
  <1>1. /\ incoming = <<>> /\ rxMsgBuf = <<>> /\ tty = <<>>
        /\ packet = Target!NoPacket
        /\ outId = 0 /\ outPktCount = 0 /\ inPktCount = 0 /\ missed = {}
    BY DEF BenchInit, Load!Init, Load!setupSerial, Target!Init
  <1>2. <<>> \in Seq(Packets) /\ Ids(<<>>) = {} /\ Sorted(<<>>)
    <2>1. <<>> \in Seq(Packets) /\ Len(<<>>) = 0
      BY EmptySeq
    <2> QED
      BY <2>1 DEF Ids, Sorted
  <1>3. Target!NoPacket \in Packets /\ IdsOf(Target!NoPacket) = {}
    BY PacketsAre
  <1>4. Counted({}, {}, {}, {})
    <2>1. Ordered({}, {}, {}, {})
      BY DEF Ordered, Before
    <2>2. 0 .. 0 - 1 = {}
      OBVIOUS
    <2>3. Told({}, {}, 0, lastInId, 0)
      BY <2>2, FS_EmptySet DEF Told
    <2>4. Way({}, {}, {}, {}) = {}
      BY DEF Way
    <2> QED
      BY <1>1, <2>1, <2>3, <2>4 DEF Counted
  <1>5. Counted(Ids(incoming), IdsOf(packet), Ids(rxMsgBuf), Ids(tty))
    BY <1>1, <1>2, <1>3, <1>4
  <1>6. Buffers
    BY <1>1, <1>2, <1>3 DEF Buffers
  <1> QED
    BY <1>1, <1>5, <1>6 DEF Numbered

\* A packet without a number, or a piece, is written by the host.
LEMMA Unnumbered ==
  ASSUME Numbered, NEW p \in Packets, IdsOf(p) = {},
         tty' \in {Append(tty, p), Append(tty, Fragment), tty},
         UNCHANGED <<app, incoming, packet, rxMsgBuf, outId, outPktCount, lastInId,
                     inPktCount, missed>>
  PROVE  Numbered'
  <1>1. tty \in Seq(Packets) /\ Sorted(tty)
    BY DEF Numbered, Buffers
  <1>2. ASSUME NEW q \in Packets, IdsOf(q) = {}
        PROVE  /\ Append(tty, q) \in Seq(Packets) /\ Sorted(Append(tty, q))
               /\ Ids(Append(tty, q)) = Ids(tty)
    <2>1. Before(Ids(tty), IdsOf(q))
      BY <1>2 DEF Before
    <2> QED
      BY <1>1, <1>2, <2>1, IdsAppend
  <1>3. tty' \in Seq(Packets) /\ Sorted(tty') /\ Ids(tty') = Ids(tty)
    <2>1. Fragment \in Packets /\ IdsOf(Fragment) = {}
      BY PacketsAre
    <2>2. CASE tty' = tty
      BY <1>1, <2>2
    <2>3. CASE tty' = Append(tty, p)
      BY <1>2, <2>3
    <2>4. CASE tty' = Append(tty, Fragment)
      BY <1>2, <2>1, <2>4
    <2> QED
      BY <2>2, <2>3, <2>4
  <1>4. Buffers'
    BY <1>3 DEF Numbered, Buffers, Sorted
  <1>5. Counted(Ids(incoming), IdsOf(packet), Ids(rxMsgBuf), Ids(tty))'
    BY <1>3 DEF Numbered, Counted
  <1> QED
    BY <1>4, <1>5 DEF Numbered


\* A number that was not used yet comes behind all others.
LEMMA NewNumber ==
  ASSUME NEW I, NEW P, NEW R, NEW T, NEW M, NEW n, NEW last, NEW count,
         Ordered(I, P, R, T), Told(Way(I, P, R, T), M, n, last, count)
  PROVE  /\ Before(T, {n}) /\ Ordered(I, P, R, T \union {n})
         /\ Told(Way(I, P, R, T \union {n}), M, n + 1, last, count)
  <1>1. \A k \in I \union P \union R \union T : k < n
    BY DEF Told, Way
  <1>2. Before(I, {n}) /\ Before(P, {n}) /\ Before(R, {n}) /\ Before(T, {n})
    BY <1>1 DEF Before
  <1>3. Ordered(I, P, R, T \union {n})
    BY <1>2 DEF Ordered, Before
  <1>4. Way(I, P, R, T \union {n}) = Way(I, P, R, T) \union {n}
    BY DEF Way
  <1>5. Told(Way(I, P, R, T) \union {n}, M, n + 1, last, count)
    BY ToldWrites
  <1> QED
    BY <1>2, <1>3, <1>4, <1>5

\* The first of a buffer goes to the end of the next, or is lost.
LEMMA MovesOn ==
  ASSUME NEW I, NEW P, NEW R, NEW H, NEW U, Ordered(I, P, R, H \union U), Before(H, U)
  PROVE  /\ Before(R, H) /\ Ordered(I, P, R \union H, U) /\ Ordered(I, P, R, U)
         /\ Way(I, P, R \union H, U) = Way(I, P, R, H \union U)
  BY DEF Ordered, Before, Way

\* The first of the receive buffer is read.
LEMMA IsRead ==
  ASSUME NEW I, NEW T, NEW H, NEW U, Ordered(I, {}, H \union U, T), Before(H, U)
  PROVE  Ordered(I, H, U, T) /\ Way(I, H, U, T) = Way(I, {}, H \union U, T)
  BY DEF Ordered, Before, Way

\* What was read is put out.
LEMMA IsPutOut ==
  ASSUME NEW I, NEW P, NEW R, NEW T, Ordered(I, P, R, T)
  PROVE  /\ Before(I, P) /\ Ordered(I \union P, {}, R, T)
         /\ Way(I \union P, {}, R, T) = Way(I, P, R, T)
  BY DEF Ordered, Before, Way

\* A number is at one place only.
LEMMA LostBehind ==
  ASSUME NEW I, NEW P, NEW R, NEW h, NEW U, NEW M, NEW n, NEW last, NEW count,
         Ordered(I, P, R, {h} \union U), Before({h}, U),
         Told(Way(I, P, R, {h} \union U), M, n, last, count)
  PROVE  Told(Way(I, P, R, U), M \union {h}, n, last, count)
  <1> DEFINE W == Way(I, P, R, {h} \union U)
  <1>1. h \in Int /\ h \in W
    BY DEF Told, Way
  <1>2. h \notin U /\ h \notin I /\ h \notin P /\ h \notin R
    BY <1>1 DEF Ordered, Before
  <1>3. Way(I, P, R, U) = W \ {h}
    BY <1>2 DEF Way
  <1>4. Told(W, M, n, last, count)
    OBVIOUS
  <1> HIDE DEF W
  <1>5. Told(W \ {h}, M \union {h}, n, last, count)
    BY <1>1, <1>4, ToldMisses
  <1> QED
    BY <1>3, <1>5

\* The first of what comes back is behind all that did.
LEMMA BackInFront ==
  ASSUME NEW P, NEW R, NEW T, NEW h, NEW U, NEW M, NEW n, NEW last, NEW count,
         Ordered({h} \union U, P, R, T), Before({h}, U),
         Told(Way({h} \union U, P, R, T), M, n, last, count)
  PROVE  Ordered(U, P, R, T) /\ Told(Way(U, P, R, T), M, n, h, count + 1)
  <1> DEFINE W == Way({h} \union U, P, R, T)
  <1>1. h \in Int /\ h \in W
    BY DEF Told, Way
  <1>2. h \notin U /\ h \notin T /\ h \notin P /\ h \notin R
    BY <1>1 DEF Ordered, Before
  <1>3. \A k \in U \union P \union R \union T : h < k
    BY DEF Ordered, Before
  <1>4. Ordered(U, P, R, T)
    BY DEF Ordered, Before
  <1>5. Way(U, P, R, T) = W \ {h} /\ \A k \in W \ {h} : h < k
    BY <1>2, <1>3 DEF Way
  <1>6. Told(W, M, n, last, count)
    OBVIOUS
  <1> HIDE DEF W
  <1>7. Told(W \ {h}, M, n, h, count + 1)
    BY <1>1, <1>5, <1>6, ToldReturns
  <1> QED
    BY <1>4, <1>5, <1>7

\* WritePacket: a new number comes behind all others.
LEMMA NumberWritten ==
  ASSUME Numbered, app # "commander", Load!WritePacket,
         UNCHANGED <<app, packet, rxMsgBuf, missed>>
  PROVE  Numbered'
  <1> DEFINE I == Ids(incoming)
             P == IdsOf(packet)
             R == Ids(rxMsgBuf)
             T == Ids(tty)
             p == DummyPacket(outId)
  <1>1. /\ Buffers /\ outId \in Nat /\ outPktCount = outId
        /\ Ordered(I, P, R, T) /\ Told(Way(I, P, R, T), missed, outId, lastInId, inPktCount)
    BY DEF Numbered, Counted
  <1>2. /\ tty' = Append(tty, p) /\ outId' = outId + 1 /\ outPktCount' = outPktCount + 1
        /\ UNCHANGED <<incoming, lastInId, inPktCount>>
    BY DEF Load!WritePacket, Load!DummyPacket, DummyPacket
  <1>3. p \in Packets /\ IdsOf(p) = {outId}
    BY <1>1, PacketsAre
  <1> HIDE DEF p
  <1>5. tty \in Seq(Packets) /\ Sorted(tty)
    BY <1>1 DEF Buffers
  <1>6. /\ Before(T, {outId}) /\ Ordered(I, P, R, T \union {outId})
        /\ Told(Way(I, P, R, T \union {outId}), missed, outId + 1, lastInId, inPktCount)
    <2>1. /\ Ordered(I, P, R, T) /\ Told(Way(I, P, R, T), missed, outId, lastInId, inPktCount)
      BY <1>1
    <2> HIDE DEF I, P, R, T
    <2> QED
      BY <2>1, NewNumber
  <1>7. tty' \in Seq(Packets) /\ Ids(tty') = T \union {outId} /\ Sorted(tty')
    BY <1>2, <1>3, <1>5, <1>6, IdsAppend
  <1>9. Buffers'
    BY <1>1, <1>2, <1>7 DEF Buffers, Sorted
  <1>10. Counted(I, P, R, T)'
    <2>1. I' = I /\ P' = P /\ R' = R /\ T' = T \union {outId} /\ missed' = missed
      BY <1>2, <1>7
    <2> HIDE DEF I, P, R, T
    <2>2. /\ Ordered(I', P', R', T')
          /\ Told(Way(I', P', R', T'), missed', outId', lastInId', inPktCount')
      BY <1>2, <1>6, <2>1
    <2> QED
      BY <2>2 DEF Counted
  <1> QED
    BY <1>1, <1>2, <1>9, <1>10 DEF Numbered

\* Receive: whole, cut off or dropped.
LEMMA NumberReceived == Numbered /\ Receive => Numbered'
  <1> SUFFICES ASSUME Numbered, Receive PROVE Numbered'
    OBVIOUS
  <1> DEFINE I == Ids(incoming)
             P == IdsOf(packet)
             R == Ids(rxMsgBuf)
             T == Ids(tty)
             p == Head(tty)
             U == Ids(Tail(tty))
             whole == Fits(rxMsgBuf, RxSize, p)
  <1>1. /\ Buffers /\ outId \in Nat
        /\ Ordered(I, P, R, T) /\ Told(Way(I, P, R, T), missed, outId, lastInId, inPktCount)
    BY DEF Numbered, Counted
  <1>2. /\ tty # <<>> /\ tty' = Tail(tty)
        /\ rxMsgBuf' = Target!WithWhatFits(rxMsgBuf, RxSize, p)
        /\ missed' = IF ~whole /\ p.id = "DummyPacket" THEN missed \union {p.outId} ELSE missed
        /\ UNCHANGED <<app, incoming, packet, outId, outPktCount, lastInId, inPktCount>>
    BY DEF Receive, Target!receiveCb, appVars, throughputVars
  <1>3. /\ p \in Packets /\ tty' \in Seq(Packets) /\ Sorted(tty')
        /\ T = IdsOf(p) \union U /\ Before(IdsOf(p), U) /\ Ids(tty') = U
    BY <1>1, <1>2, IdsTail DEF Buffers
  <1>5. I' = I /\ P' = P /\ T' = U
    BY <1>2, <1>3
  <1>6. rxMsgBuf' = IF whole THEN Append(rxMsgBuf, p)
                    ELSE IF Space(rxMsgBuf, RxSize) > 0 THEN Append(rxMsgBuf, Fragment)
                    ELSE rxMsgBuf
    BY <1>2, Written
  <1>7. rxMsgBuf \in Seq(Packets) /\ Sorted(rxMsgBuf)
    BY <1>1 DEF Buffers
  <1> HIDE DEF p, U, whole
  <1>8. CASE whole
    <2>1. /\ Before(R, IdsOf(p)) /\ Ordered(I, P, R \union IdsOf(p), U)
          /\ Way(I, P, R \union IdsOf(p), U) = Way(I, P, R, T)
      <3>1. Ordered(I, P, R, IdsOf(p) \union U) /\ Before(IdsOf(p), U)
            /\ T = IdsOf(p) \union U
        BY <1>1, <1>3
      <3> HIDE DEF I, P, R, T
      <3> QED
        BY <3>1, MovesOn
    <2>2. rxMsgBuf' \in Seq(Packets) /\ Sorted(rxMsgBuf') /\ R' = R \union IdsOf(p)
      BY <1>3, <1>6, <1>7, <1>8, <2>1, IdsAppend
    <2>3. missed' = missed
      BY <1>2, <1>8
    <2>4. Buffers'
      BY <1>1, <1>2, <1>3, <2>2 DEF Buffers, Sorted
    <2> HIDE DEF I, P, R, T
    <2>5. /\ Ordered(I', P', R', T')
          /\ Told(Way(I', P', R', T'), missed', outId', lastInId', inPktCount')
      BY <1>1, <1>2, <1>5, <2>1, <2>2, <2>3
    <2> QED
      BY <1>2, <2>4, <2>5 DEF Numbered, Counted, I, P, R, T
  <1>9. CASE ~whole
    <2>1. rxMsgBuf' \in Seq(Packets) /\ Sorted(rxMsgBuf') /\ R' = R
      <3>1. CASE rxMsgBuf' = rxMsgBuf
        BY <1>7, <3>1
      <3>2. CASE rxMsgBuf' = Append(rxMsgBuf, Fragment)
        <4>1. Fragment \in Packets /\ IdsOf(Fragment) = {}
          BY PacketsAre
        <4>2. Before(R, IdsOf(Fragment))
          BY <4>1 DEF Before
        <4> QED
          BY <1>7, <3>2, <4>1, <4>2, IdsAppend
      <3> QED
        BY <1>6, <1>9, <3>1, <3>2
    <2>2. Ordered(I, P, R, U)
      <3>1. Ordered(I, P, R, IdsOf(p) \union U) /\ Before(IdsOf(p), U)
        BY <1>1, <1>3
      <3> HIDE DEF I, P, R, T
      <3> QED
        BY <3>1, MovesOn
    <2>3. Buffers'
      BY <1>1, <1>2, <1>3, <2>1 DEF Buffers, Sorted
    <2>4. Told(Way(I, P, R, U), missed', outId, lastInId, inPktCount)
      <3>1. CASE IsDummy(p)
        <4> DEFINE h == p.outId
        <4>1. IdsOf(p) = {h} /\ missed' = missed \union {h}
          BY <1>2, <1>9, <3>1 DEF IdsOf, IsDummy
        <4> HIDE DEF h
        <4>2. Told(Way(I, P, R, U), missed \union {h}, outId, lastInId, inPktCount)
          <5>1. /\ Ordered(I, P, R, {h} \union U) /\ Before({h}, U)
                /\ Told(Way(I, P, R, {h} \union U), missed, outId, lastInId, inPktCount)
            BY <1>1, <1>3, <4>1
          <5> HIDE DEF I, P, R, T
          <5> QED
            BY <5>1, LostBehind
        <4> HIDE DEF I, P, R, T
        <4> QED
          BY <4>1, <4>2
      <3>2. CASE ~IsDummy(p)
        <4>1. IdsOf(p) = {} /\ missed' = missed
          BY <1>2, <3>2 DEF IdsOf, IsDummy
        <4>2. U = T
          BY <1>3, <4>1
        <4> QED
          BY <1>1, <4>1, <4>2
      <3> QED
        BY <3>1, <3>2
    <2> HIDE DEF I, P, R, T
    <2>5. /\ Ordered(I', P', R', T')
          /\ Told(Way(I', P', R', T'), missed', outId', lastInId', inPktCount')
      BY <1>2, <1>5, <2>1, <2>2, <2>4
    <2> QED
      BY <1>2, <2>3, <2>5 DEF Numbered, Counted, I, P, R, T
  <1> QED
    BY <1>8, <1>9


\* Read: the parser takes the first packet, or reports a piece in its place.
LEMMA Taken ==
  ASSUME NEW p \in Packets
  PROVE  /\ Target!extractPackets(p) \in Packets
         /\ IdsOf(Target!extractPackets(p)) = IdsOf(p)
  <1>1. Target!Fragment = Fragment /\ Target!ParsingError = ParsingError
    BY DEF Target!Fragment, Fragment, Target!ParsingError, ParsingError
  <1>2. Target!extractPackets(p) = IF p = Fragment THEN ParsingError ELSE p
    BY <1>1 DEF Target!extractPackets
  <1>3. CASE p = Fragment
    BY <1>2, <1>3, PacketsAre
  <1>4. CASE p # Fragment
    BY <1>2, <1>4
  <1> QED
    BY <1>3, <1>4

\* Read: the first of the receive buffer is at hand.
LEMMA NumberRead ==
  ASSUME Numbered, Target!Read,
         UNCHANGED <<app, outId, outPktCount, lastInId, inPktCount, missed>>
  PROVE  Numbered'
  <1> DEFINE I == Ids(incoming)
             P == IdsOf(packet)
             R == Ids(rxMsgBuf)
             T == Ids(tty)
             p == Head(rxMsgBuf)
             U == Ids(Tail(rxMsgBuf))
  <1>1. /\ Buffers /\ outId \in Nat
        /\ Ordered(I, P, R, T) /\ Told(Way(I, P, R, T), missed, outId, lastInId, inPktCount)
    BY DEF Numbered, Counted
  <1>2. /\ rxMsgBuf # <<>> /\ rxMsgBuf' = Tail(rxMsgBuf) /\ packet = Target!NoPacket
        /\ packet' = Target!extractPackets(p) /\ UNCHANGED <<tty, incoming>>
    BY DEF Target!Read
  <1>3. /\ p \in Packets /\ rxMsgBuf' \in Seq(Packets) /\ Sorted(rxMsgBuf')
        /\ R = IdsOf(p) \union U /\ Before(IdsOf(p), U) /\ Ids(rxMsgBuf') = U
    BY <1>1, <1>2, IdsTail DEF Buffers
  <1> HIDE DEF p, U
  <1>4. packet' \in Packets /\ IdsOf(packet') = IdsOf(p)
    BY <1>2, <1>3, Taken
  <1>5. P = {}
    BY <1>2, PacketsAre
  <1>6. I' = I /\ P' = IdsOf(p) /\ R' = U /\ T' = T
    BY <1>2, <1>3, <1>4
  <1>7. Buffers'
    BY <1>1, <1>2, <1>3, <1>4 DEF Buffers, Sorted
  <1>8. /\ Ordered(I, {}, IdsOf(p) \union U, T)
        /\ Told(Way(I, {}, IdsOf(p) \union U, T), missed, outId, lastInId, inPktCount)
    BY <1>1, <1>3, <1>5
  <1> HIDE DEF I, P, R, T
  <1>9. /\ Ordered(I, IdsOf(p), U, T)
        /\ Way(I, IdsOf(p), U, T) = Way(I, {}, IdsOf(p) \union U, T)
    BY <1>3, <1>8, IsRead
  <1>10. /\ Ordered(I', P', R', T')
         /\ Told(Way(I', P', R', T'), missed', outId', lastInId', inPktCount')
    BY <1>6, <1>8, <1>9
  <1> QED
    BY <1>7, <1>10 DEF Numbered, Counted, I, P, R, T

\* ToOutput: behind the numbers that are on the way back already.
LEMMA NumberPutOut ==
  ASSUME Numbered, Target!ToOutput,
         UNCHANGED <<app, outId, outPktCount, lastInId, inPktCount, missed>>
  PROVE  Numbered'
  <1> DEFINE I == Ids(incoming)
             P == IdsOf(packet)
             R == Ids(rxMsgBuf)
             T == Ids(tty)
  <1>1. /\ Buffers /\ outId \in Nat
        /\ Ordered(I, P, R, T) /\ Told(Way(I, P, R, T), missed, outId, lastInId, inPktCount)
    BY DEF Numbered, Counted
  <1>2. /\ incoming' = Append(incoming, packet) /\ packet' = Target!NoPacket
        /\ UNCHANGED <<tty, rxMsgBuf>>
    BY DEF Target!ToOutput
  <1>3. /\ Before(I, P) /\ Ordered(I \union P, {}, R, T)
        /\ Way(I \union P, {}, R, T) = Way(I, P, R, T)
    <2>1. Ordered(I, P, R, T)
      BY <1>1
    <2> HIDE DEF I, P, R, T
    <2> QED
      BY <2>1, IsPutOut
  <1>4. incoming \in Seq(Packets) /\ packet \in Packets /\ Sorted(incoming)
    BY <1>1 DEF Buffers
  <1>5. incoming' \in Seq(Packets) /\ I' = I \union P /\ Sorted(incoming')
    BY <1>2, <1>3, <1>4, IdsAppend
  <1>6. packet' \in Packets /\ P' = {} /\ R' = R /\ T' = T
    BY <1>2, PacketsAre
  <1>7. Buffers'
    BY <1>1, <1>2, <1>5, <1>6 DEF Buffers, Sorted
  <1> HIDE DEF I, P, R, T
  <1>8. /\ Ordered(I', P', R', T')
        /\ Told(Way(I', P', R', T'), missed', outId', lastInId', inPktCount')
    BY <1>1, <1>3, <1>5, <1>6
  <1> QED
    BY <1>7, <1>8 DEF Numbered, Counted, I, P, R, T

\* ToVfdTask: a command has no number.
LEMMA NumberCommands ==
  ASSUME Numbered, Target!ToVfdTask,
         UNCHANGED <<app, outId, outPktCount, lastInId, inPktCount, missed>>
  PROVE  Numbered'
  <1>1. /\ packet.id = "VfdSetFrequency" /\ packet' = Target!NoPacket
        /\ UNCHANGED <<tty, rxMsgBuf, incoming>>
    BY DEF Target!ToVfdTask
  <1>2. IdsOf(packet) = {}
    BY <1>1 DEF IdsOf, IsDummy
  <1>3. packet' \in Packets /\ IdsOf(packet') = IdsOf(packet)
    BY <1>1, <1>2, PacketsAre
  <1>4. Buffers'
    BY <1>1, <1>3 DEF Numbered, Buffers, Sorted
  <1>5. Counted(Ids(incoming), IdsOf(packet), Ids(rxMsgBuf), Ids(tty))'
    BY <1>1, <1>3 DEF Numbered, Counted
  <1> QED
    BY <1>4, <1>5 DEF Numbered

\* processPacket of throughput: what comes back is the first that is on the way.
LEMMA NumberBack ==
  ASSUME Numbered, Load!processPacket,
         UNCHANGED <<app, packet, rxMsgBuf, missed>>
  PROVE  Numbered'
  <1> DEFINE I == Ids(incoming)
             P == IdsOf(packet)
             R == Ids(rxMsgBuf)
             T == Ids(tty)
             p == Head(incoming)
             U == Ids(Tail(incoming))
  <1>1. /\ Buffers /\ outId \in Nat /\ outPktCount = outId
        /\ Ordered(I, P, R, T) /\ Told(Way(I, P, R, T), missed, outId, lastInId, inPktCount)
    BY DEF Numbered, Counted
  <1>2. /\ incoming # <<>> /\ incoming' = Tail(incoming)
        /\ IsDummy(p) => inPktCount' = inPktCount + 1 /\ lastInId' = p.outId
        /\ ~IsDummy(p) => inPktCount' = inPktCount /\ lastInId' = lastInId
        /\ UNCHANGED <<tty, outId, outPktCount>>
    BY DEF Load!processPacket, IsDummy
  <1>3. /\ incoming' \in Seq(Packets) /\ Sorted(incoming')
        /\ I = IdsOf(p) \union U /\ Before(IdsOf(p), U) /\ Ids(incoming') = U
    BY <1>1, <1>2, IdsTail DEF Buffers
  <1>4. I' = U /\ P' = P /\ R' = R /\ T' = T /\ missed' = missed /\ outId' = outId
    BY <1>2, <1>3
  <1>5. Buffers'
    BY <1>1, <1>2, <1>3 DEF Buffers, Sorted
  <1> HIDE DEF p, U
  <1>6. /\ Ordered(U, P, R, T)
        /\ Told(Way(U, P, R, T), missed, outId, lastInId', inPktCount')
    <2>1. CASE IsDummy(p)
      <3> DEFINE h == p.outId
      <3>1. IdsOf(p) = {h} /\ lastInId' = h /\ inPktCount' = inPktCount + 1
        BY <1>2, <2>1 DEF IdsOf
      <3> HIDE DEF h
      <3>2. /\ Ordered({h} \union U, P, R, T) /\ Before({h}, U)
            /\ Told(Way({h} \union U, P, R, T), missed, outId, lastInId, inPktCount)
        BY <1>1, <1>3, <3>1
      <3> HIDE DEF I, P, R, T
      <3>3. Ordered(U, P, R, T) /\ Told(Way(U, P, R, T), missed, outId, h, inPktCount + 1)
        BY <3>2, BackInFront
      <3> QED
        BY <3>1, <3>3
    <2>2. CASE ~IsDummy(p)
      <3>1. IdsOf(p) = {} /\ lastInId' = lastInId /\ inPktCount' = inPktCount
        BY <1>2, <2>2 DEF IdsOf
      <3>2. U = I
        BY <1>3, <3>1
      <3> HIDE DEF I, P, R, T
      <3> QED
        BY <1>1, <3>1, <3>2
    <2> QED
      BY <2>1, <2>2
  <1> HIDE DEF I, P, R, T
  <1>7. /\ Ordered(I', P', R', T')
        /\ Told(Way(I', P', R', T'), missed', outId', lastInId', inPktCount')
    BY <1>4, <1>6
  <1> QED
    BY <1>1, <1>2, <1>5, <1>7 DEF Numbered, Counted, I, P, R, T

\* processPacket of the commander: it sent no numbers.
LEMMA NothingBack ==
  ASSUME Numbered, app = "commander", User!processPacket,
         UNCHANGED <<app, packet, rxMsgBuf, missed, outId, outPktCount, lastInId, inPktCount>>
  PROVE  Numbered'
  <1> DEFINE I == Ids(incoming)
             P == IdsOf(packet)
             R == Ids(rxMsgBuf)
             T == Ids(tty)
             p == Head(incoming)
             U == Ids(Tail(incoming))
  <1>1. /\ Buffers /\ outId = 0 /\ outPktCount = outId
        /\ Ordered(I, P, R, T) /\ Told(Way(I, P, R, T), missed, outId, lastInId, inPktCount)
    BY DEF Numbered, Counted
  <1>2. /\ incoming # <<>> /\ incoming' = Tail(incoming) /\ tty' = tty
    BY DEF User!processPacket
  <1>3. /\ incoming' \in Seq(Packets) /\ Sorted(incoming')
        /\ I = IdsOf(p) \union U /\ Before(IdsOf(p), U) /\ Ids(incoming') = U
    BY <1>1, <1>2, IdsTail DEF Buffers
  <1>4. I = {}
    BY <1>1 DEF Told, Way
  <1>5. I' = I /\ P' = P /\ R' = R /\ T' = T
    BY <1>2, <1>3, <1>4
  <1>6. Buffers'
    BY <1>1, <1>2, <1>3 DEF Buffers, Sorted
  <1> HIDE DEF I, P, R, T
  <1>7. /\ Ordered(I', P', R', T')
        /\ Told(Way(I', P', R', T'), missed', outId', lastInId', inPktCount')
    BY <1>1, <1>5
  <1> QED
    BY <1>1, <1>6, <1>7 DEF Numbered, Counted, I, P, R, T


\* The packets of the host are those of the port.
LEMMA HostPackets ==
  /\ User!Heartbeat = Heartbeat
  /\ \A n, f : User!VfdSetFrequency(n, f) = VfdSetFrequency(n, f)
  /\ Load!Fragment = Fragment
  BY DEF User!Heartbeat, Heartbeat, User!VfdSetFrequency,
         VfdSetFrequency, Load!Fragment, Fragment

\* What the commander writes has no number.
LEMMA CommanderWrites ==
  ASSUME Numbered, NEW p \in Packets, IdsOf(p) = {},
         tty' = User!WithWhatFits(tty, TtySize, p),
         UNCHANGED <<app, incoming, packet, rxMsgBuf, outId, outPktCount, lastInId,
                     inPktCount, missed>>
  PROVE  Numbered'
  <1>1. tty' \in {Append(tty, p), Append(tty, Fragment), tty}
    BY Written
  <1> QED
    BY <1>1, Unnumbered

\* A command of the commander.
LEMMA FrequencyWritten ==
  ASSUME Numbered, NEW n \in Nat, NEW f \in Nat,
         User!writeToMonitorAndSerialOut(User!VfdSetFrequency(n, f)),
         UNCHANGED <<app, incoming, packet, rxMsgBuf, outId, outPktCount, lastInId,
                     inPktCount, missed>>
  PROVE  Numbered'
  <1> DEFINE p == VfdSetFrequency(n, f)
  <1>1. p \in Packets /\ IdsOf(p) = {}
    BY PacketsAre
  <1>2. tty' = User!WithWhatFits(tty, TtySize, p)
    BY HostPackets DEF User!writeToMonitorAndSerialOut
  <1> HIDE DEF p
  <1> QED
    BY <1>1, <1>2, CommanderWrites

\* Keyboard: any key.
LEMMA KeyHits ==
  ASSUME Keys, Numbered, User!Keyboard,
         UNCHANGED <<app, packet, rxMsgBuf, outId, outPktCount, lastInId,
                     inPktCount, missed>>
  PROVE  Keys' /\ Numbered'
  <1> DEFINE v == selectedVfd
  <1>1. /\ v \in 0 .. numVfds - 1 /\ v \in Nat /\ freqPkts[v] \in Nat
        /\ freqPkts \in [0 .. numVfds - 1 -> Nat]
        /\ numVfds \in Nat /\ numVfds > 1
    BY VfdsAssumption DEF Keys
  <1>2. incoming' = incoming
    BY DEF User!Keyboard, User!Up, User!Down, User!Zero,
           User!ZeroAll, User!NextVfd, User!PreviousVfd,
           User!Select, User!Quit, User!Key
  <1>3. ASSUME NEW f \in Nat, User!SendFrequency(f)
        PROVE  Keys' /\ Numbered'
    <2>1. /\ freqPkts' = [freqPkts EXCEPT ![v] = f] /\ selectedVfd' = selectedVfd
          /\ User!writeToMonitorAndSerialOut(User!VfdSetFrequency(v, f))
      BY <1>3 DEF User!SendFrequency
    <2>2. Keys'
      BY <1>1, <2>1 DEF Keys
    <2>3. Numbered'
      BY <1>1, <1>2, <2>1, FrequencyWritten
    <2> QED
      BY <2>2, <2>3
  <1>4. CASE User!Up
    <2>1. User!SendFrequency(freqPkts[v] + 1) /\ freqPkts[v] + 1 \in Nat
      BY <1>1, <1>4 DEF User!Up
    <2> QED
      BY <1>3, <2>1
  <1>5. CASE User!Down
    <2> DEFINE f == User!Larger(1, freqPkts[v]) - 1
    <2>1. User!SendFrequency(f)
      BY <1>5 DEF User!Down
    <2>2. f \in Nat
      BY <1>1 DEF User!Larger
    <2> HIDE DEF f
    <2> QED
      BY <1>3, <2>1, <2>2
  <1>6. CASE User!Zero
    <2>1. User!SendFrequency(0)
      BY <1>6 DEF User!Zero
    <2> QED
      BY <1>3, <2>1
  <1>7. CASE User!ZeroAll
    <2>1. /\ freqPkts' = [a \in 0 .. numVfds - 1 |-> 0] /\ selectedVfd' = selectedVfd
          /\ User!writeToMonitorAndSerialOut(User!VfdSetFrequency(0, 0))
      BY <1>7 DEF User!ZeroAll
    <2>2. Keys'
      BY <1>1, <2>1 DEF Keys
    <2>3. Numbered'
      BY <1>2, <2>1, FrequencyWritten
    <2> QED
      BY <2>2, <2>3
  <1>8. ASSUME NEW a \in 0 .. numVfds - 1, User!Select(a)
        PROVE  Keys' /\ Numbered'
    <2>1. selectedVfd' = a /\ UNCHANGED <<tty, freqPkts>>
      BY <1>8 DEF User!Select
    <2>2. Keys'
      BY <1>1, <2>1 DEF Keys
    <2>3. Numbered'
      BY <1>2, <2>1 DEF Numbered, Buffers, Counted
    <2> QED
      BY <2>2, <2>3
  <1>9. CASE User!NextVfd
    <2> DEFINE a == User!Smaller(v, numVfds - 2) + 1
    <2>1. User!Select(a)
      BY <1>9 DEF User!NextVfd
    <2>2. a \in 0 .. numVfds - 1
      BY <1>1 DEF User!Smaller
    <2> HIDE DEF a
    <2> QED
      BY <1>8, <2>1, <2>2
  <1>10. CASE User!PreviousVfd
    <2> DEFINE a == User!Larger(1, v) - 1
    <2>1. User!Select(a)
      BY <1>10 DEF User!PreviousVfd
    <2>2. a \in 0 .. numVfds - 1
      BY <1>1 DEF User!Larger
    <2> HIDE DEF a
    <2> QED
      BY <1>8, <2>1, <2>2
  <1>11. CASE User!Quit
    <2>1. UNCHANGED <<tty, freqPkts, selectedVfd>>
      BY <1>11 DEF User!Quit
    <2>2. Keys'
      BY <2>1 DEF Keys
    <2>3. Numbered'
      BY <1>2, <2>1 DEF Numbered, Buffers, Counted
    <2> QED
      BY <2>2, <2>3
  <1> QED
    BY <1>4, <1>5, <1>6, <1>7, <1>9, <1>10, <1>11 DEF User!Keyboard

\* SendHeartbeat.
LEMMA HeartbeatWritten ==
  ASSUME Keys, Numbered, User!SendHeartbeat,
         UNCHANGED <<app, packet, rxMsgBuf, outId, outPktCount, lastInId,
                     inPktCount, missed>>
  PROVE  Keys' /\ Numbered'
  <1>1. /\ tty' = User!WithWhatFits(tty, TtySize, Heartbeat)
        /\ UNCHANGED <<incoming, freqPkts, selectedVfd>>
    BY HostPackets DEF User!SendHeartbeat, User!writeToMonitorAndSerialOut
  <1>2. Heartbeat \in Packets /\ IdsOf(Heartbeat) = {}
    BY PacketsAre
  <1>3. Keys'
    BY <1>1 DEF Keys
  <1>4. Numbered'
    BY <1>1, <1>2, CommanderWrites
  <1> QED
    BY <1>3, <1>4

\* WriteFails: a piece at most is written, and its number stays.
LEMMA NumberStays ==
  ASSUME Numbered, Load!WriteFails,
         UNCHANGED <<app, packet, rxMsgBuf, missed>>
  PROVE  Numbered'
  <1> DEFINE p == Load!DummyPacket(outId)
  <1>1. /\ ~Load!Fits(tty, TtySize, p)
        /\ tty' = Load!WithWhatFits(tty, TtySize, p)
        /\ UNCHANGED <<incoming, outId, outPktCount, lastInId, inPktCount>>
    BY DEF Load!WriteFails, Load!throughputVars
  <1>2. tty' \in {Append(tty, Fragment), tty}
    BY <1>1, HostPackets DEF Load!WithWhatFits
  <1>3. Fragment \in Packets /\ IdsOf(Fragment) = {}
    BY PacketsAre
  <1> QED
    BY <1>1, <1>2, <1>3, Unnumbered

\* What leaves the port alone.
LEMMA SameNumbered ==
  ASSUME Numbered,
         UNCHANGED <<app, tty, incoming, packet, rxMsgBuf, outId, outPktCount, lastInId,
                     inPktCount, missed>>
  PROVE  Numbered'
  BY DEF Numbered, Buffers, Counted

\* Every step of the bench keeps the numbers.
LEMMA NumberedStep ==
  Keys /\ Numbered /\ [BenchNext]_benchVars => Keys' /\ Numbered'
  <1> SUFFICES ASSUME Keys, Numbered, [BenchNext]_benchVars
               PROVE  Keys' /\ Numbered'
    OBVIOUS
  <1>1. CASE KeyPressed
    BY <1>1, KeyHits DEF KeyPressed, CommanderSteps, throughputVars, history
  <1>2. CASE HeartbeatSent
    BY <1>2, HeartbeatWritten
       DEF HeartbeatSent, CommanderSteps, throughputVars, history
  <1>3. CASE CommanderReads
    <2>1. /\ app = "commander" /\ User!processPacket
          /\ UNCHANGED <<app, packet, rxMsgBuf, missed, outId, outPktCount, lastInId, inPktCount>>
      BY <1>3 DEF CommanderReads, CommanderSteps, throughputVars, history
    <2>2. Numbered'
      BY <2>1, NothingBack
    <2>3. Keys'
      BY <2>1 DEF User!processPacket, User!commanderVars, Keys
    <2> QED
      BY <2>2, <2>3
  <1>5. CASE ThroughputWrites
    <2>1. /\ app # "commander" /\ UNCHANGED <<app, packet, rxMsgBuf, missed>> /\ Keys'
          /\ Load!WritePacket \/ Load!WriteFails
      BY <1>5 DEF ThroughputWrites, ThroughputSteps, commanderVars,
                  history, Keys
    <2>2. CASE Load!WritePacket
      BY <2>1, <2>2, NumberWritten
    <2>3. CASE Load!WriteFails
      BY <2>1, <2>3, NumberStays
    <2> QED
      BY <2>1, <2>2, <2>3
  <1>6. CASE ThroughputReads
    <2>1. /\ UNCHANGED <<app, packet, rxMsgBuf, missed>> /\ Keys' /\ Load!processPacket
      BY <1>6 DEF ThroughputReads, ThroughputSteps, commanderVars,
                  history, Keys
    <2> QED
      BY <2>1, NumberBack
  <1>7. CASE TimePasses
    <2>1. /\ UNCHANGED <<app, packet, rxMsgBuf, missed>> /\ Keys'
          /\ UNCHANGED <<tty, incoming, outId, outPktCount, lastInId, inPktCount>>
      BY <1>7 DEF TimePasses, ThroughputSteps, Load!TimePasses,
                  commanderVars, history, Keys
    <2> QED
      BY <2>1, SameNumbered
  <1>8. CASE Receive
    <2>1. Numbered'
      BY <1>8, NumberReceived
    <2>2. Keys'
      BY <1>8 DEF Receive, appVars, commanderVars, Keys
    <2> QED
      BY <2>1, <2>2
  <1>9. CASE Dispatch
    <2>1. /\ UNCHANGED <<app, outId, outPktCount, lastInId, inPktCount, missed>> /\ Keys'
          /\ Target!Read \/ Target!ToOutput \/ Target!ToVfdTask
      BY <1>9 DEF Dispatch, appVars, commanderVars, throughputVars,
                  history, Keys
    <2>2. CASE Target!Read
      BY <2>1, <2>2, NumberRead
    <2>3. CASE Target!ToOutput
      BY <2>1, <2>3, NumberPutOut
    <2>4. CASE Target!ToVfdTask
      BY <2>1, <2>4, NumberCommands
    <2> QED
      BY <2>1, <2>2, <2>3, <2>4
  <1>10. CASE VfdTask \/ \E n \in Nodes : DriveAnswers(n)
    <2>1. UNCHANGED <<appVars, tty, incoming, rxMsgBuf, packet, history>>
      BY <1>10 DEF VfdTask, DriveAnswers, OnTheBus
    <2>2. /\ UNCHANGED <<app, tty, incoming, packet, rxMsgBuf, outId, outPktCount, lastInId,
                         inPktCount, missed>>
          /\ Keys'
      BY <2>1 DEF appVars, commanderVars, throughputVars, history, Keys
    <2> QED
      BY <2>2, SameNumbered
  <1>11. CASE UNCHANGED benchVars
    <2>1. UNCHANGED <<appVars, tty, incoming, rxMsgBuf, packet, history>>
      BY <1>11 DEF benchVars
    <2>2. /\ UNCHANGED <<app, tty, incoming, packet, rxMsgBuf, outId, outPktCount, lastInId,
                         inPktCount, missed>>
          /\ Keys'
      BY <2>1 DEF appVars, commanderVars, throughputVars, history, Keys
    <2> QED
      BY <2>2, SameNumbered
  <1> QED
    BY <1>1, <1>2, <1>3, <1>5, <1>6, <1>7, <1>8, <1>9, <1>10, <1>11 DEF BenchNext


\* The packets on the way are as many as their numbers.
LEMMA NumbersOnTheWay ==
  ASSUME Numbered
  PROVE  LET W == Way(Ids(incoming), IdsOf(packet), Ids(rxMsgBuf), Ids(tty))
         IN IsFiniteSet(W) => Cardinality(OnTheWay) = Cardinality(W)
  <1> DEFINE S == {tty, rxMsgBuf, <<packet>>, incoming}
             All == UNION {{s[i] : i \in DOMAIN s} : s \in S}
             W == Way(Ids(incoming), IdsOf(packet), Ids(rxMsgBuf), Ids(tty))
             f == [k \in W |-> DummyPacket(k)]
             B == OnTheWay
  <1>1. \A s \in S : s \in Seq(Packets) /\ DOMAIN s = 1 .. Len(s)
    <2>1. tty \in Seq(Packets) /\ rxMsgBuf \in Seq(Packets) /\ incoming \in Seq(Packets)
          /\ packet \in Packets
      BY DEF Numbered, Buffers
    <2>2. <<packet>> \in Seq(Packets)
      BY <2>1
    <2>3. \A s \in Seq(Packets) : DOMAIN s = 1 .. Len(s)
      OBVIOUS
    <2> QED
      BY <2>1, <2>2, <2>3
  <1>2. B = {p \in All : IsDummy(p)}
    BY DEF OnTheWay, IsDummy
  <1>3. W = UNION {Ids(s) : s \in S}
    <2>1. Ids(<<packet>>) = IdsOf(packet)
      <3>1. Len(<<packet>>) = 1 /\ <<packet>>[1] = packet /\ 1 .. 1 = {1}
        OBVIOUS
      <3> QED
        BY <3>1 DEF Ids
    <2> QED
      BY <2>1 DEF Way
  <1>4. ASSUME NEW k \in W
        PROVE  k \in Nat /\ DummyPacket(k) \in B
    <2>1. PICK s \in S : k \in Ids(s)
      BY <1>3
    <2>2. PICK i \in 1 .. Len(s) : k \in IdsOf(s[i])
      BY <2>1 DEF Ids
    <2>3. s[i] \in Packets /\ s[i] \in All
      BY <1>1, <2>2
    <2>4. IsDummy(s[i]) /\ k = s[i].outId
      BY <2>2 DEF IdsOf
    <2> HIDE DEF All
    <2>5. k \in Nat /\ s[i] = DummyPacket(k)
      BY <2>3, <2>4, DummyIs
    <2> QED
      BY <1>2, <2>3, <2>4, <2>5
  <1>5. ASSUME NEW p \in B
        PROVE  \E k \in W : p = DummyPacket(k)
    <2>1. IsDummy(p) /\ p \in All
      BY <1>2
    <2>2. PICK s \in S : \E i \in DOMAIN s : p = s[i]
      BY <2>1
    <2>3. PICK i \in 1 .. Len(s) : p = s[i]
      BY <1>1, <2>2
    <2>4. p \in Packets
      BY <1>1, <2>3
    <2>5. p.outId \in IdsOf(s[i])
      BY <2>1, <2>3 DEF IdsOf
    <2>6. p.outId \in Ids(s)
      BY <2>5 DEF Ids
    <2>7. p.outId \in W
      BY <1>3, <2>6
    <2>8. p = DummyPacket(p.outId)
      BY <2>1, <2>4, DummyIs
    <2> QED
      BY <2>7, <2>8
  <1>6. \A j, k \in W : DummyPacket(j) = DummyPacket(k) => j = k
    BY DEF DummyPacket
  <1> HIDE DEF W, B
  <1>7. f \in [W -> B] /\ \A k \in W : f[k] = DummyPacket(k)
    BY <1>4
  <1> HIDE DEF f
  <1>8. f \in Bijection(W, B)
    BY <1>5, <1>6, <1>7 DEF Bijection, Injection, IsInjective, Surjection
  <1>9. ExistsBijection(W, B)
    BY <1>8 DEF ExistsBijection
  <1>10. IsFiniteSet(W) => Cardinality(B) = Cardinality(W)
    BY <1>9, FS_Bijection
  <1> QED
    BY <1>10 DEF W, B

\* What the numbers say of the report.
LEMMA NumbersAreTrue == Numbered => CountsAreTrue
  <1> SUFFICES ASSUME Numbered, inPktCount > 0
               PROVE  /\ Load!Dropped = Cardinality({i \in missed : i <= lastInId})
                      /\ Load!Pending =
                           Cardinality(OnTheWay)
                             + Cardinality({i \in missed : i > lastInId})
    BY DEF CountsAreTrue
  <1> DEFINE W == Way(Ids(incoming), IdsOf(packet), Ids(rxMsgBuf), Ids(tty))
  <1>1. Told(W, missed, outId, lastInId, inPktCount) /\ outPktCount = outId
    BY DEF Numbered, Counted
  <1> HIDE DEF W
  <1>2. /\ lastInId + 1 - inPktCount = Cardinality({i \in missed : i <= lastInId})
        /\ outId - 1 - lastInId = Cardinality(W) + Cardinality({i \in missed : i > lastInId})
        /\ IsFiniteSet(W)
    BY <1>1, ToldSays
  <1>3. Cardinality(OnTheWay) = Cardinality(W)
    BY <1>2, NumbersOnTheWay DEF W
  <1>4. /\ Load!Dropped = Cardinality({i \in missed : i <= lastInId})
        /\ Load!Pending =
             Cardinality(OnTheWay) + Cardinality({i \in missed : i > lastInId})
    BY <1>1, <1>2, <1>3 DEF Load!Dropped, Load!Pending
  <1> QED
    BY <1>4

\* The report of throughput (main) is true on the whole bench: once a packet
\* came back, Dropped is exactly what the receive buffer of the target cut off
\* or dropped (receiveCb) up to that packet, and Pending what is on the way or
\* was lost behind it, for any sizes of the buffers, any number of packets and
\* drives, and whatever the drives and the bus do meanwhile.
THEOREM CountsTrue == BenchSpec => []CountsAreTrue
  <1>1. BenchInit => Keys /\ Numbered
    <2>1. BenchInit => Keys
      BY VfdsAssumption DEF BenchInit, User!Init, Keys
    <2> QED
      BY <2>1, NumberedInit
  <1>2. Keys /\ Numbered /\ [BenchNext]_benchVars => Keys' /\ Numbered'
    BY NumberedStep
  <1>3. Keys /\ Numbered => CountsAreTrue
    BY NumbersAreTrue
  <1> QED
    BY <1>1, <1>2, <1>3, PTL DEF BenchSpec
=============================================================================
