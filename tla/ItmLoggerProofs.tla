--------------------------- MODULE ItmLoggerProofs ---------------------------
(***************************************************************************)
(* Proofs about ItmLogger: no line outgrows the buffer it is read to, the  *)
(* lines on the trace port stay whole, and the logger is a channel.        *)
(*                                                                         *)
(* That lines stay whole is not the mutex of itmSendBuf alone: an error is *)
(* sent with two calls, and between them that mutex is free.  Other errors *)
(* are kept away by the mutex of error(); the logger, which does not take  *)
(* that one, is kept away by its priority.  ErrorsInOneGo and WhoseLine    *)
(* say what has to hold at every moment for that.                          *)
(***************************************************************************)
EXTENDS ItmLogger, SequenceTheorems, TLAPS

Erring(t) == pc[t] \in {"prefix", "text"}

\* Who has called has something to send, and who waits to copy has the room for it.
Asked(t) ==
  /\ pc[t] \notin {"idle", "halted"} => calls[t] >= 1 /\ msgLen[t] >= 1
  /\ pc[t] = "copy" => Len(msgbuf) < MsgBufLen

\* The two other mutexes and where their holders are.
Holds(t) ==
  /\ errorMutex = t <=> Erring(t)
  /\ itmMutex = t => Erring(t)

\* What may be on the port: lines of the logger, its heartbeat, and errors.
PortLines == (Tasks \union {Logger}) \X (0 .. MaxCalls) \X (1 .. PrefixLen + BufLen)

PortOK ==
  /\ port \in PortLines \X Nat
  /\ 1 <= port[2] /\ port[2] <= port[1][3]

Unfinished == port[2] < port[1][3]

\* A begun line is the logger's, which holds the port, or that of the one error.
WhoseLine ==
  Unfinished => \/ itmMutex = Logger /\ port[1] = Current
                \/ \E t \in Tasks : Erring(t) /\ port[1] = ErrorLine(t)

\* The logger holds the port only for a line of its own: no error has begun.
LoggersTurn ==
  itmMutex = Logger => doing = "send" /\ \A t \in Tasks : Erring(t) => port[1] # ErrorLine(t)

\* The two parts of an error follow each other on the port.
ErrorsInOneGo(t) ==
  /\ port[1][1] = t /\ port[1][2] = 0 => Erring(t) \/ pc[t] = "halted"
  /\ pc[t] = "prefix" /\ port[1] = ErrorLine(t) => port[2] < PrefixLen
  /\ pc[t] = "text" => port[1] = ErrorLine(t) /\ PrefixLen <= port[2] /\ Unfinished

Inv ==
  /\ TypeOK
  /\ \A t \in Tasks : Asked(t) /\ Holds(t)
  /\ PortOK /\ WhoseLine /\ LoggersTurn
  /\ \A t \in Tasks : ErrorsInOneGo(t)

\* LinesWhole, as a step.
Whole ==
  port' # port =>
    IF port[2] < port[1][3] THEN port' = <<port[1], port[2] + 1>> ELSE port'[2] = 1

-------------------------------------------------------------------------------
(* What the proofs keep needing *)

\* Every way to format a line ends inside the buffer.
LEMMA LinesFit == LogLengths \subseteq 1 .. BufLen
  <1>1. BufLen \in Nat /\ BufLen >= 3 /\ BufLen % 3 = 0
    BY LengthAssumption
  <1>2. ASSUME NEW n \in Formatted
        PROVE  addLinebreak(n) \in 1 .. BufLen /\ toHex(Smaller(n, BufLen)) \in 1 .. BufLen
    <2>1. n \in Nat
      BY LengthAssumption
    <2>2. Smaller(n, BufLen - 1) \in 0 .. BufLen - 1 /\ Smaller(n, BufLen) \in Nat
      BY <2>1, <1>1 DEF Smaller
    <2>3. itmMaxHexBytes \in Nat /\ 3 * itmMaxHexBytes + 2 <= BufLen
      BY <1>1 DEF itmMaxHexBytes
    <2>4. Smaller(itmMaxHexBytes, Smaller(n, BufLen)) \in 0 .. itmMaxHexBytes
      BY <2>2, <2>3 DEF Smaller
    <2> QED
      BY <2>2, <2>3, <2>4, <1>1 DEF addLinebreak, toHex
  <1>3. ASSUME NEW n \in Formatted, 0 < n, n < BufLen
        PROVE  n \in 1 .. BufLen
    BY <1>1, <1>3, LengthAssumption
  <1> QED
    BY <1>2, <1>3 DEF LogLengths

LEMMA Names ==
  /\ Logger \notin Tasks /\ Nobody \notin Tasks /\ Nobody # Logger
  /\ MaxCalls \in Nat /\ BufLen \in Nat \ {0} /\ PrefixLen \in Nat \ {0}
  /\ MsgBufLen \in Nat \ {0}
  BY LoggerAssumption, LengthAssumption

LEMMA LogStep ==
  ASSUME Inv, NEW t \in Tasks, log(t)
  PROVE  Inv' /\ Whole
  <1> USE Names
  <1>1. TypeOK'
    <2>1. calls' \in [Tasks -> 0 .. MaxCalls]
      BY DEF Inv, TypeOK, log
    <2>2. msgLen' \in [Tasks -> 0 .. BufLen]
      <3>1. \A n \in LogLengths : n \in 0 .. BufLen
        BY LinesFit
      <3> QED
        BY <3>1 DEF Inv, TypeOK, log
    <2>3. /\ pc' \in [Tasks -> {"idle", "lock", "write", "copy", "error", "prefix", "text",
                              "halted"}]
          /\ \A u \in Tasks : mutex' = u <=> pc'[u] \in {"write", "copy"}
      BY DEF Inv, TypeOK, log
    <2> QED
      BY <2>1, <2>2, <2>3 DEF Inv, TypeOK, log, loggerVars
  <1>2. \A u \in Tasks : Asked(u)' /\ Holds(u)'
    BY SMTT(30), LinesFit DEF Inv, TypeOK, Asked, Holds, Erring, log
  <1>3. PortOK' /\ port' = port
    BY DEF Inv, PortOK, PortLines, log
  <1>4. WhoseLine' /\ LoggersTurn'
    BY SMTT(30), <1>3 DEF Inv, TypeOK, WhoseLine, LoggersTurn, Unfinished, Holds, Erring, ErrorsInOneGo, ErrorLine,
       Current, log, loggerVars, Take
  <1>5. \A u \in Tasks : ErrorsInOneGo(u)'
    BY <1>3 DEF Inv, TypeOK, ErrorsInOneGo, Unfinished, Erring, ErrorLine, log
  <1> QED
    BY <1>1, <1>2, <1>3, <1>4, <1>5 DEF Inv, Whole

LEMMA ErrorStep ==
  ASSUME Inv, NEW t \in Tasks, error(t)
  PROVE  Inv' /\ Whole
  <1> USE Names
  <1>1. TypeOK'
    <2>1. calls' \in [Tasks -> 0 .. MaxCalls]
      BY DEF Inv, TypeOK, error
    <2>2. msgLen' \in [Tasks -> 0 .. BufLen]
      <3>1. \A n \in ErrorLens : n \in 0 .. BufLen
        BY LengthAssumption
      <3> QED
        BY <3>1 DEF Inv, TypeOK, error
    <2>3. /\ pc' \in [Tasks -> {"idle", "lock", "write", "copy", "error", "prefix", "text",
                              "halted"}]
          /\ \A u \in Tasks : mutex' = u <=> pc'[u] \in {"write", "copy"}
      BY DEF Inv, TypeOK, error
    <2> QED
      BY <2>1, <2>2, <2>3 DEF Inv, TypeOK, error, loggerVars
  <1>2. \A u \in Tasks : Asked(u)' /\ Holds(u)'
    BY SMTT(30), LengthAssumption DEF Inv, TypeOK, Asked, Holds, Erring, error
  <1>3. PortOK' /\ port' = port
    BY DEF Inv, PortOK, PortLines, error
  <1>4. WhoseLine' /\ LoggersTurn'
    BY SMTT(30), <1>3 DEF Inv, TypeOK, WhoseLine, LoggersTurn, Unfinished, Holds, Erring, ErrorsInOneGo, ErrorLine,
       Current, error, loggerVars, Take
  <1>5. \A u \in Tasks : ErrorsInOneGo(u)'
    BY SMTT(30), <1>3 DEF Inv, TypeOK, ErrorsInOneGo, Unfinished, Erring, ErrorLine, error
  <1> QED
    BY <1>1, <1>2, <1>3, <1>4, <1>5 DEF Inv, Whole

LEMMA TakeMutexStep ==
  ASSUME Inv, NEW t \in Tasks, TakeMutex(t)
  PROVE  Inv' /\ Whole
  <1> USE Names
  <1>1. TypeOK'
    BY DEF Inv, TypeOK, TakeMutex, loggerVars
  <1>2. \A u \in Tasks : Asked(u)' /\ Holds(u)'
    BY DEF Inv, TypeOK, Asked, Holds, Erring, TakeMutex
  <1>3. PortOK' /\ port' = port
    BY DEF Inv, PortOK, PortLines, TakeMutex
  <1>4. WhoseLine' /\ LoggersTurn'
    BY <1>3 DEF Inv, TypeOK, WhoseLine, LoggersTurn, Unfinished, Holds, Erring, ErrorsInOneGo, ErrorLine,
       Current, TakeMutex, loggerVars, Take
  <1>5. \A u \in Tasks : ErrorsInOneGo(u)'
    BY <1>3 DEF Inv, TypeOK, ErrorsInOneGo, Unfinished, Erring, ErrorLine, TakeMutex
  <1> QED
    BY <1>1, <1>2, <1>3, <1>4, <1>5 DEF Inv, Whole

LEMMA MutexTimesOutStep ==
  ASSUME Inv, NEW t \in Tasks, MutexTimesOut(t)
  PROVE  Inv' /\ Whole
  <1> USE Names
  <1>1. TypeOK'
    BY DEF Inv, TypeOK, MutexTimesOut, loggerVars
  <1>2. \A u \in Tasks : Asked(u)' /\ Holds(u)'
    BY DEF Inv, TypeOK, Asked, Holds, Erring, MutexTimesOut
  <1>3. PortOK' /\ port' = port
    BY DEF Inv, PortOK, PortLines, MutexTimesOut
  <1>4. WhoseLine' /\ LoggersTurn'
    BY <1>3 DEF Inv, TypeOK, WhoseLine, LoggersTurn, Unfinished, Holds, Erring, ErrorsInOneGo, ErrorLine,
       Current, MutexTimesOut, loggerVars, Take
  <1>5. \A u \in Tasks : ErrorsInOneGo(u)'
    BY <1>3 DEF Inv, TypeOK, ErrorsInOneGo, Unfinished, Erring, ErrorLine, MutexTimesOut
  <1> QED
    BY <1>1, <1>2, <1>3, <1>4, <1>5 DEF Inv, Whole

LEMMA FindRoomStep ==
  ASSUME Inv, NEW t \in Tasks, FindRoom(t)
  PROVE  Inv' /\ Whole
  <1> USE Names
  <1>1. TypeOK'
    BY DEF Inv, TypeOK, FindRoom, loggerVars
  <1>2. \A u \in Tasks : Asked(u)' /\ Holds(u)'
    BY DEF Inv, TypeOK, Asked, Holds, Erring, FindRoom
  <1>3. PortOK' /\ port' = port
    BY DEF Inv, PortOK, PortLines, FindRoom
  <1>4. WhoseLine' /\ LoggersTurn'
    BY <1>3 DEF Inv, TypeOK, WhoseLine, LoggersTurn, Unfinished, Holds, Erring, ErrorsInOneGo, ErrorLine,
       Current, FindRoom, loggerVars, Take
  <1>5. \A u \in Tasks : ErrorsInOneGo(u)'
    BY <1>3 DEF Inv, TypeOK, ErrorsInOneGo, Unfinished, Erring, ErrorLine, FindRoom
  <1> QED
    BY <1>1, <1>2, <1>3, <1>4, <1>5 DEF Inv, Whole

LEMMA WriteStep ==
  ASSUME Inv, NEW t \in Tasks, WriteMsgbuf(t)
  PROVE  Inv' /\ Whole
  <1> USE Names
  <1>1. TypeOK'
    <2>1. Line(t) \in Lines
      <3>1. calls[t] \in 1 .. MaxCalls /\ msgLen[t] \in 1 .. BufLen
        <4>1. calls[t] >= 1 /\ msgLen[t] >= 1
          BY DEF Inv, Asked, WriteMsgbuf
        <4>2. calls[t] \in 0 .. MaxCalls /\ msgLen[t] \in 0 .. BufLen
          BY DEF Inv, TypeOK
        <4> QED
          BY <4>1, <4>2
      <3> QED
        BY <3>1 DEF Line, Lines
    <2>2. msgbuf' \in Seq(Lines) /\ Len(msgbuf') = Len(msgbuf) + 1
      BY <2>1, AppendProperties DEF Inv, TypeOK, WriteMsgbuf
    <2>3. Len(msgbuf') <= MsgBufLen
      BY <2>2 DEF Inv, TypeOK, Asked, WriteMsgbuf
    <2> QED
      BY <2>2, <2>3 DEF Inv, TypeOK, WriteMsgbuf, loggerVars
  <1>2. \A u \in Tasks : Asked(u)' /\ Holds(u)'
    BY DEF Inv, TypeOK, Asked, Holds, Erring, WriteMsgbuf
  <1>3. PortOK' /\ port' = port
    BY DEF Inv, PortOK, PortLines, WriteMsgbuf
  <1>4. WhoseLine' /\ LoggersTurn'
    BY <1>3 DEF Inv, TypeOK, WhoseLine, LoggersTurn, Unfinished, Holds, Erring, ErrorsInOneGo, ErrorLine,
       Current, WriteMsgbuf, loggerVars, Take
  <1>5. \A u \in Tasks : ErrorsInOneGo(u)'
    BY <1>3 DEF Inv, TypeOK, ErrorsInOneGo, Unfinished, Erring, ErrorLine, WriteMsgbuf
  <1> QED
    BY <1>1, <1>2, <1>3, <1>4, <1>5 DEF Inv, Whole

LEMMA WriteTimesOutStep ==
  ASSUME Inv, NEW t \in Tasks, WriteTimesOut(t)
  PROVE  Inv' /\ Whole
  <1> USE Names
  <1>1. TypeOK'
    BY DEF Inv, TypeOK, WriteTimesOut, loggerVars
  <1>2. \A u \in Tasks : Asked(u)' /\ Holds(u)'
    BY DEF Inv, TypeOK, Asked, Holds, Erring, WriteTimesOut
  <1>3. PortOK' /\ port' = port
    BY DEF Inv, PortOK, PortLines, WriteTimesOut
  <1>4. WhoseLine' /\ LoggersTurn'
    BY <1>3 DEF Inv, TypeOK, WhoseLine, LoggersTurn, Unfinished, Holds, Erring, ErrorsInOneGo, ErrorLine,
       Current, WriteTimesOut, loggerVars, Take
  <1>5. \A u \in Tasks : ErrorsInOneGo(u)'
    BY <1>3 DEF Inv, TypeOK, ErrorsInOneGo, Unfinished, Erring, ErrorLine, WriteTimesOut
  <1> QED
    BY <1>1, <1>2, <1>3, <1>4, <1>5 DEF Inv, Whole

LEMMA TakeErrorMutexStep ==
  ASSUME Inv, NEW t \in Tasks, TakeErrorMutex(t)
  PROVE  Inv' /\ Whole
  <1> USE Names
  <1>1. TypeOK'
    BY DEF Inv, TypeOK, TakeErrorMutex, loggerVars
  <1>2. \A u \in Tasks : Asked(u)' /\ Holds(u)'
    BY DEF Inv, TypeOK, Asked, Holds, Erring, TakeErrorMutex
  <1>3. PortOK' /\ port' = port
    BY DEF Inv, PortOK, PortLines, TakeErrorMutex
  <1>4. WhoseLine' /\ LoggersTurn'
    <2>1. port[1] # ErrorLine(t)
      <3>1. ~(port[1][1] = t /\ port[1][2] = 0)
        BY DEF Inv, ErrorsInOneGo, Erring, TakeErrorMutex
      <3>2. ErrorLine(t)[1] = t /\ ErrorLine(t)[2] = 0
        BY DEF ErrorLine
      <3> QED
        BY <3>1, <3>2
    <2>2. WhoseLine'
      BY <1>3 DEF Inv, TypeOK, WhoseLine, Unfinished, Erring, ErrorLine, Current, TakeErrorMutex,
         loggerVars
    <2>3. LoggersTurn'
      BY <1>3, <2>1 DEF Inv, TypeOK, LoggersTurn, Erring, ErrorLine, TakeErrorMutex, loggerVars
    <2> QED
      BY <2>2, <2>3
  <1>5. \A u \in Tasks : ErrorsInOneGo(u)'
    BY SMTT(30), <1>3 DEF Inv, TypeOK, ErrorsInOneGo, Unfinished, Erring, ErrorLine, TakeErrorMutex
  <1> QED
    BY <1>1, <1>2, <1>3, <1>4, <1>5 DEF Inv, Whole

LEMMA TakePortStep ==
  ASSUME Inv, NEW t \in Tasks, TakePort(t)
  PROVE  Inv' /\ Whole
  <1> USE Names
  <1>1. TypeOK'
    BY DEF Inv, TypeOK, TakePort, loggerVars, callerVars, Take
  <1>2. \A u \in Tasks : Asked(u)' /\ Holds(u)'
    BY DEF Inv, TypeOK, Asked, Holds, Erring, TakePort, Take, callerVars
  <1>3. PortOK' /\ port' = port
    BY DEF Inv, PortOK, PortLines, TakePort
  <1>4. WhoseLine' /\ LoggersTurn'
    BY <1>3 DEF Inv, TypeOK, WhoseLine, LoggersTurn, Unfinished, Erring, ErrorLine,
       Current, TakePort, Take, loggerVars, callerVars
  <1>5. \A u \in Tasks : ErrorsInOneGo(u)'
    BY <1>3 DEF Inv, ErrorsInOneGo, Unfinished, Erring, ErrorLine, TakePort, callerVars
  <1> QED
    BY <1>1, <1>2, <1>3, <1>4, <1>5 DEF Inv, Whole

\* What the two parts of an error have in common: the line on the port, if any
\* has begun, is the task's own, and the next character continues it.
LEMMA ErrorContinues ==
  ASSUME Inv, NEW t \in Tasks, Erring(t), itmMutex = t
  PROVE  /\ ErrorLine(t) \in PortLines /\ ErrorLine(t)[3] = PrefixLen + msgLen[t]
         /\ msgLen[t] \in 1 .. BufLen
         /\ Sent(t) \in Nat
         /\ IF Unfinished THEN port[1] = ErrorLine(t) /\ Sent(t) = port[2] ELSE Sent(t) = 0
         /\ pc[t] = "prefix" => Sent(t) < PrefixLen
         /\ pc[t] = "text" => PrefixLen <= Sent(t) /\ Sent(t) < PrefixLen + msgLen[t]
         /\ \A u \in Tasks \ {t} : ~Erring(u)
  <1> USE Names
  <1>1. msgLen[t] \in 1 .. BufLen
    <2>1. msgLen[t] >= 1
      BY DEF Inv, Asked, Erring
    <2>2. msgLen[t] \in 0 .. BufLen
      BY DEF Inv, TypeOK
    <2> QED
      BY <2>1, <2>2
  <1>2. ErrorLine(t) \in PortLines /\ ErrorLine(t)[3] = PrefixLen + msgLen[t]
    BY <1>1 DEF ErrorLine, PortLines
  <1>3. \A u \in Tasks \ {t} : ~Erring(u)
    BY DEF Inv, Holds
  <1>4. Unfinished => port[1] = ErrorLine(t)
    BY <1>3 DEF Inv, WhoseLine
  <1>5. port[2] \in Nat
    BY DEF Inv, PortOK
  <1>6. pc[t] = "prefix" /\ port[1] = ErrorLine(t) => port[2] < PrefixLen
    BY DEF Inv, ErrorsInOneGo
  <1>7. pc[t] = "text" => port[1] = ErrorLine(t) /\ PrefixLen <= port[2] /\ Unfinished
    BY DEF Inv, ErrorsInOneGo
  <1>8. pc[t] \in {"prefix", "text"}
    BY DEF Erring
  <1>9. ~Unfinished => port[1] # ErrorLine(t)
    BY <1>1, <1>2, <1>5, <1>6, <1>7, <1>8 DEF Unfinished
  <1> QED
    BY <1>1, <1>2, <1>3, <1>4, <1>5, <1>6, <1>7, <1>9 DEF Sent, Unfinished

LEMMA SendPrefixStep ==
  ASSUME Inv, NEW t \in Tasks, SendPrefix(t)
  PROVE  Inv' /\ Whole
  <1> USE Names
  <1> DEFINE at == Sent(t) + 1
  <1>1. pc[t] = "prefix" /\ Erring(t) /\ itmMutex = t
    BY DEF SendPrefix, SendChar, Erring
  <1>2. /\ port' = <<ErrorLine(t), at>>
        /\ itmMutex' = (IF at = PrefixLen THEN Nobody ELSE t)
        /\ pc' = (IF at = PrefixLen THEN [pc EXCEPT ![t] = "text"] ELSE pc)
        /\ UNCHANGED <<enabled, calls, msgLen, mutex, errorMutex, msgbuf, doing, msg_, logged>>
    BY DEF SendPrefix, SendChar, loggerVars
  <1>3. /\ ErrorLine(t) \in PortLines /\ ErrorLine(t)[3] = PrefixLen + msgLen[t]
        /\ msgLen[t] \in 1 .. BufLen
        /\ at \in Nat /\ 1 <= at /\ at <= PrefixLen
        /\ IF Unfinished THEN port[1] = ErrorLine(t) /\ at = port[2] + 1 ELSE at = 1
        /\ \A u \in Tasks \ {t} : ~Erring(u)
    BY <1>1, ErrorContinues
  <1> HIDE DEF at
  <1>4. TypeOK'
    BY <1>1, <1>2 DEF Inv, TypeOK
  <1>5. \A u \in Tasks : Asked(u)' /\ Holds(u)'
    BY <1>1, <1>2 DEF Inv, TypeOK, Asked, Holds, Erring
  <1>6. PortOK' /\ Unfinished' /\ port'[1] = ErrorLine(t)' /\ port'[2] = at
    BY <1>2, <1>3 DEF PortOK, Unfinished, ErrorLine, PortLines
  <1>7. Erring(t)' /\ itmMutex' # Logger
    BY <1>1, <1>2 DEF Erring, Inv, TypeOK
  <1>8. WhoseLine' /\ LoggersTurn'
    BY <1>6, <1>7 DEF WhoseLine, LoggersTurn
  <1>9. \A u \in Tasks : ErrorsInOneGo(u)'
    <2>1. \A u \in Tasks \ {t} : pc'[u] \notin {"prefix", "text"}
      BY <1>2, <1>3 DEF Inv, TypeOK, Erring
    <2>2. ErrorLine(t)'[1] = t
      BY DEF ErrorLine
    <2>3. pc'[t] = (IF at = PrefixLen THEN "text" ELSE "prefix")
      BY <1>1, <1>2 DEF Inv, TypeOK
    <2> QED
      BY <1>3, <1>6, <1>7, <2>1, <2>2, <2>3 DEF ErrorsInOneGo
  <1>10. Whole
    BY <1>2, <1>3 DEF Whole, Unfinished
  <1> QED
    BY <1>4, <1>5, <1>6, <1>8, <1>9, <1>10 DEF Inv

LEMMA SendTextStep ==
  ASSUME Inv, NEW t \in Tasks, SendText(t)
  PROVE  Inv' /\ Whole
  <1> USE Names
  <1> DEFINE at == Sent(t) + 1
             end == PrefixLen + msgLen[t]
  <1>1. pc[t] = "text" /\ Erring(t) /\ itmMutex = t /\ errorMutex = t
    BY DEF SendText, SendChar, Erring, Inv, Holds
  <1>2. /\ port' = <<ErrorLine(t), at>>
        /\ itmMutex' = (IF at = end THEN Nobody ELSE t)
        /\ pc' = (IF at = end THEN [pc EXCEPT ![t] = "halted"] ELSE pc)
        /\ errorMutex' = (IF at = end THEN Nobody ELSE t)
        /\ UNCHANGED <<enabled, calls, msgLen, mutex, msgbuf, doing, msg_, logged>>
    BY <1>1 DEF SendText, SendChar, loggerVars
  <1>3. /\ ErrorLine(t) \in PortLines /\ ErrorLine(t)[3] = end
        /\ end \in Nat
        /\ at \in Nat /\ PrefixLen < at /\ at <= end
        /\ IF Unfinished THEN port[1] = ErrorLine(t) /\ at = port[2] + 1 ELSE at = 1
        /\ \A u \in Tasks \ {t} : ~Erring(u)
    BY <1>1, ErrorContinues
  <1> HIDE DEF at, end
  <1>4. TypeOK'
    BY <1>1, <1>2 DEF Inv, TypeOK
  <1>5. \A u \in Tasks : Asked(u)' /\ Holds(u)'
    BY <1>1, <1>2 DEF Inv, TypeOK, Asked, Holds, Erring
  <1>6. PortOK' /\ port'[1] = ErrorLine(t)' /\ port'[2] = at /\ (Unfinished' <=> at # end)
    BY <1>2, <1>3 DEF PortOK, Unfinished, ErrorLine, PortLines
  <1>7. pc'[t] = (IF at = end THEN "halted" ELSE "text") /\ itmMutex' # Logger
    BY <1>1, <1>2 DEF Inv, TypeOK
  <1>8. WhoseLine' /\ LoggersTurn'
    BY <1>6, <1>7 DEF WhoseLine, LoggersTurn, Erring
  <1>9. \A u \in Tasks : ErrorsInOneGo(u)'
    <2>1. \A u \in Tasks \ {t} : pc'[u] \notin {"prefix", "text"}
      BY <1>2, <1>3 DEF Inv, TypeOK, Erring
    <2>2. ErrorLine(t)'[1] = t
      BY DEF ErrorLine
    <2> QED
      BY <1>3, <1>6, <1>7, <2>1, <2>2 DEF ErrorsInOneGo, Erring
  <1>10. Whole
    BY <1>2, <1>3 DEF Whole, Unfinished
  <1> QED
    BY <1>4, <1>5, <1>6, <1>8, <1>9, <1>10 DEF Inv

-------------------------------------------------------------------------------
(* The logger *)

\* The logger takes the port only while no error is being sent: a task that
\* sends one could run, and so does one that stopped in critical().
LEMMA LoggerTakesPortStep ==
  ASSUME Inv, LoggerRuns, LoggerTakesPort
  PROVE  Inv' /\ Whole
  <1> USE Names
  <1>1. doing = "send" /\ itmMutex = Nobody /\ itmMutex' = Logger
    BY DEF LoggerTakesPort, Take
  <1>2. UNCHANGED <<enabled, pc, calls, msgLen, mutex, errorMutex, msgbuf, doing, msg_, logged, port>>
    BY DEF LoggerTakesPort, callerVars, loggerVars
  <1>3. \A t \in Tasks : ~Erring(t)
    BY <1>1 DEF LoggerRuns, Blocked, Erring
  <1>4. TypeOK'
    BY <1>1, <1>2 DEF Inv, TypeOK
  <1>5. \A u \in Tasks : Asked(u)' /\ Holds(u)'
    BY <1>1, <1>2 DEF Inv, Asked, Holds, Erring
  <1>6. PortOK' /\ Whole
    BY <1>2 DEF Inv, PortOK, Whole, PortLines
  <1>7. WhoseLine' /\ LoggersTurn'
    BY <1>1, <1>2, <1>3 DEF Inv, WhoseLine, LoggersTurn, Unfinished, Erring
  <1>8. \A u \in Tasks : ErrorsInOneGo(u)'
    BY <1>2 DEF Inv, ErrorsInOneGo, Unfinished, Erring, ErrorLine
  <1> QED
    BY <1>4, <1>5, <1>6, <1>7, <1>8 DEF Inv

\* While the logger reads it does not hold the port.
LEMMA ReadStep ==
  ASSUME Inv, ReadMsgbuf \/ ReadTimesOut
  PROVE  Inv' /\ Whole
  <1> USE Names
  <1>1. /\ doing = "read"
        /\ UNCHANGED <<enabled, pc, calls, msgLen, mutex, errorMutex, itmMutex, port>>
    BY DEF ReadMsgbuf, ReadTimesOut, callerVars
  <1>2. itmMutex # Logger
    BY <1>1 DEF Inv, LoggersTurn
  <1>3. /\ msgbuf' \in Seq(Lines) /\ Len(msgbuf') <= Len(msgbuf)
        /\ Len(msgbuf) \in Nat /\ Len(msgbuf') \in Nat
        /\ msg_' \in Lines \union {<<>>} /\ logged' \in Seq(Lines)
    <2>1. msgbuf \in Seq(Lines) /\ logged \in Seq(Lines)
      BY DEF Inv, TypeOK
    <2>2. CASE ReadMsgbuf
      <3>1. /\ msgbuf # <<>> /\ msg_' = Head(msgbuf) /\ msgbuf' = Tail(msgbuf)
            /\ logged' = Append(logged, Head(msgbuf))
        BY <2>2 DEF ReadMsgbuf
      <3>2. /\ Head(msgbuf) \in Lines /\ Tail(msgbuf) \in Seq(Lines)
            /\ Len(Tail(msgbuf)) = Len(msgbuf) - 1 /\ Len(msgbuf) \in Nat
        BY <2>1, <3>1, HeadTailProperties
      <3>3. logged' \in Seq(Lines) /\ Len(msgbuf') \in Nat
        BY <2>1, <3>1, <3>2, AppendProperties, LenProperties
      <3> HIDE DEF Lines
      <3> QED
        BY <3>1, <3>2, <3>3
    <2>3. CASE ReadTimesOut
      <3>1. msgbuf' = msgbuf /\ msg_' = <<>> /\ logged' = logged
        BY <2>3 DEF ReadTimesOut
      <3>2. Len(msgbuf) \in Nat
        BY <2>1, LenProperties
      <3> QED
        BY <2>1, <3>1, <3>2
    <2> QED
      BY <2>2, <2>3
  <1>4. TypeOK'
    <2>1. doing' \in {"read", "send"}
      BY DEF ReadMsgbuf, ReadTimesOut
    <2> QED
      BY SMTT(30), <1>1, <1>3, <2>1 DEF Inv, TypeOK
  <1>5. \A u \in Tasks : Asked(u)' /\ Holds(u)'
    BY <1>1, <1>3 DEF Inv, Asked, Holds, Erring
  <1>6. PortOK' /\ Whole
    BY <1>1 DEF Inv, PortOK, Whole, PortLines
  <1>7. WhoseLine' /\ LoggersTurn'
    BY <1>1, <1>2 DEF Inv, WhoseLine, LoggersTurn, Unfinished, Erring, ErrorLine
  <1>8. \A u \in Tasks : ErrorsInOneGo(u)'
    BY <1>1 DEF Inv, ErrorsInOneGo, Unfinished, Erring, ErrorLine
  <1> QED
    BY <1>4, <1>5, <1>6, <1>7, <1>8 DEF Inv

LEMMA LoggerSendsStep ==
  ASSUME Inv, LoggerSends
  PROVE  Inv' /\ Whole
  <1> USE Names
  <1> DEFINE at == IF port[1] = Current /\ port[2] < Current[3] THEN port[2] + 1 ELSE 1
             end == Current[3]
  <1>1. /\ doing = "send" /\ itmMutex = Logger /\ at <= end
        /\ port' = <<Current, at>>
        /\ itmMutex' = (IF at = end THEN Nobody ELSE Logger)
        /\ doing' = (IF at = end THEN "read" ELSE "send")
        /\ UNCHANGED <<enabled, pc, calls, msgLen, mutex, errorMutex, msgbuf, msg_, logged>>
    BY DEF LoggerSends, SendChar, callerVars
  <1>2. Current \in PortLines /\ end \in Nat /\ (Current[1] = Logger \/ Current[2] # 0)
    <2>1. CASE msg_ = <<>>
      BY <2>1 DEF Current, HeartbeatLine, PortLines
    <2>2. CASE msg_ # <<>>
      <3>1. msg_ \in Lines
        BY <2>2 DEF Inv, TypeOK
      <3> QED
        BY <2>2, <3>1 DEF Current, Lines, PortLines
    <2> QED
      BY <2>1, <2>2
  <1>3. port[1] \in PortLines /\ port[2] \in Nat /\ 1 <= port[2]
    BY DEF Inv, PortOK
  <1>4. \A t \in Tasks : Erring(t) => pc[t] = "prefix" /\ port[1] # ErrorLine(t)
    BY <1>1 DEF Inv, LoggersTurn, ErrorsInOneGo, Erring
  <1>5. Unfinished => port[1] = Current
    BY <1>1, <1>4 DEF Inv, WhoseLine
  <1>6. at \in Nat /\ 1 <= at /\ (IF Unfinished THEN port[1] = Current /\ at = port[2] + 1 ELSE at = 1)
    BY <1>3, <1>5 DEF Unfinished
  <1>7. \A t \in Tasks : Current # ErrorLine(t)
    BY <1>2 DEF ErrorLine
  <1>8. Current' = Current
    BY <1>1 DEF Current, HeartbeatLine
  <1> HIDE DEF at, end
  <1>9. TypeOK'
    BY <1>1 DEF Inv, TypeOK
  <1>10. \A u \in Tasks : Asked(u)' /\ Holds(u)'
    BY <1>1 DEF Inv, Asked, Holds, Erring
  <1>11. PortOK' /\ port'[1] = Current /\ port'[2] = at /\ (Unfinished' <=> at # end)
    <2>1. Current[3] = end
      BY DEF end
    <2> QED
      BY <1>1, <1>2, <1>6, <2>1 DEF PortOK, Unfinished, PortLines
  <1>12. WhoseLine' /\ LoggersTurn'
    <2>1. \A t \in Tasks : ErrorLine(t)' = ErrorLine(t)
      BY <1>1 DEF ErrorLine
    <2> QED
      BY <1>1, <1>7, <1>8, <1>11, <2>1 DEF WhoseLine, LoggersTurn
  <1>13. \A u \in Tasks : ErrorsInOneGo(u)'
    <2> SUFFICES ASSUME NEW u \in Tasks
                 PROVE  ErrorsInOneGo(u)'
      OBVIOUS
    <2>1. ~(port'[1][1] = u /\ port'[1][2] = 0)
      BY <1>2, <1>11
    <2>2. pc'[u] # "text"
      BY <1>1, <1>4 DEF Erring
    <2>3. port'[1] # ErrorLine(u)'
      BY <1>1, <1>7, <1>11 DEF ErrorLine
    <2> QED
      BY <2>1, <2>2, <2>3 DEF ErrorsInOneGo
  <1>14. Whole
    BY <1>1, <1>6 DEF Whole, Unfinished
  <1> QED
    BY <1>9, <1>10, <1>11, <1>12, <1>13, <1>14 DEF Inv

-------------------------------------------------------------------------------
LEMMA InvInit ==
  ASSUME Init
  PROVE  Inv
  <1> USE Names DEF Init
  <1>1. TypeOK
    BY DEF TypeOK
  <1>2. PortOK /\ ~Unfinished /\ port[1][1] = Logger
    BY DEF PortOK, PortLines, Unfinished, HeartbeatLine
  <1>3. \A t \in Tasks : Asked(t) /\ Holds(t) /\ ErrorsInOneGo(t)
    BY <1>2 DEF Asked, Holds, ErrorsInOneGo, Erring
  <1> QED
    BY <1>1, <1>2, <1>3 DEF Inv, WhoseLine, LoggersTurn

LEMMA InvNext ==
  ASSUME Inv, [Next]_vars
  PROVE  Inv' /\ Whole
  <1>1. CASE UNCHANGED vars
    <2>1. Inv'
      BY <1>1 DEF Inv, TypeOK, Asked, Holds, Erring, PortOK, WhoseLine, Unfinished, LoggersTurn,
         ErrorsInOneGo, ErrorLine, Current, Lines, PortLines, vars, callerVars, loggerVars
    <2> QED
      BY <1>1, <2>1 DEF Whole, vars
  <1>2. ASSUME NEW t \in Tasks, log(t) \/ error(t) \/ send(t)
        PROVE  Inv' /\ Whole
    BY <1>2, LogStep, ErrorStep, TakeMutexStep, MutexTimesOutStep, FindRoomStep, WriteStep,
       WriteTimesOutStep DEF send
  <1>3. ASSUME NEW t \in Tasks, TakeErrorMutex(t) \/ TakePort(t) \/ SendPrefix(t) \/ SendText(t)
        PROVE  Inv' /\ Whole
    BY <1>3, TakeErrorMutexStep, TakePortStep, SendPrefixStep, SendTextStep
  <1>4. CASE func
    BY <1>4, ReadStep, LoggerTakesPortStep, LoggerSendsStep DEF func
  <1>5. ASSUME NEW t \in Tasks, critical(t)
        PROVE  UNCHANGED vars
    BY <1>5 DEF critical
  <1> QED
    BY <1>1, <1>2, <1>3, <1>4, <1>5 DEF Next, caller

\* The inductive invariant (who holds which mutex, and whose characters the port
\* sends) holds in every reachable state.
THEOREM InvAlways == Spec => []Inv
  BY InvInit, InvNext, PTL DEF Spec

\* No line is longer than the buffer the logger reads it to, whatever lengths
\* the callers format, and no more lines wait than the message buffer takes.
THEOREM LinesFitAlways == Spec => []TypeOK
  <1>1. Inv => TypeOK
    BY DEF Inv
  <1> QED
    BY <1>1, InvAlways, PTL

\* A line that was begun on the trace port is finished before another begins,
\* for any number of tasks that log or end with an error: the mutexes and the
\* priorities suffice, although an error gives the port away in its middle.
THEOREM LinesStayWhole == Spec => LinesWhole
  <1>1. Inv /\ [Next]_vars => [port' # port =>
          IF port[2] < port[1][3] THEN port' = <<port[1], port[2] + 1>> ELSE port'[2] = 1]_vars
    BY InvNext DEF Whole
  <1> QED
    BY <1>1, InvAlways, PTL DEF Spec, LinesWhole

-------------------------------------------------------------------------------
(* The abstract channel *)

LEMMA WriteAccepts ==
  ASSUME Inv, NEW t \in Tasks, WriteMsgbuf(t)
  PROVE  Channel!Accept
  <1>1. msgbuf' = Append(msgbuf, Line(t)) /\ logged' = logged
    BY DEF WriteMsgbuf, loggerVars
  <1>2. msgbuf' \in Seq(Lines) /\ msgbuf \in Seq(Lines)
    BY WriteStep DEF Inv, TypeOK
  <1>3. Len(msgbuf') = Len(msgbuf) + 1 /\ Len(msgbuf) \in Nat
    BY <1>1, <1>2, AppendProperties, LenProperties
  <1>4. msgbuf = SubSeq(msgbuf', 1, Len(msgbuf))
    <2> HIDE DEF Lines, Line
    <2> QED
      BY <1>1, <1>2
  <1> QED
    BY <1>1, <1>2, <1>3, <1>4 DEF Channel!Accept

LEMMA ReadDelivers ==
  ASSUME Inv, ReadMsgbuf
  PROVE  Channel!Deliver
  <1>1. msgbuf # <<>> /\ msgbuf' = Tail(msgbuf) /\ logged' = Append(logged, Head(msgbuf))
    BY DEF ReadMsgbuf
  <1>2. msgbuf \in Seq(Lines) /\ logged \in Seq(Lines)
    BY DEF Inv, TypeOK
  <1>3. 1 \in 1 .. Len(msgbuf)
    BY <1>1, <1>2, EmptySeq, LenProperties
  <1>4. SubSeq(msgbuf, 1, 1) = <<Head(msgbuf)>>
    <2>1. SubSeq(msgbuf, 1, 1) = SubSeq(msgbuf, 1, 1 - 1) \o <<msgbuf[1]>>
      BY <1>2, <1>3, SubSeqRecursiveSecond
    <2>2. SubSeq(msgbuf, 1, 1 - 1) = <<>>
      BY SubSeqEmpty
    <2>3. <<msgbuf[1]>> \in Seq(Lines) /\ Head(msgbuf) = msgbuf[1]
      BY <1>2, <1>3 DEF Lines
    <2>4. <<>> \o <<msgbuf[1]>> = <<msgbuf[1]>>
      BY <2>3, ConcatEmptySeq
    <2> QED
      BY <2>1, <2>2, <2>3, <2>4
  <1>5. Tail(msgbuf) = SubSeq(msgbuf, 2, Len(msgbuf))
    BY <1>1, <1>2, TailIsSubSeq
  <1>6. Append(logged, Head(msgbuf)) = logged \o <<Head(msgbuf)>>
    BY <1>1, <1>2, HeadTailProperties, AppendIsConcat
  <1> QED
    BY <1>1, <1>3, <1>4, <1>5, <1>6 DEF Channel!Deliver

LEMMA ChannelStep ==
  ASSUME Inv, [Next]_vars
  PROVE  [Channel!Accept \/ Channel!Deliver]_<<msgbuf, logged>>
  <1>1. CASE UNCHANGED vars
    BY <1>1 DEF vars, loggerVars
  <1>2. ASSUME NEW t \in Tasks, log(t) \/ error(t) \/ send(t)
        PROVE  Channel!Accept \/ UNCHANGED <<msgbuf, logged>>
    BY <1>2, WriteAccepts DEF send, log, error, TakeMutex, MutexTimesOut, FindRoom, WriteTimesOut,
       loggerVars
  <1>3. ASSUME NEW t \in Tasks, TakeErrorMutex(t) \/ TakePort(t) \/ SendPrefix(t) \/ SendText(t)
        PROVE  UNCHANGED <<msgbuf, logged>>
    BY <1>3 DEF TakeErrorMutex, TakePort, SendPrefix, SendText, loggerVars
  <1>4. CASE func
    BY <1>4, ReadDelivers DEF func, ReadTimesOut, LoggerTakesPort, LoggerSends, loggerVars
  <1>5. ASSUME NEW t \in Tasks, critical(t)
        PROVE  UNCHANGED vars
    BY <1>5 DEF critical
  <1> QED
    BY <1>1, <1>2, <1>3, <1>4, <1>5 DEF Next, caller

\* The logger implements the channel of ByteChannel: what send takes is sent
\* once and in the order it was taken, whatever the tasks do.
THEOREM LoggerIsAChannel == Spec => ImplementsChannel
  <1>1. Init => Channel!ChannelInit
    BY DEF Init, Channel!ChannelInit
  <1>2. Inv /\ [Next]_vars => [Channel!Accept \/ Channel!Deliver]_<<msgbuf, logged>>
    BY ChannelStep
  <1> QED
    BY <1>1, <1>2, InvAlways, PTL
       DEF Spec, ImplementsChannel, Channel!ChannelSpec, Channel!channelVars
===============================================================================
