------------------------------ MODULE ItmLogger ------------------------------
(***************************************************************************)
(* Logging to the trace port (common/src/itm_logger_task.cpp and           *)
(* itm_logging.cpp).  Tasks hand lines to the logger task through a        *)
(* message buffer, under a mutex and with a timeout; the logger, of the    *)
(* lowest priority, sends them character by character.  A task that meets  *)
(* an error sends its line directly and stops in critical().               *)
(*                                                                         *)
(* The callers have one priority above the logger's, and mutexes have      *)
(* priority inheritance.  A line takes milliseconds to send and the wait   *)
(* for the port ends after a second, so that wait is taken to succeed.     *)
(* Bounds of the model: MaxCalls; msgbuf counts messages.                  *)
(***************************************************************************)
EXTENDS Naturals, Sequences

CONSTANTS
  Tasks,        \* tasks that log
  Logger,       \* the logger task
  Nobody,
  MaxCalls,     \* calls of each task
  BufLen,       \* sizeof(LogMsg::buf)
  MsgBufLen,    \* messages that fit in msgbuf
  Formatted,    \* lengths that a formatted text may have
  PrefixLen,    \* of "ERROR: "
  ErrorLens     \* lengths of the texts of errors

ASSUME LoggerAssumption == Logger \notin Tasks /\ Nobody \notin Tasks \union {Logger}
ASSUME LengthAssumption ==
  /\ {BufLen, MsgBufLen, PrefixLen} \subseteq Nat \ {0}
  /\ BufLen % 3 = 0
  /\ MaxCalls \in Nat
  /\ Formatted \subseteq Nat
  /\ ErrorLens \subseteq 1 .. BufLen

VARIABLES
  enabled,      \* a debugger listens to the trace port
  pc,           \* what each task does: idle, lock, write, copy, error, prefix, text, halted
  calls,        \* how often it has called
  msgLen,       \* LogMsg::len of each task
  mutex,        \* holders of the logger's mutex, of that of error(),
  errorMutex,   \* and of that of itmSendBuf
  itmMutex,
  msgbuf,       \* lines <<task, call, length>>
  doing,        \* the logger: read, send
  msg_,         \* its line, or <<>> for the heartbeat
  port,         \* last character sent: its line, and its place in it
  logged        \* lines the logger has sent or is sending

callerVars == <<pc, calls, msgLen, mutex, errorMutex>>
loggerVars == <<doing, msg_, logged>>
vars == <<enabled, callerVars, loggerVars, itmMutex, msgbuf, port>>

Line(t) == <<t, calls[t], msgLen[t]>>
HeartbeatLine == <<Logger, 0, 1>>

Init ==
  /\ enabled \in BOOLEAN
  /\ pc = [t \in Tasks |-> "idle"]
  /\ calls = [t \in Tasks |-> 0]
  /\ msgLen = [t \in Tasks |-> 0]
  /\ mutex = Nobody /\ errorMutex = Nobody /\ itmMutex = Nobody
  /\ msgbuf = <<>>
  /\ doing = "read" /\ msg_ = <<>>
  /\ port = <<HeartbeatLine, 1>>
  /\ logged = <<>>

-------------------------------------------------------------------------------
(* Lengths *)

Smaller(a, b) == IF a <= b THEN a ELSE b

addLinebreak(len) == Smaller(len, BufLen - 1) + 1

itmMaxHexBytes == (BufLen - 1) \div 3

\* A blank and two digits per byte, a line break and a null character.
toHex(len) == 3 * Smaller(itmMaxHexBytes, len) + 2

\* What log, logln and logPacketBase, and logHex leave in LogMsg::len.  A text
\* of log has no clamp: the callers' texts are shorter than the buffer.
LogLengths ==
  {n \in Formatted : 0 < n /\ n < BufLen}
    \union {addLinebreak(n) : n \in Formatted}
    \union {toHex(Smaller(n, BufLen)) : n \in Formatted}

-------------------------------------------------------------------------------
(* Priorities *)

Blocked(t) ==
  \/ pc[t] = "lock" /\ mutex # Nobody
  \/ pc[t] = "write" /\ Len(msgbuf) = MsgBufLen
  \/ pc[t] = "error" /\ errorMutex # Nobody
  \/ pc[t] \in {"prefix", "text"} /\ itmMutex \notin {Nobody, t}

\* The logger runs when no task can, or when it holds what one waits for.
LoggerRuns ==
  \/ \A t \in Tasks : pc[t] = "idle" \/ Blocked(t)
  \/ itmMutex = Logger /\ \E t \in Tasks : pc[t] \in {"prefix", "text"}

-------------------------------------------------------------------------------
(* log, logln, logHex: format, then send *)

log(t) ==
  /\ pc[t] = "idle" /\ calls[t] < MaxCalls
  /\ calls' = [calls EXCEPT ![t] = @ + 1]
  /\ IF enabled
     THEN /\ \E n \in LogLengths : msgLen' = [msgLen EXCEPT ![t] = n]
          /\ pc' = [pc EXCEPT ![t] = "lock"]
     ELSE UNCHANGED <<msgLen, pc>>
  /\ UNCHANGED <<enabled, mutex, errorMutex, itmMutex, msgbuf, loggerVars, port>>

TakeMutex(t) ==
  /\ pc[t] = "lock" /\ mutex = Nobody
  /\ mutex' = t
  /\ pc' = [pc EXCEPT ![t] = "write"]
  /\ UNCHANGED <<enabled, calls, msgLen, errorMutex, itmMutex, msgbuf, loggerVars, port>>

\* The message is dropped.
MutexTimesOut(t) ==
  /\ pc[t] = "lock" /\ mutex # Nobody
  /\ pc' = [pc EXCEPT ![t] = "idle"]
  /\ UNCHANGED <<enabled, calls, msgLen, mutex, errorMutex, itmMutex, msgbuf, loggerVars,
                 port>>

\* msgbuf.write, meant for one writer, finds room first and copies then.
FindRoom(t) ==
  /\ pc[t] = "write" /\ Len(msgbuf) < MsgBufLen
  /\ pc' = [pc EXCEPT ![t] = "copy"]
  /\ UNCHANGED <<enabled, calls, msgLen, mutex, errorMutex, itmMutex, msgbuf, loggerVars,
                 port>>

WriteMsgbuf(t) ==
  /\ pc[t] = "copy"
  /\ msgbuf' = Append(msgbuf, Line(t))
  /\ mutex' = Nobody
  /\ pc' = [pc EXCEPT ![t] = "idle"]
  /\ UNCHANGED <<enabled, calls, msgLen, errorMutex, itmMutex, loggerVars, port>>

\* The message is dropped, and the scoped lock ends.
WriteTimesOut(t) ==
  /\ pc[t] = "write" /\ Len(msgbuf) = MsgBufLen
  /\ mutex' = Nobody
  /\ pc' = [pc EXCEPT ![t] = "idle"]
  /\ UNCHANGED <<enabled, calls, msgLen, errorMutex, itmMutex, msgbuf, loggerVars, port>>

send(t) == \/ TakeMutex(t) \/ MutexTimesOut(t)
           \/ FindRoom(t) \/ WriteMsgbuf(t) \/ WriteTimesOut(t)

-------------------------------------------------------------------------------
(* itmSendBuf: under its mutex, one character after the other *)

Take(p) ==
  /\ itmMutex = Nobody
  /\ itmMutex' = p

\* Mutant: the mutex is kept behind the last character.
SendCharLocked(p, line, at, last) ==
  /\ itmMutex = p
  /\ at <= last
  /\ port' = <<line, at>>
  /\ itmMutex' = p

\* The next character of a line; the mutex is given back behind the last one.
SendChar(p, line, at, last) ==
  /\ itmMutex = p
  /\ at <= last
  /\ port' = <<line, at>>
  /\ itmMutex' = IF at = last THEN Nobody ELSE p

-------------------------------------------------------------------------------
(* error: its line goes to the port directly, in two parts *)

ErrorLine(t) == <<t, 0, PrefixLen + msgLen[t]>>

\* How much of the line is on the port.
Sent(t) == IF port[1] = ErrorLine(t) THEN port[2] ELSE 0

error(t) ==
  /\ pc[t] = "idle" /\ calls[t] < MaxCalls
  /\ calls' = [calls EXCEPT ![t] = @ + 1]
  /\ IF enabled
     THEN /\ \E n \in ErrorLens : msgLen' = [msgLen EXCEPT ![t] = n]
          /\ pc' = [pc EXCEPT ![t] = "error"]
     ELSE pc' = [pc EXCEPT ![t] = "halted"] /\ UNCHANGED msgLen
  /\ UNCHANGED <<enabled, mutex, errorMutex, itmMutex, msgbuf, loggerVars, port>>

\* Mutant: nothing keeps two errors apart.
TakeErrorMutexUnlocked(t) ==
  /\ pc[t] = "error"
  /\ pc' = [pc EXCEPT ![t] = "prefix"]
  /\ UNCHANGED <<enabled, calls, msgLen, mutex, errorMutex, itmMutex, msgbuf, loggerVars,
                 port>>

TakeErrorMutex(t) ==
  /\ pc[t] = "error" /\ errorMutex = Nobody
  /\ errorMutex' = t
  /\ pc' = [pc EXCEPT ![t] = "prefix"]
  /\ UNCHANGED <<enabled, calls, msgLen, mutex, itmMutex, msgbuf, loggerVars, port>>

TakePort(t) ==
  /\ pc[t] \in {"prefix", "text"}
  /\ Take(t)
  /\ UNCHANGED <<enabled, callerVars, msgbuf, loggerVars, port>>

SendPrefix(t) ==
  /\ pc[t] = "prefix"
  /\ SendChar(t, ErrorLine(t), Sent(t) + 1, PrefixLen)
  /\ pc' = IF Sent(t) + 1 = PrefixLen THEN [pc EXCEPT ![t] = "text"] ELSE pc
  /\ UNCHANGED <<enabled, calls, msgLen, mutex, errorMutex, msgbuf, loggerVars>>

\* Behind the text the scope of the lock ends, and the task stops in critical().
SendText(t) ==
  /\ pc[t] = "text"
  /\ SendChar(t, ErrorLine(t), Sent(t) + 1, PrefixLen + msgLen[t])
  /\ IF Sent(t) + 1 = PrefixLen + msgLen[t]
     THEN pc' = [pc EXCEPT ![t] = "halted"] /\ errorMutex' = Nobody
     ELSE UNCHANGED <<pc, errorMutex>>
  /\ UNCHANGED <<enabled, calls, msgLen, mutex, msgbuf, loggerVars>>

critical(t) == pc[t] = "halted" /\ UNCHANGED vars

caller(t) ==
  \/ send(t)
  \/ TakeErrorMutex(t) \/ TakePort(t) \/ SendPrefix(t) \/ SendText(t)

-------------------------------------------------------------------------------
(* ItmLogger::func *)

\* What the logger sends: its line, or the heartbeat.
Current == IF msg_ = <<>> THEN HeartbeatLine ELSE msg_

\* Mutant: a line is copied from the buffer and left there.
ReadMsgbufKept ==
  /\ doing = "read" /\ msgbuf # <<>>
  /\ msg_' = Head(msgbuf)
  /\ logged' = Append(logged, Head(msgbuf))
  /\ doing' = "send"
  /\ UNCHANGED <<enabled, callerVars, itmMutex, msgbuf, port>>

ReadMsgbuf ==
  /\ doing = "read" /\ msgbuf # <<>>
  /\ msg_' = Head(msgbuf)
  /\ msgbuf' = Tail(msgbuf)
  /\ logged' = Append(logged, Head(msgbuf))
  /\ doing' = "send"
  /\ UNCHANGED <<enabled, callerVars, itmMutex, port>>

ReadTimesOut ==
  /\ doing = "read" /\ msgbuf = <<>>
  /\ msg_' = <<>>
  /\ doing' = IF enabled THEN "send" ELSE "read"
  /\ UNCHANGED <<enabled, callerVars, itmMutex, msgbuf, logged, port>>

LoggerTakesPort ==
  /\ doing = "send"
  /\ Take(Logger)
  /\ UNCHANGED <<enabled, callerVars, loggerVars, msgbuf, port>>

LoggerSends ==
  LET at == IF port[1] = Current /\ port[2] < Current[3] THEN port[2] + 1 ELSE 1 IN
  /\ doing = "send"
  /\ SendChar(Logger, Current, at, Current[3])
  /\ doing' = IF at = Current[3] THEN "read" ELSE "send"
  /\ UNCHANGED <<enabled, callerVars, msg_, logged, msgbuf>>

func == /\ LoggerRuns
        /\ ReadMsgbuf \/ ReadTimesOut \/ LoggerTakesPort \/ LoggerSends

Next ==
  \/ \E t \in Tasks : log(t) \/ error(t) \/ caller(t) \/ critical(t)
  \/ func

\* A task that has called goes on; the logger goes on when its priority lets it.
Fairness == (\A t \in Tasks : WF_vars(caller(t))) /\ WF_vars(func)

Spec == Init /\ [][Next]_vars /\ Fairness

-------------------------------------------------------------------------------
(* Properties *)

Lines == Tasks \X (1 .. MaxCalls) \X (1 .. BufLen)

\* No line is longer than the buffer the logger reads it to, which would stop it.
TypeOK ==
  /\ enabled \in BOOLEAN
  /\ pc \in [Tasks -> {"idle", "lock", "write", "copy", "error", "prefix", "text", "halted"}]
  /\ calls \in [Tasks -> 0 .. MaxCalls]
  /\ msgLen \in [Tasks -> 0 .. BufLen]
  /\ {mutex, errorMutex} \subseteq Tasks \union {Nobody}
  /\ itmMutex \in Tasks \union {Logger, Nobody}
  /\ \A t \in Tasks : mutex = t <=> pc[t] \in {"write", "copy"}
  /\ msgbuf \in Seq(Lines) /\ Len(msgbuf) <= MsgBufLen
  /\ doing \in {"read", "send"}
  /\ msg_ \in Lines \union {<<>>}
  /\ logged \in Seq(Lines)

\* "This section is mutex protected so we don't interleave partial prints"
\* (itm_logging.cpp), also not between the two calls that send an error: a line
\* that was begun on the port is finished before another one begins.
LinesWhole ==
  [][port' # port =>
       IF port[2] < port[1][3] THEN port' = <<port[1], port[2] + 1>> ELSE port'[2] = 1]_vars

\* What send takes is sent once and in the order it was taken; only what send
\* itself refuses is lost.
Channel == INSTANCE ByteChannel WITH Item <- Lines, onTheWay <- msgbuf, delivered <- logged
ImplementsChannel == Channel!ChannelSpec

\* No call waits for ever, an error ends in critical(), and unless a task has
\* ended there, which takes the processor from the logger, all lines get out.
LoggingEnds ==
  /\ <>[](\A t \in Tasks : pc[t] \in {"idle", "halted"})
  /\ <>[](msgbuf = <<>>) \/ <>(\E t \in Tasks : pc[t] = "halted")
===============================================================================
