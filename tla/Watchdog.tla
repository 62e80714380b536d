------------------------------ MODULE Watchdog ------------------------------
(***************************************************************************)
(* The watchdog task (common/src/watchdog_task.cpp) and the tasks that     *)
(* register with it and kick it.                                           *)
(*                                                                         *)
(* One event-group bit stands for each registered task.  The watchdog      *)
(* waits for the bits of all registered tasks; the FreeRTOS event group    *)
(* clears them when the last one is set, and clears none of them when the  *)
(* wait times out.  The watchdog has the highest priority, so no task and  *)
(* no tick runs while it is ready.                                         *)
(*                                                                         *)
(* Bounds of the model: Horizon (ticks) and MaxStalls (tasks that stall at *)
(* one time).                                                              *)
(***************************************************************************)
EXTENDS Integers, FiniteSets

CONSTANTS
  Tasks,           \* the monitored tasks
  maxTasks,        \* watchdog_task.h: the bits of the event group
  Timeout,         \* watchdogTimeoutTicks
  Gap,             \* the most ticks between two kicks of a task in good health
  DelayTicks,      \* the wait of the watchdog before the first registration
  TickMod,         \* ticks are unsigned: differences are taken modulo TickMod
  MaxStalls,       \* how many tasks may be stalled at one time
  AtomicRegister,  \* FALSE: one registerTask may preempt another
  OutputMayBlock,  \* TRUE: a report may find no room and wait for it
  Horizon          \* the last tick of a behaviour

ASSUME TasksAssumption == IsFiniteSet(Tasks) /\ Cardinality(Tasks) <= maxTasks
ASSUME TicksAssumption ==
  /\ maxTasks \in Nat \ {0}
  /\ Timeout \in Nat \ {0}
  /\ Gap \in Nat \ {0}
  /\ DelayTicks \in Nat \ {0}
  /\ Horizon \in Nat
  /\ TickMod \in Nat
  /\ TickMod > Horizon
ASSUME SwitchAssumption ==
  /\ MaxStalls \in Nat
  /\ AtomicRegister \in BOOLEAN
  /\ OutputMayBlock \in BOOLEAN

Ids == 0 .. maxTasks - 1

VARIABLES
  now,           \* xTaskGetTickCount()
  numTasks,      \* tasks that have registered
  lastKickTick,  \* tasks[id].lastKickTick
  bits,          \* the event group, as the set of ids whose bit is 1
  pc,            \* each task: start, registering, running, kicking or stalled
  idOf,          \* the id each task got from registerTask
  wd,            \* the watchdog: check, delay, wait, report, packet or log
  wakeAt,        \* the tick at which the delay or the wait of the watchdog ends
  expected,      \* expectedRunningTasks
  stalled,       \* stalled, the ids still to be reported
  reportNow,     \* now, the tick count read before the reports (0 outside them)
  ticks,         \* unresponsiveTicks of the packet being sent (0 outside a report)
  waiting,       \* the write of the report found no room and is tried again
  setAt,         \* history: the tick at which a task last set its bit
  reported,      \* history: the tasks reported since they last set their bit
  calm           \* history: no two tasks have been stalled together, and no
                 \* report has found an output full

taskVars == <<numTasks, lastKickTick, pc, idOf, setAt>>
wdVars == <<wakeAt, expected, stalled, reportNow, ticks, waiting, reported>>
vars == <<now, bits, wd, calm, taskVars, wdVars>>

Registered == {t \in Tasks : pc[t] \notin {"start", "registering"}}
Stalled == {t \in Tasks : pc[t] = "stalled"}

Init ==
  /\ now = 0 /\ numTasks = 0 /\ bits = {}
  /\ lastKickTick = [id \in Ids |-> 0]
  /\ pc = [t \in Tasks |-> "start"]
  /\ idOf = [t \in Tasks |-> 0]
  /\ wd = "check"
  /\ wakeAt = 0 /\ expected = {} /\ stalled = {} /\ reportNow = 0 /\ ticks = 0
  /\ waiting = FALSE
  /\ setAt = [t \in Tasks |-> 0]
  /\ reported = {} /\ calm = TRUE

----------------------------------------------------------------------------
(* The scheduler and the clock.                                             *)

\* The watchdog can run, and so no other task does: it is between two waits,
\* its wait is over, or it reports and has not found an output full.
Ready ==
  \/ wd \in {"check", "report"}
  \/ wd \in {"delay", "wait"} /\ now >= wakeAt
  \/ wd \in {"packet", "log"} /\ ~waiting

\* Tasks in good health kick in time; see TaskUtilities, which blocks for
\* suggestedTimeoutTicks at most and kicks around every wait.
Tick ==
  /\ ~Ready
  /\ now < Horizon
  /\ \A t \in Tasks : pc[t] \in {"running", "kicking"} => now < setAt[t] + Gap
  /\ now' = now + 1
  /\ UNCHANGED <<calm, bits, wd, taskVars, wdVars>>

----------------------------------------------------------------------------
(* The monitored tasks.                                                     *)

\* registerTask, first half: the id is the count of tasks.
RegisterReads(t) ==
  /\ ~Ready
  /\ pc[t] = "start"
  /\ AtomicRegister => \A u \in Tasks : pc[u] # "registering"
  /\ numTasks < maxTasks
  /\ idOf' = [idOf EXCEPT ![t] = numTasks]
  /\ pc' = [pc EXCEPT ![t] = "registering"]
  /\ UNCHANGED <<now, calm, bits, wd, numTasks, lastKickTick, setAt, wdVars>>

\* registerTask, second half: the count grows, the task is named and counts as
\* kicked.  When another task has registered in between, the compiled increment
\* has kept the count it read or reads it again.
RegisterStores(t) ==
  /\ ~Ready
  /\ pc[t] = "registering"
  /\ numTasks' \in {idOf[t] + 1, numTasks + 1}
  /\ lastKickTick' = [lastKickTick EXCEPT ![idOf[t]] = now]
  /\ pc' = [pc EXCEPT ![t] = "running"]
  /\ setAt' = [setAt EXCEPT ![t] = now]
  /\ UNCHANGED <<now, calm, bits, wd, idOf, wdVars>>

\* The condition of the wait: all bits (xWaitForAllBits), not any of them.
AnySet(running) == expected \intersect running # {}
AllSet(running) == expected \subseteq running

\* What the watchdog does with the bits its wait returned.
AfterWait(running) ==
  /\ stalled' = expected \ running
  /\ IF stalled' = {}
     THEN wd' = "check" /\ UNCHANGED reportNow
     ELSE wd' = "report" /\ reportNow' = now

\* xEventGroupSetBits: the setter itself clears the awaited bits and releases
\* the watchdog when the last of them is set.
SetBits(id) ==
  LET now_set == bits \union {id}
  IN IF wd = "wait" /\ AllSet(now_set)
     THEN bits' = now_set \ expected /\ AfterWait(now_set)
     ELSE bits' = now_set /\ UNCHANGED <<wd, stalled, reportNow>>

\* kick, first half: the bit.  The watchdog may run before the second half.
\* A kick is also what ends a stall.
KickSets(t) ==
  /\ ~Ready
  /\ pc[t] \in {"running", "stalled"}
  /\ SetBits(idOf[t])
  /\ pc' = [pc EXCEPT ![t] = "kicking"]
  /\ setAt' = [setAt EXCEPT ![t] = now]
  /\ reported' = reported \ {t}
  /\ UNCHANGED <<now, calm, numTasks, lastKickTick, idOf>>
  /\ UNCHANGED <<wakeAt, expected, ticks, waiting>>

KickStoresNothing(t) ==
  /\ ~Ready
  /\ pc[t] = "kicking"
  /\ pc' = [pc EXCEPT ![t] = "running"]
  /\ UNCHANGED <<now, calm, bits, wd, numTasks, lastKickTick, idOf, setAt, wdVars>>
\* kick, second half: the tick of the kick.
KickStores(t) ==
  /\ ~Ready
  /\ pc[t] = "kicking"
  /\ lastKickTick' = [lastKickTick EXCEPT ![idOf[t]] = now]
  /\ pc' = [pc EXCEPT ![t] = "running"]
  /\ UNCHANGED <<now, calm, bits, wd, numTasks, idOf, setAt, wdVars>>

Stall(t) ==
  /\ ~Ready
  /\ pc[t] = "running"
  /\ Cardinality(Stalled) < MaxStalls
  /\ pc' = [pc EXCEPT ![t] = "stalled"]
  /\ calm' = (calm /\ Stalled = {})
  /\ UNCHANGED <<now, bits, wd, numTasks, lastKickTick, idOf, setAt, wdVars>>

----------------------------------------------------------------------------
(* The watchdog's loop.                                                     *)

CheckEmpty ==
  /\ wd = "check"
  /\ numTasks = 0
  /\ wd' = "delay"
  /\ wakeAt' = now + DelayTicks
  /\ UNCHANGED <<now, calm, bits, taskVars, expected, stalled, reportNow, ticks, waiting, reported>>

DelayEnds ==
  /\ wd = "delay"
  /\ now >= wakeAt
  /\ wd' = "check"
  /\ UNCHANGED <<now, calm, bits, taskVars, wdVars>>

\* expectedRunningTasks: one bit for each task registered so far.
ExpectedTasksMissesLast == 0 .. numTasks - 2
ExpectedTasks == 0 .. numTasks - 1

\* xEventGroupWaitBits: returns at once, and clears, when all bits are set.
WaitBegins ==
  /\ wd = "check"
  /\ numTasks # 0
  /\ expected' = ExpectedTasks
  /\ IF ExpectedTasks \subseteq bits
     THEN bits' = bits \ ExpectedTasks /\ UNCHANGED <<wd, wakeAt>>
     ELSE wd' = "wait" /\ wakeAt' = now + Timeout /\ UNCHANGED bits
  /\ UNCHANGED <<now, calm, taskVars, stalled, reportNow, ticks, waiting, reported>>

\* The wait times out: the bits that are set stay set.
WaitTimesOut ==
  /\ wd = "wait"
  /\ now >= wakeAt
  /\ AfterWait(bits)
  /\ UNCHANGED <<now, calm, bits, taskVars, wakeAt, expected, ticks, waiting, reported>>

\* The lowest id still to be reported.
Current == CHOOSE id \in stalled : \A other \in stalled : id <= other

FormReport ==
  /\ wd = "report"
  /\ stalled # {}
  /\ ticks' = (reportNow - lastKickTick[Current]) % TickMod
  /\ wd' = "packet"
  /\ UNCHANGED <<now, calm, bits, taskVars, wakeAt, expected, stalled, reportNow>>
  /\ UNCHANGED <<waiting, reported>>

\* The output has no room: the write waits, times out and is tried again, and
\* meanwhile the other tasks run.
NoRoom ==
  /\ wd \in {"packet", "log"}
  /\ ~waiting
  /\ OutputMayBlock
  /\ waiting' = TRUE /\ calm' = FALSE
  /\ UNCHANGED <<now, bits, wd, taskVars>>
  /\ UNCHANGED <<wakeAt, expected, stalled, reportNow, ticks, reported>>

\* packetOutput->write is tried until there is room.
SendPacket ==
  /\ wd = "packet"
  /\ wd' = "log"
  /\ waiting' = FALSE
  /\ reported' = reported \union
       {t \in Registered : idOf[t] = Current /\ setAt[t] < reportNow}
  /\ UNCHANGED <<now, calm, bits, taskVars, wakeAt, expected, stalled, reportNow, ticks>>

\* logPacketBase is tried until there is room; then the next id.
SendLog ==
  /\ wd = "log"
  /\ waiting' = FALSE
  /\ stalled' = stalled \ {Current}
  /\ ticks' = 0
  /\ IF stalled' = {}
     THEN wd' = "check" /\ reportNow' = 0
     ELSE wd' = "report" /\ UNCHANGED reportNow
  /\ UNCHANGED <<now, calm, bits, taskVars, wakeAt, expected, reported>>

func ==
  \/ CheckEmpty \/ DelayEnds \/ WaitBegins \/ WaitTimesOut
  \/ FormReport \/ NoRoom \/ SendPacket \/ SendLog

Next ==
  \/ Tick
  \/ func
  \/ \E t \in Tasks :
       \/ RegisterReads(t) \/ RegisterStores(t)
       \/ KickSets(t) \/ KickStores(t)
       \/ Stall(t)

Spec == Init /\ [][Next]_vars

----------------------------------------------------------------------------
(* Properties.                                                              *)

TypeOK ==
  /\ now \in 0 .. Horizon
  /\ numTasks \in 0 .. maxTasks
  /\ lastKickTick \in [Ids -> 0 .. Horizon]
  /\ bits \subseteq Ids
  /\ pc \in [Tasks -> {"start", "registering", "running", "kicking", "stalled"}]
  /\ idOf \in [Tasks -> Ids]
  /\ wd \in {"check", "delay", "wait", "report", "packet", "log"}
  /\ wakeAt \in Nat
  /\ expected \subseteq Ids
  /\ stalled \subseteq expected
  /\ wd \in {"report", "packet", "log"} => stalled # {}
  /\ reportNow \in 0 .. now
  /\ ticks \in 0 .. TickMod - 1
  /\ waiting \in BOOLEAN /\ calm \in BOOLEAN
  /\ waiting => ~calm /\ wd \in {"packet", "log"}
  /\ setAt \in [Tasks -> 0 .. now]
  /\ reported \subseteq Registered

\* An id is chosen for a report (func, after its wait) only if it belongs to a task
\* that has set no bit for a whole timeout: a kick that falls between two
\* waits, while reports are written or before the wait began is never lost.
NoFalseAlarm ==
  [][\A id \in stalled' \ stalled :
       \E t \in Registered : idOf[t] = id /\ now - setAt[t] >= Timeout]_vars

\* A task that sets no bit for two timeouts has been reported (by func).  Its
\* last bit may outlive the window it was set in, when that window does not
\* expect the task yet or times out for another one; the tasks in good health
\* then clear it within a gap, and the window after that one misses it.
StallReportedInTime ==
  \A t \in Registered :
    now - setAt[t] > 2 * Timeout => t \in reported

\* The same while no two tasks have been stalled together and every report has
\* found room: two tasks hide each other's stall, and a report that waits for
\* room holds up the detection of the next stall (func, its retry loops).
LoneStallReportedInTime == calm => StallReportedInTime

\* A report (func) gives the time since its task set its bit, short of it by a gap
\* at most: neither a kick or a registration that the watchdog interrupts, nor
\* reports that wait for room, leave an older or a newer time behind.  Only a
\* task that has kicked since the count was read, while an earlier report
\* waited, is outside: there the unsigned difference wraps round.
ReportsTellTheTime ==
  [][wd = "report" =>
       \A t \in Registered :
         idOf[t] = Current /\ setAt[t] < reportNow =>
           /\ ticks' <= reportNow - setAt[t]
           /\ ticks' >= reportNow - setAt[t] - Gap]_vars
=============================================================================
