--------------------------- MODULE WatchdogProofs ---------------------------
(***************************************************************************)
(* Theorems about the watchdog for any number of tasks and any horizon, as *)
(* long as no registration preempts another one.                           *)
(*                                                                         *)
(* No false alarm: while the watchdog waits, every id whose bit is missing *)
(* belongs to a registered task that last set its bit before the wait      *)
(* began.  Every stall in time: each state gives every task that is not    *)
(* reported a deadline, which a bit left over from an earlier window moves *)
(* by one gap.                                                             *)
(***************************************************************************)
EXTENDS Watchdog, WellFoundedInduction, TLAPS

\* One task at a time registers, with the next id; every id in use has a task.
Registration ==
  /\ \A t \in Tasks : pc[t] = "registering" => idOf[t] = numTasks /\ numTasks < maxTasks
  /\ \A t, u \in Tasks : pc[t] = "registering" /\ pc[u] = "registering" => t = u
  /\ \A id \in 0 .. numTasks - 1 : \E t \in Registered : idOf[t] = id

\* A missing bit was last set before the wait began.
Window ==
  wd = "wait" =>
    \A id \in expected \ bits :
      \E t \in Registered : idOf[t] = id /\ setAt[t] + Timeout <= wakeAt

\* Nothing is left to report outside the report loop.
Reporting == wd \in {"check", "delay", "wait"} => stalled = {}

Inv == TypeOK /\ Registration /\ Window /\ Reporting

\* Every nonempty set of ids has a least one, so the report loop has a current id.
LEMMA LeastId ==
  ASSUME NEW S \in SUBSET Nat, S # {}
  PROVE  \E id \in S : \A other \in S : id <= other
  <1> DEFINE Less == OpToRel(<, Nat)
  <1>1. IsWellFoundedOn(Less, Nat)
    BY NatLessThanWellFounded
  <1>2. \A x, y \in Nat : x < y => <<x, y>> \in Less
    BY DEF OpToRel
  <1> HIDE DEF Less
  <1>3. \E id \in S : \A other \in S : ~(<<other, id>> \in Less)
    BY <1>1, WFMin
  <1>4. PICK id \in S : \A other \in S : ~(<<other, id>> \in Less)
    BY <1>3
  <1>5. ASSUME NEW other \in S PROVE id <= other
    <2>1. id \in Nat /\ other \in Nat
      OBVIOUS
    <2>2. ~(other < id)
      BY <2>1, <1>2, <1>4
    <2> QED BY <2>1, <2>2
  <1> QED BY <1>5

\* The invariant holds initially.
LEMMA InitInv == Init => Inv
  <1> SUFFICES ASSUME Init PROVE Inv
    OBVIOUS
  <1> USE TicksAssumption DEF Init
  <1>0. /\ calm \in BOOLEAN /\ waiting \in BOOLEAN
        /\ waiting => ~calm /\ wd \in {"packet", "log"}
        /\ reported \subseteq Registered
    OBVIOUS
  <1>1. TypeOK
    BY <1>0 DEF TypeOK, Ids
  <1>2. Registration
    BY DEF Registration, Registered
  <1>3. Window /\ Reporting
    BY DEF Window, Reporting
  <1> QED BY <1>1, <1>2, <1>3 DEF Inv

\* Differences of ticks are taken modulo TickMod.
LEMMA TicksRange == \A d \in Int : d % TickMod \in 0 .. TickMod - 1
  BY TicksAssumption

\* A report that waits for room is counted as one that was held up.
Switches ==
  /\ calm \in BOOLEAN /\ waiting \in BOOLEAN
  /\ waiting => ~calm /\ wd \in {"packet", "log"}

LEMMA FuncSwitches == TypeOK /\ func => Switches'
  <1> SUFFICES ASSUME Switches, func PROVE Switches'
    BY DEF TypeOK, Switches
  <1>1. CASE NoRoom
    BY <1>1 DEF NoRoom, Switches
  <1>2. CASE SendPacket \/ SendLog
    BY <1>2 DEF SendPacket, SendLog, Switches
  <1>3. CASE ~(NoRoom \/ SendPacket \/ SendLog)
    <2>1. calm' = calm /\ waiting' = waiting /\ wd \notin {"packet", "log"}
      BY <1>3 DEF func, CheckEmpty, DelayEnds, WaitBegins, WaitTimesOut, FormReport, wdVars
    <2> QED BY <2>1 DEF Switches
  <1> QED BY <1>1, <1>2, <1>3

LEMMA TaskSwitches ==
  ASSUME TypeOK, NEW t \in Tasks,
         RegisterReads(t) \/ RegisterStores(t) \/ KickSets(t) \/ KickStores(t) \/ Stall(t)
  PROVE  Switches'
  BY DEF TypeOK, Switches, RegisterReads, RegisterStores, KickSets, SetBits, KickStores, Stall,
     wdVars

\* No step of the watchdog's own loop breaks the type invariant.
LEMMA FuncType == Inv /\ func => TypeOK' /\ Reporting'
  <1> SUFFICES ASSUME Inv, func PROVE TypeOK' /\ Reporting'
    OBVIOUS
  <1> USE TicksAssumption DEF Inv, TypeOK, Reporting, Ids, taskVars, wdVars
  <1>0. Switches' /\ reported' \subseteq Registered'
    <2>1. reported' \subseteq Registered'
      BY DEF func, CheckEmpty, DelayEnds, WaitBegins, WaitTimesOut, FormReport, NoRoom, SendPacket,
         SendLog, Registered
    <2> QED BY <2>1, FuncSwitches
  <1>1. CASE CheckEmpty
    BY <1>0, <1>1 DEF CheckEmpty, Switches
  <1>2. CASE DelayEnds
    BY <1>0, <1>2 DEF DelayEnds, Switches
  <1>3. CASE WaitBegins
    <2>1. stalled = {} /\ stalled' = stalled
      BY <1>3 DEF WaitBegins
    <2>2. expected' \subseteq Ids
      BY <1>3 DEF WaitBegins, ExpectedTasks
    <2>3. wd' \in {"check", "wait"} /\ wakeAt' \in Nat
      BY <1>3 DEF WaitBegins
    <2>4. bits' \subseteq bits
      BY <1>3 DEF WaitBegins
    <2> QED BY <1>0, <1>3, <2>1, <2>2, <2>3, <2>4 DEF WaitBegins, Switches
  <1>4. CASE WaitTimesOut
    BY <1>0, <1>4 DEF WaitTimesOut, AfterWait, Switches
  <1>5. CASE FormReport
    <2>1. stalled \in SUBSET Nat /\ stalled \subseteq Ids /\ stalled # {}
      BY <1>5 DEF FormReport
    <2>2. Current \in Ids
      BY <2>1, LeastId DEF Current
    <2>3. reportNow - lastKickTick[Current] \in Int
      BY <2>2
    <2>4. ticks' \in 0 .. TickMod - 1
      <3>1. ticks' = (reportNow - lastKickTick[Current]) % TickMod
        BY <1>5 DEF FormReport
      <3> HIDE TicksAssumption DEF Inv, TypeOK
      <3> QED BY <2>3, <3>1, TicksRange
    <2>5. stalled' # {} /\ stalled' \subseteq expected'
      BY <1>5 DEF FormReport
    <2>6. wd' = "packet" /\ reportNow' \in 0 .. now'
      BY <1>5 DEF FormReport
    <2> QED BY <1>0, <1>5, <2>4, <2>5, <2>6 DEF FormReport, Switches
  <1>6. CASE SendPacket
    BY <1>0, <1>6 DEF SendPacket, Switches
  <1>7. CASE SendLog
    <2>1. ticks' \in 0 .. TickMod - 1 /\ reportNow' \in 0 .. now'
      BY <1>7 DEF SendLog
    <2>2. /\ wd' \in {"check", "report"} /\ stalled' \subseteq expected'
          /\ wd' = "report" => stalled' # {}
          /\ wd' = "check" => stalled' = {}
      BY <1>7 DEF SendLog
    <2> QED BY <1>0, <1>7, <2>1, <2>2 DEF SendLog, Switches
  <1>8. CASE NoRoom
    BY <1>0, <1>8 DEF NoRoom, Switches
  <1> QED BY <1>1, <1>2, <1>3, <1>4, <1>5, <1>6, <1>7, <1>8 DEF func

\* No step of the watchdog's own loop breaks the rest of the invariant: a wait
\* begins after every kick made so far.
LEMMA FuncWindow == Inv /\ func => Registration' /\ Window'
  <1> SUFFICES ASSUME Inv, func PROVE Registration' /\ Window'
    OBVIOUS
  <1> USE TicksAssumption DEF Inv
  <1>1. UNCHANGED taskVars /\ now' = now
    BY DEF func, CheckEmpty, DelayEnds, WaitBegins, WaitTimesOut, FormReport, NoRoom, SendPacket, SendLog
  <1>2. Registration'
    BY <1>1 DEF Registration, Registered, taskVars
  <1>3. Registered' = Registered
    BY <1>1 DEF Registered, taskVars
  <1>4. CASE WaitBegins
    <2> SUFFICES ASSUME wd' = "wait", NEW id \in expected'
                 PROVE  \E t \in Registered : idOf[t] = id /\ setAt[t] + Timeout <= wakeAt'
      BY <1>1, <1>2, <1>3 DEF Window, taskVars
    <2>1. id \in 0 .. numTasks - 1 /\ wakeAt' = now + Timeout
      BY <1>4 DEF WaitBegins, ExpectedTasks
    <2>2. PICK t \in Registered : idOf[t] = id
      BY <2>1 DEF Registration
    <2>3. setAt[t] \in 0 .. now
      BY DEF TypeOK, Registered
    <2> QED BY <2>1, <2>2, <2>3 DEF TypeOK
  <1>5. CASE ~WaitBegins
    <2>1. wd' # "wait"
      BY <1>5 DEF func, CheckEmpty, DelayEnds, WaitTimesOut, AfterWait, FormReport, NoRoom, SendPacket, SendLog
    <2> QED BY <1>2, <2>1 DEF Window
  <1> QED BY <1>2, <1>4, <1>5

\* A tick leaves everything but the clock alone.
LEMMA TickInv == Inv /\ Tick => Inv'
  BY SMTT(30), TicksAssumption DEF Inv, TypeOK, Registration, Window, Reporting, Registered,
     Ids, Tick, taskVars, wdVars

\* The tasks' steps: registration hands out the next id, a kick removes its own
\* id from the missing ones, and a stall changes nothing the watchdog reads.
LEMMA TaskType ==
  ASSUME AtomicRegister, Inv, NEW t \in Tasks,
         RegisterReads(t) \/ RegisterStores(t) \/ KickSets(t) \/ KickStores(t) \/ Stall(t)
  PROVE  TypeOK' /\ Reporting'
  <1> USE TicksAssumption DEF Inv, TypeOK, Reporting, Ids, taskVars, wdVars
  <1>0. Switches' /\ reported' \subseteq Registered'
    <2>1. Registered \subseteq Registered'
      BY DEF RegisterReads, RegisterStores, KickSets, KickStores, Stall, Registered
    <2>2. reported' \subseteq reported
      BY DEF RegisterReads, RegisterStores, KickSets, KickStores, Stall
    <2> QED BY <2>1, <2>2, TaskSwitches
  <1>1. CASE RegisterReads(t)
    <2>1. idOf' \in [Tasks -> Ids]
      BY <1>1 DEF RegisterReads
    <2>2. pc' \in [Tasks -> {"start", "registering", "running", "kicking", "stalled"}]
      BY <1>1 DEF RegisterReads
    <2> QED BY <1>0, <1>1, <2>1, <2>2 DEF RegisterReads, Switches
  <1>2. CASE RegisterStores(t)
    <2>1. numTasks' \in 0 .. maxTasks
      BY <1>2 DEF RegisterStores, Registration
    <2> QED BY SMTT(30), <1>0, <1>2, <2>1 DEF RegisterStores, Switches
  <1>3. CASE KickSets(t)
    <2>1. stalled' \subseteq expected
      BY <1>3 DEF KickSets, SetBits, AfterWait
    <2>5. bits' \subseteq bits \union {idOf[t]} /\ idOf[t] \in Ids
      BY <1>3 DEF KickSets, SetBits
    <2>2. /\ wd' \in {"check", "delay", "wait", "report", "packet", "log"}
          /\ reportNow' \in 0 .. now
      BY <1>3 DEF KickSets, SetBits, AfterWait
    <2>3. /\ wd' \in {"report", "packet", "log"} => stalled' # {}
          /\ wd' \in {"check", "delay", "wait"} => stalled' = {}
      BY <1>3 DEF KickSets, SetBits, AfterWait
    <2>4. /\ pc' \in [Tasks -> {"start", "registering", "running", "kicking", "stalled"}]
          /\ setAt' \in [Tasks -> 0 .. now]
      BY <1>3 DEF KickSets
    <2> QED BY <1>0, <1>3, <2>1, <2>2, <2>3, <2>4, <2>5 DEF KickSets, Switches
  <1>4. CASE KickStores(t)
    BY <1>0, <1>4 DEF KickStores, Switches
  <1>5. CASE Stall(t)
    BY <1>0, <1>5 DEF Stall, Switches
  <1> QED BY <1>1, <1>2, <1>3, <1>4, <1>5

LEMMA TaskWindow ==
  ASSUME AtomicRegister, Inv, NEW t \in Tasks,
         RegisterReads(t) \/ RegisterStores(t) \/ KickSets(t) \/ KickStores(t) \/ Stall(t)
  PROVE  Registration' /\ Window'
  <1> USE TicksAssumption DEF Inv, TypeOK, Registration, Window, Registered, wdVars
  <1>1. CASE RegisterReads(t)
    BY <1>1 DEF RegisterReads
  <1>2. CASE RegisterStores(t)
    <2>1. numTasks' = numTasks + 1 /\ idOf[t] = numTasks
      BY <1>2 DEF RegisterStores
    <2>2. Registered' = Registered \union {t} /\ t \notin Registered
      BY <1>2 DEF RegisterStores
    <2>3. Registration'
      <3>1. \A id \in 0 .. numTasks' - 1 : \E u \in Registered' : idOf'[u] = id
        BY <1>2, <2>1, <2>2 DEF RegisterStores
      <3>2. \A u \in Tasks : pc'[u] # "registering"
        BY <1>2 DEF RegisterStores
      <3> QED BY <3>1, <3>2
    <2>4. Window'
      BY <1>2, <2>2 DEF RegisterStores
    <2> QED BY <2>3, <2>4
  <1>3. CASE KickSets(t)
    <2>1. Registered' = Registered
      BY <1>3 DEF KickSets
    <2>2. Registration'
      BY <1>3, <2>1 DEF KickSets
    <2>3. Window'
      <3> SUFFICES ASSUME wd' = "wait", NEW id \in expected' \ bits'
                   PROVE  \E u \in Registered : idOf[u] = id /\ setAt'[u] + Timeout <= wakeAt
        BY <1>3, <2>1 DEF KickSets
      <3>1. wd = "wait" /\ bits' = bits \union {idOf[t]} /\ expected' = expected
        BY <1>3 DEF KickSets, SetBits, AfterWait
      <3>2. PICK u \in Registered : idOf[u] = id /\ setAt[u] + Timeout <= wakeAt
        BY <3>1
      <3>3. u # t
        BY <3>1, <3>2
      <3> QED BY <1>3, <3>2, <3>3 DEF KickSets
    <2> QED BY <2>2, <2>3
  <1>4. CASE KickStores(t)
    BY <1>4 DEF KickStores
  <1>5. CASE Stall(t)
    BY <1>5 DEF Stall
  <1> QED BY <1>1, <1>2, <1>3, <1>4, <1>5

LEMMA InvNext == AtomicRegister /\ Inv /\ [Next]_vars => Inv'
  <1> SUFFICES ASSUME AtomicRegister, Inv, [Next]_vars PROVE Inv'
    OBVIOUS
  <1>1. CASE Tick
    BY <1>1, TickInv
  <1>2. CASE func
    BY <1>2, FuncType, FuncWindow DEF Inv
  <1>3. CASE \E t \in Tasks : \/ RegisterReads(t) \/ RegisterStores(t)
                              \/ KickSets(t) \/ KickStores(t) \/ Stall(t)
    BY <1>3, TaskType, TaskWindow DEF Inv
  <1>4. CASE UNCHANGED vars
    BY <1>4 DEF vars, taskVars, wdVars, Inv, TypeOK, Registration, Window, Reporting, Registered, Ids
  <1> QED BY <1>1, <1>2, <1>3, <1>4 DEF Next

\* The inductive invariant holds in every state of every behaviour.
THEOREM Invariance == AtomicRegister /\ Spec => []Inv
  <1> SUFFICES ASSUME AtomicRegister PROVE Spec => []Inv
    OBVIOUS
  <1>1. Inv /\ [Next]_vars => Inv'
    BY InvNext
  <1> QED BY <1>1, InitInv, PTL DEF Spec

\* Ids, ticks and the sets of bits keep their ranges; a report is pending only
\* for an expected task.
THEOREM TypeCorrect == AtomicRegister /\ Spec => []TypeOK
  <1>1. Inv => TypeOK
    BY DEF Inv
  <1> QED BY <1>1, Invariance, PTL

\* The watchdog (func) reports a task only if it set no bit for a whole timeout.
THEOREM NoTaskSlandered == AtomicRegister /\ Spec => NoFalseAlarm
  <1>1. Inv /\ [Next]_vars =>
          [\A id \in stalled' \ stalled :
             \E t \in Registered : idOf[t] = id /\ now - setAt[t] >= Timeout]_vars
    <2> SUFFICES ASSUME Inv, Next, NEW id \in stalled' \ stalled
                 PROVE  \E t \in Registered : idOf[t] = id /\ now - setAt[t] >= Timeout
      OBVIOUS
    <2>1. CASE WaitTimesOut
      <3>1. wd = "wait" /\ now >= wakeAt /\ id \in expected \ bits
        BY <2>1 DEF WaitTimesOut, AfterWait
      <3>2. PICK t \in Registered : idOf[t] = id /\ setAt[t] + Timeout <= wakeAt
        BY <3>1 DEF Inv, Window
      <3>3. setAt[t] \in Nat /\ now \in Nat /\ wakeAt \in Nat
        BY DEF Inv, TypeOK, Registered
      <3> QED BY <3>1, <3>2, <3>3, TicksAssumption
    <2>2. CASE ~WaitTimesOut
      <3>1. ASSUME NEW t \in Tasks, KickSets(t) PROVE stalled' \subseteq stalled
        BY <3>1 DEF KickSets, SetBits, AfterWait, AllSet
      <3>2. stalled' \subseteq stalled
        BY <2>2, <3>1 DEF Next, func, Tick, CheckEmpty, DelayEnds, WaitBegins, FormReport,
           NoRoom, SendPacket, SendLog, RegisterReads, RegisterStores, KickStores, Stall, taskVars, wdVars
      <3> QED BY <3>2
    <2> QED BY <2>1, <2>2
  <1> QED BY <1>1, Invariance, PTL DEF Spec, NoFalseAlarm
----------------------------------------------------------------------------
(* What reports say, and when they come.  A task in good health kicks more   *)
(* often than the timeout; for the deadlines the constants must be as far    *)
(* apart as those of watchdog_common.h, where a gap is half of the timeout.  *)
Timed == AtomicRegister /\ Gap < Timeout
Paced == 2 * Gap <= Timeout /\ DelayTicks + Gap <= Timeout

\* An id belongs to one task only, and only ids handed out are expected.
OwnIds ==
  /\ \A t \in Registered : idOf[t] < numTasks
  /\ \A t, u \in Registered : idOf[t] = idOf[u] => t = u
  /\ \A id \in expected : id < numTasks

\* Only between the halves of a kick is the stored tick older than the bit.
KickTicks ==
  /\ \A id \in Ids : lastKickTick[id] <= now
  /\ \A t \in Registered :
       /\ pc[t] # "kicking" => setAt[t] <= lastKickTick[idOf[t]]
       /\ lastKickTick[idOf[t]] <= setAt[t] + Gap

Healthy == \A t \in Tasks : pc[t] \in {"running", "kicking"} => now <= setAt[t] + Gap

\* The watchdog wakes up on time, and waits only while a bit is missing.
OnTime ==
  /\ wd = "wait" => /\ now <= wakeAt /\ wakeAt <= now + Timeout
                    /\ ~(expected \subseteq bits)
  /\ wd = "delay" => now <= wakeAt /\ wakeAt <= now + DelayTicks

\* Whoever is to be reported and has not kicked since the count was read is
\* stalled.  While no report waits for room, that is all of them, at that tick.
Told(t) == idOf[t] \in stalled /\ setAt[t] < reportNow
AtOnce ==
  wd \in {"report", "packet", "log"} =>
    /\ \A t \in Registered :
         Told(t) => setAt[t] + Timeout <= reportNow /\ pc[t] = "stalled"
    /\ calm => /\ reportNow = now
               /\ \A t \in Registered : idOf[t] \in stalled => Told(t)

TimeInv == Inv /\ OwnIds /\ KickTicks /\ Healthy /\ OnTime /\ AtOnce

\* At most one task is stalled, as long as no two have been stalled together.
Alone == \A t, u \in Tasks : pc[t] = "stalled" /\ pc[u] = "stalled" => t = u

Unreported(t) == t \notin reported

\* Between two windows: a bit that is still set costs one more gap.
DueNow(t) ==
  /\ now <= setAt[t] + Timeout
  /\ idOf[t] \in bits => now + Gap <= setAt[t] + Timeout

\* In a window: the latest end of the one that misses the task's bit.
DueInWindow(t) ==
  /\ idOf[t] \notin expected => wakeAt <= setAt[t] + Timeout
  /\ idOf[t] \in expected => wakeAt <= setAt[t] + 2 * Timeout
  /\ idOf[t] \in expected \intersect bits => wakeAt + Gap <= setAt[t] + 2 * Timeout

Due(t) ==
  /\ wd = "check" => DueNow(t)
  /\ wd = "delay" => wakeAt + Gap <= setAt[t] + Timeout
  /\ wd = "wait" => DueInWindow(t)
  /\ wd \in {"report", "packet", "log"} =>
       \/ idOf[t] \in stalled /\ now <= setAt[t] + 2 * Timeout
       \/ DueNow(t)

AllDue == \A t \in Registered : Unreported(t) => Due(t)

JustReported ==
  wd = "log" => \A t \in Registered : idOf[t] = Current => ~Unreported(t)

DueInv == TimeInv /\ (calm => Alone /\ AllDue /\ JustReported)

\* The current id of the report loop is one that is still to be reported.
LEMMA CurrentId == TypeOK /\ stalled # {} => Current \in stalled
  <1> SUFFICES ASSUME TypeOK, stalled # {} PROVE Current \in stalled
    OBVIOUS
  <1>1. stalled \in SUBSET Nat
    BY DEF TypeOK, Ids
  <1> QED BY <1>1, LeastId DEF Current

LEMMA TimeInit == Init => TimeInv
  <1> SUFFICES ASSUME Init PROVE TimeInv
    OBVIOUS
  <1>1. Inv
    BY InitInv
  <1>2. Registered = {}
    BY DEF Init, Registered
  <1>3. OwnIds /\ OnTime /\ AtOnce
    BY <1>2 DEF Init, OwnIds, OnTime, AtOnce
  <1>4. KickTicks /\ Healthy
    BY <1>2 DEF Init, KickTicks, Healthy
  <1> QED BY <1>1, <1>3, <1>4 DEF TimeInv

LEMMA TimeTick ==
  ASSUME TimeInv, Tick
  PROVE  OwnIds' /\ KickTicks' /\ Healthy' /\ OnTime' /\ AtOnce'
  <1> USE DEF TimeInv, Tick, taskVars, wdVars
  <1>1. /\ now' = now + 1 /\ now \in Nat
        /\ wd \in {"report", "packet", "log"} => ~calm
    BY DEF Inv, TypeOK, Ready
  <1>2. OwnIds'
    BY DEF OwnIds, Registered
  <1>3. KickTicks'
    BY <1>1 DEF KickTicks, Registered, Inv, TypeOK
  <1>4. Healthy'
    BY <1>1, TicksAssumption DEF Healthy, Inv, TypeOK
  <1>5. OnTime' /\ AtOnce'
    BY <1>1, TicksAssumption DEF OnTime, AtOnce, Told, Registered, Ready, Inv, TypeOK
  <1> QED BY <1>2, <1>3, <1>4, <1>5

LEMMA TimeFunc ==
  ASSUME TimeInv, Timed, func
  PROVE  OwnIds' /\ KickTicks' /\ Healthy' /\ OnTime' /\ AtOnce'
  <1>1. UNCHANGED taskVars /\ now' = now
    BY DEF func, CheckEmpty, DelayEnds, WaitBegins, WaitTimesOut, FormReport, NoRoom, SendPacket, SendLog
  <1>2. Registered' = Registered
    BY <1>1 DEF Registered, taskVars
  <1>3. KickTicks' /\ Healthy'
    BY <1>1, <1>2 DEF TimeInv, KickTicks, Healthy, taskVars
  <1>4. OwnIds'
    <2>1. \A id \in expected' : id < numTasks
      BY DEF TimeInv, OwnIds, func, CheckEmpty, DelayEnds, WaitBegins, WaitTimesOut,
         FormReport, NoRoom, SendPacket, SendLog, ExpectedTasks, wdVars, Inv, TypeOK
    <2> QED BY <1>1, <1>2, <2>1 DEF TimeInv, OwnIds, taskVars
  <1>5. now \in Nat
    BY DEF TimeInv, Inv, TypeOK
  <1>6. OnTime'
    <2>1. CASE WaitBegins
      BY <1>1, <1>5, <2>1, TicksAssumption DEF OnTime, WaitBegins, ExpectedTasks
    <2>2. CASE CheckEmpty
      BY <1>1, <1>5, <2>2, TicksAssumption DEF OnTime, CheckEmpty
    <2>3. CASE ~WaitBegins /\ ~CheckEmpty
      <3>1. wd' \notin {"wait", "delay"}
        BY <2>3 DEF func, DelayEnds, WaitTimesOut, AfterWait, FormReport, NoRoom, SendPacket, SendLog
      <3> QED BY <3>1 DEF OnTime
    <2> QED BY <2>1, <2>2, <2>3
  <1>7. AtOnce'
    <2>1. CASE WaitTimesOut
      <3> SUFFICES ASSUME wd' = "report", NEW t \in Registered, idOf[t] \in stalled'
                   PROVE  /\ reportNow' = now /\ setAt[t] < now
                          /\ setAt[t] + Timeout <= now /\ pc[t] = "stalled"
        BY <1>1, <1>2, <2>1 DEF AtOnce, Told, WaitTimesOut, AfterWait, taskVars
      <3>1. /\ wd = "wait" /\ now >= wakeAt /\ idOf[t] \in expected \ bits
            /\ reportNow' = now
        BY <2>1 DEF WaitTimesOut, AfterWait
      <3>2. PICK u \in Registered : idOf[u] = idOf[t] /\ setAt[u] + Timeout <= wakeAt
        BY <3>1 DEF TimeInv, Inv, Window
      <3>3. u = t
        BY <3>2 DEF TimeInv, OwnIds
      <3>4. setAt[t] \in Nat /\ wakeAt \in Nat
        BY DEF TimeInv, Inv, TypeOK, Registered
      <3>5. setAt[t] < now /\ setAt[t] + Timeout <= now
        BY <1>5, <3>1, <3>2, <3>3, <3>4, TicksAssumption
      <3>6. ~(now <= setAt[t] + Gap)
        BY <1>5, <3>4, <3>5, TicksAssumption DEF Timed
      <3>7. pc[t] = "stalled"
        BY <3>6 DEF TimeInv, Healthy, Registered, Inv, TypeOK
      <3> QED BY <3>1, <3>5, <3>7
    <2>2. CASE ~WaitTimesOut
      <3>1. \/ wd' \notin {"report", "packet", "log"}
            \/ /\ wd \in {"report", "packet", "log"}
               /\ reportNow' = reportNow /\ stalled' \subseteq stalled
               /\ calm' => calm
        BY <2>2 DEF func, CheckEmpty, DelayEnds, WaitBegins, FormReport, NoRoom, SendPacket, SendLog
      <3> QED BY <1>1, <1>2, <3>1 DEF TimeInv, AtOnce, Told, taskVars
    <2> QED BY <2>1, <2>2
  <1> QED BY <1>3, <1>4, <1>6, <1>7

\* No task runs while the watchdog reports, unless a report waits for room.
LEMMA TaskRuns ==
  ASSUME TimeInv, NEW t \in Tasks,
         RegisterReads(t) \/ RegisterStores(t) \/ KickSets(t) \/ KickStores(t) \/ Stall(t)
  PROVE  /\ \/ wd \in {"delay", "wait"} /\ now < wakeAt
            \/ wd \in {"packet", "log"} /\ ~calm
         /\ now' = now /\ wakeAt' = wakeAt /\ expected' = expected
         /\ calm' => calm
         /\ wd \in {"packet", "log"} => UNCHANGED <<wd, reportNow, stalled>>
  <1>1. ~Ready /\ now' = now /\ wakeAt' = wakeAt /\ expected' = expected
    BY DEF RegisterReads, RegisterStores, KickSets, KickStores, Stall, wdVars
  <1>3. calm' => calm
    BY DEF RegisterReads, RegisterStores, KickSets, KickStores, Stall
  <1>2. wd \in {"packet", "log"} => UNCHANGED <<wd, reportNow, stalled>>
    BY DEF RegisterReads, RegisterStores, KickSets, SetBits, KickStores, Stall, wdVars
  <1>4. \/ wd \in {"delay", "wait"} /\ now < wakeAt
        \/ wd \in {"packet", "log"} /\ waiting
    BY <1>1 DEF Ready, TimeInv, Inv, TypeOK
  <1>5. waiting => ~calm
    BY DEF TimeInv, Inv, TypeOK
  <1> QED BY <1>1, <1>2, <1>3, <1>4, <1>5

\* A kick or a registration while a report waits for room takes its task out of
\* those the report is about; a stalled task stays stalled until it kicks.
LEMMA TaskAtOnce ==
  ASSUME TimeInv, AtomicRegister, NEW t \in Tasks,
         RegisterReads(t) \/ RegisterStores(t) \/ KickSets(t) \/ KickStores(t) \/ Stall(t)
  PROVE  AtOnce'
  <1> SUFFICES ASSUME wd' \in {"report", "packet", "log"} PROVE AtOnce'
    BY DEF AtOnce
  <1>1. /\ wd \in {"packet", "log"} /\ ~calm' /\ now' = now
        /\ reportNow' = reportNow /\ stalled' = stalled
    <2>1. wd \in {"delay", "wait"} => wd' \in {"delay", "wait", "check"}
      BY DEF RegisterReads, RegisterStores, KickSets, SetBits, AfterWait, AllSet, KickStores,
         Stall, wdVars
    <2> QED BY <2>1, TaskRuns
  <1>2. TypeOK /\ now \in Nat /\ reportNow <= now
    BY DEF TimeInv, Inv, TypeOK
  <1>3. ASSUME NEW u \in Registered', Told(u)'
        PROVE  setAt'[u] + Timeout <= reportNow /\ pc'[u] = "stalled"
    <2>1. CASE u = t /\ (RegisterStores(t) \/ KickSets(t))
      <3>1. setAt'[u] = now
        BY <1>2, <2>1 DEF RegisterStores, KickSets, TypeOK
      <3>2. ~(setAt'[u] < reportNow)
        BY <1>2, <3>1 DEF TypeOK
      <3> QED BY <1>1, <1>3, <3>2 DEF Told
    <2>2. CASE ~(u = t /\ (RegisterStores(t) \/ KickSets(t)))
      <3>1. u \in Registered /\ setAt'[u] = setAt[u] /\ idOf'[u] = idOf[u]
        BY <1>2, <2>2 DEF RegisterReads, RegisterStores, KickSets, KickStores, Stall, TypeOK,
           Registered
      <3>2. Told(u)
        BY <1>1, <1>3, <3>1 DEF Told
      <3>3. setAt[u] + Timeout <= reportNow /\ pc[u] = "stalled"
        BY <1>1, <3>1, <3>2 DEF TimeInv, AtOnce
      <3>4. pc'[u] = "stalled"
        BY <1>2, <2>2, <3>1, <3>3
        DEF RegisterReads, RegisterStores, KickSets, KickStores, Stall, TypeOK, Registered
      <3> QED BY <3>1, <3>3, <3>4
    <2> QED BY <2>1, <2>2
  <1> QED BY <1>1, <1>3 DEF AtOnce

LEMMA TimeTask ==
  ASSUME TimeInv, AtomicRegister, NEW t \in Tasks,
         RegisterReads(t) \/ RegisterStores(t) \/ KickSets(t) \/ KickStores(t) \/ Stall(t)
  PROVE  OwnIds' /\ KickTicks' /\ Healthy' /\ OnTime' /\ AtOnce'
  <1>1. /\ wd \in {"delay", "wait"} => now < wakeAt
        /\ now' = now /\ wakeAt' = wakeAt /\ expected' = expected
    BY TaskRuns
  <1>2. now \in Nat /\ wakeAt \in Nat /\ TypeOK /\ Registration
    BY DEF TimeInv, Inv, TypeOK
  <1>6. AtOnce'
    BY TaskAtOnce
  <1>3. CASE RegisterReads(t) \/ KickStores(t) \/ Stall(t)
    <2>1. /\ Registered' = Registered
          /\ UNCHANGED <<numTasks, bits, wd, reportNow, stalled, setAt>>
          /\ \A u \in Registered : idOf'[u] = idOf[u]
      BY <1>2, <1>3 DEF RegisterReads, KickStores, Stall, Registered, wdVars, TypeOK
    <2>2. OwnIds'
      BY <1>1, <2>1 DEF TimeInv, OwnIds
    <2>3. OnTime'
      BY <1>1, <2>1 DEF TimeInv, OnTime
    <2>4. Healthy'
      BY <1>1, <1>2, <1>3, <2>1
      DEF TimeInv, Healthy, RegisterReads, KickStores, Stall, TypeOK
    <2>5. KickTicks'
      <3>1. CASE RegisterReads(t) \/ Stall(t)
        BY <1>1, <1>2, <2>1, <3>1
        DEF TimeInv, KickTicks, RegisterReads, Stall, TypeOK, Registered
      <3>2. CASE KickStores(t)
        <4>1. /\ \A id \in Ids : lastKickTick'[id] = IF id = idOf[t] THEN now ELSE lastKickTick[id]
              /\ \A u \in Registered : u # t => idOf[u] # idOf[t]
              /\ \A u \in Tasks : setAt[u] <= now /\ idOf[u] \in Ids
              /\ \A u \in Tasks : u # t => pc'[u] = pc[u]
          BY <1>2, <3>2 DEF KickStores, TimeInv, OwnIds, TypeOK, Registered
        <4>3. now <= setAt[t] + Gap
          BY <3>2 DEF KickStores, TimeInv, Healthy
        <4>2. /\ \A id \in Ids : lastKickTick'[id] <= now'
              /\ \A u \in Registered :
                   /\ pc'[u] # "kicking" => setAt[u] <= lastKickTick'[idOf[u]]
                   /\ lastKickTick'[idOf[u]] <= setAt[u] + Gap
          BY <1>1, <1>2, <4>1, <4>3 DEF TimeInv, KickTicks, Registered
        <4> QED BY <2>1, <4>2 DEF KickTicks
      <3> QED BY <1>3, <3>1, <3>2
    <2> QED BY <1>6, <2>2, <2>3, <2>4, <2>5
  <1>4. CASE RegisterStores(t)
    <2>1. /\ idOf[t] = numTasks /\ numTasks' = numTasks + 1 /\ numTasks \in Nat
          /\ Registered' = Registered \union {t} /\ t \notin Registered
          /\ UNCHANGED <<bits, wd, reportNow, stalled, idOf>>
      BY <1>2, <1>4 DEF RegisterStores, Registration, Registered, wdVars, TypeOK
    <2>2. OwnIds'
      <3>1. \A u \in Registered : idOf[u] < numTasks /\ idOf[u] \in Nat
        BY <1>2 DEF TimeInv, OwnIds, Registered, TypeOK, Ids
      <3>2. \A id \in expected : id < numTasks /\ id \in Nat
        BY <1>2 DEF TimeInv, OwnIds, TypeOK, Ids
      <3>3. \A u \in Registered' : idOf[u] < numTasks'
        BY <2>1, <3>1
      <3>4. \A u, v \in Registered' : idOf[u] = idOf[v] => u = v
        BY <2>1, <3>1 DEF TimeInv, OwnIds
      <3> QED BY <1>1, <2>1, <3>2, <3>3, <3>4 DEF OwnIds
    <2>3. OnTime'
      BY <1>1, <2>1 DEF TimeInv, OnTime
    <2>4. Healthy'
      BY <1>1, <1>2, <1>4, TicksAssumption DEF TimeInv, Healthy, RegisterStores, TypeOK
    <2>5. KickTicks'
      <3>1. /\ \A id \in Ids : lastKickTick'[id] = IF id = idOf[t] THEN now ELSE lastKickTick[id]
            /\ \A u \in Registered : u # t /\ idOf[u] # idOf[t]
            /\ \A u \in Tasks : u # t => pc'[u] = pc[u] /\ setAt'[u] = setAt[u]
            /\ setAt'[t] = now /\ \A u \in Tasks : idOf[u] \in Ids
        BY <1>2, <1>4, <2>1 DEF RegisterStores, TimeInv, OwnIds, TypeOK, Registered
      <3> QED BY <1>1, <1>2, <2>1, <3>1, TicksAssumption DEF TimeInv, KickTicks, Registered
    <2> QED BY <1>6, <2>2, <2>3, <2>4, <2>5
  <1>5. CASE KickSets(t)
    <2>1. /\ Registered' = Registered /\ UNCHANGED <<numTasks, lastKickTick, idOf>>
          /\ pc' = [pc EXCEPT ![t] = "kicking"] /\ setAt' = [setAt EXCEPT ![t] = now]
      BY <1>2, <1>5 DEF KickSets, Registered, TypeOK
    <2>2. OwnIds'
      BY <1>1, <2>1 DEF TimeInv, OwnIds
    <2>3. wd' = wd \/ wd' = "check"
      BY <1>5 DEF KickSets, SetBits, AfterWait, AllSet
    <2>4. wd' = "wait" => ~(expected' \subseteq bits')
      BY <1>1, <1>5, <2>3 DEF KickSets, SetBits, AfterWait, AllSet, TimeInv, OnTime
    <2>5. OnTime'
      BY <1>1, <2>3, <2>4 DEF TimeInv, OnTime
    <2>6. Healthy'
      BY <1>1, <1>2, <2>1, TicksAssumption DEF TimeInv, Healthy, TypeOK
    <2>7. KickTicks'
      <3>1. \A v \in Registered : idOf[v] \in Ids /\ lastKickTick[idOf[v]] \in Nat
        BY <1>2 DEF TypeOK, Registered
      <3>2. \A v \in Registered :
              /\ setAt'[v] = IF v = t THEN now ELSE setAt[v]
              /\ pc'[v] = IF v = t THEN "kicking" ELSE pc[v]
        BY <1>2, <2>1 DEF TypeOK, Registered
      <3> QED BY <1>1, <1>2, <2>1, <3>1, <3>2, TicksAssumption DEF TimeInv, KickTicks
    <2> QED BY <1>6, <2>2, <2>5, <2>6, <2>7
  <1> QED BY <1>3, <1>4, <1>5

LEMMA TimeNext == Timed /\ TimeInv /\ [Next]_vars => TimeInv'
  <1> SUFFICES ASSUME Timed, TimeInv, [Next]_vars PROVE TimeInv'
    OBVIOUS
  <1>1. Inv'
    BY InvNext DEF Timed, TimeInv
  <1>2. CASE UNCHANGED vars
    <2>1. OwnIds' /\ KickTicks' /\ Healthy' /\ OnTime' /\ AtOnce'
      BY <1>2 DEF TimeInv, OwnIds, KickTicks, Healthy, OnTime, AtOnce, Told, Registered, vars,
         taskVars, wdVars
    <2> QED BY <1>1, <2>1 DEF TimeInv
  <1>3. CASE Next
    <2>1. OwnIds' /\ KickTicks' /\ Healthy' /\ OnTime' /\ AtOnce'
      BY <1>3, TimeTick, TimeFunc, TimeTask DEF Next, Timed
    <2> QED BY <1>1, <2>1 DEF TimeInv
  <1> QED BY <1>2, <1>3

\* A report (func, kick) tells the time from its task's last bit to the reading of
\* the tick count, short of it by a gap at most, although the bit is set before
\* the tick of the kick is stored and however long reports wait for room.  Only
\* a task that has kicked since the count was read gets a difference that wraps.
THEOREM ReportsAreTrue ==
  ASSUME Timed
  PROVE  Spec => ReportsTellTheTime
  <1>1. TimeInv /\ [Next]_vars =>
          [wd = "report" =>
             \A t \in Registered :
               idOf[t] = Current /\ setAt[t] < reportNow =>
                 /\ ticks' <= reportNow - setAt[t]
                 /\ ticks' >= reportNow - setAt[t] - Gap]_vars
    <2> SUFFICES ASSUME TimeInv, Next, wd = "report", NEW t \in Registered,
                        idOf[t] = Current, setAt[t] < reportNow
                 PROVE  /\ ticks' <= reportNow - setAt[t]
                        /\ ticks' >= reportNow - setAt[t] - Gap
      OBVIOUS
    <2>1. Ready
      BY DEF Ready
    <2>2. FormReport
      BY <2>1 DEF Next, func, Tick, CheckEmpty, DelayEnds, WaitBegins, WaitTimesOut, NoRoom,
         SendPacket, SendLog, RegisterReads, RegisterStores, KickSets, KickStores, Stall
    <2>3. TypeOK /\ Current \in stalled /\ Current \in Ids
      BY <2>2, CurrentId DEF FormReport, TimeInv, Inv, TypeOK
    <2>4. setAt[t] + Timeout <= reportNow /\ pc[t] = "stalled"
      BY <2>3 DEF TimeInv, AtOnce, Told
    <2>5. /\ now \in 0 .. Horizon /\ reportNow \in 0 .. now
          /\ setAt[t] \in Nat /\ lastKickTick[Current] \in Nat
      BY <2>3 DEF TypeOK, Registered
    <2>6. setAt[t] <= lastKickTick[Current] /\ lastKickTick[Current] <= setAt[t] + Gap
      BY <2>4 DEF TimeInv, KickTicks
    <2>7. reportNow - lastKickTick[Current] \in 0 .. TickMod - 1
      BY <2>4, <2>5, <2>6, TicksAssumption DEF Timed
    <2>8. ticks' = reportNow - lastKickTick[Current]
      <3>1. ticks' = (reportNow - lastKickTick[Current]) % TickMod
        BY <2>2 DEF FormReport
      <3>2. \A n \in 0 .. TickMod - 1 : n % TickMod = n
        BY TicksAssumption
      <3> QED BY <2>7, <3>1, <3>2
    <2> QED BY <2>5, <2>6, <2>8, TicksAssumption
  <1>2. TimeInv /\ [Next]_vars => TimeInv'
    BY TimeNext
  <1> QED BY <1>1, <1>2, TimeInit, PTL DEF Spec, ReportsTellTheTime

\* Types of the quantities the deadlines are computed from.
LEMMA DueTypes ==
  ASSUME TimeInv, NEW t \in Registered
  PROVE  /\ now \in Nat /\ wakeAt \in Nat /\ Timeout \in Nat /\ Gap \in Nat \ {0}
         /\ DelayTicks \in Nat /\ t \in Tasks /\ idOf[t] \in Ids
         /\ setAt[t] \in Nat /\ setAt[t] <= now
  BY TicksAssumption DEF TimeInv, Inv, TypeOK, Registered

\* A missing bit belongs to the task with that id, and is as old as the wait.
LEMMA MissingBit ==
  ASSUME TimeInv, wd = "wait", NEW u \in Registered, idOf[u] \in expected \ bits
  PROVE  setAt[u] + Timeout <= wakeAt
  <1>1. PICK v \in Registered : idOf[v] = idOf[u] /\ setAt[v] + Timeout <= wakeAt
    BY DEF TimeInv, Inv, Window
  <1> QED BY <1>1 DEF TimeInv, OwnIds

\* A task that is not stalled has little time behind its bit.
LEMMA DueWhileHealthy ==
  ASSUME TimeInv, Paced, NEW t \in Registered, pc[t] # "stalled"
  PROVE  DueNow(t)
  <1>1. pc[t] \in {"running", "kicking"}
    BY DEF Registered, TimeInv, Inv, TypeOK
  <1>2. now <= setAt[t] + Gap
    BY <1>1 DEF TimeInv, Healthy, Registered
  <1> QED BY <1>2, DueTypes DEF Paced, DueNow

LEMMA DueInit == Init => DueInv
  <1> SUFFICES ASSUME Init PROVE DueInv
    OBVIOUS
  <1>1. Registered = {}
    BY DEF Init, Registered
  <1>2. Alone /\ AllDue /\ JustReported
    BY <1>1 DEF Init, Alone, AllDue, JustReported
  <1> QED BY <1>2, TimeInit DEF DueInv

LEMMA AloneNext == calm' /\ DueInv /\ [Next]_vars => calm /\ Alone'
  <1> SUFFICES ASSUME calm', DueInv, [Next]_vars PROVE calm /\ Alone'
    OBVIOUS
  <1>1. CASE \E t \in Tasks : Stall(t)
    <2>1. PICK t \in Tasks : Stall(t)
      BY <1>1
    <2>2. calm /\ Stalled = {}
      BY <2>1 DEF Stall
    <2>3. \A u \in Tasks : pc'[u] = "stalled" => u = t
      BY <2>1, <2>2 DEF Stall, Stalled, DueInv, TimeInv, Inv, TypeOK
    <2> QED BY <2>2, <2>3 DEF Alone
  <1>2. CASE ~\E t \in Tasks : Stall(t)
    <2>1. calm
      BY <1>2 DEF Next, vars, func, Tick, CheckEmpty, DelayEnds, WaitBegins, WaitTimesOut,
         FormReport, NoRoom, SendPacket, SendLog, RegisterReads, RegisterStores, KickSets,
         KickStores
    <2>2. \A u \in Tasks : pc'[u] = "stalled" => pc[u] = "stalled"
      BY <1>2 DEF Next, vars, func, Tick, CheckEmpty, DelayEnds, WaitBegins, WaitTimesOut,
         FormReport, NoRoom, SendPacket, SendLog, RegisterReads, RegisterStores, KickSets,
         KickStores, taskVars, DueInv, TimeInv, Inv, TypeOK
    <2> QED BY <2>1, <2>2 DEF Alone, DueInv
  <1> QED BY <1>1, <1>2

LEMMA DueTick ==
  ASSUME DueInv, calm, Tick
  PROVE  AllDue' /\ JustReported'
  <1>1. /\ UNCHANGED <<bits, wd, wakeAt, expected, stalled, reported, idOf, setAt>>
        /\ Registered' = Registered
        /\ wd \in {"wait", "delay"}
    BY DEF Tick, wdVars, taskVars, Registered, Ready, DueInv, TimeInv, Inv, TypeOK
  <1>2. ASSUME NEW t \in Registered, Unreported(t)' PROVE Due(t)'
    <2>1. Unreported(t)
      BY <1>1, <1>2 DEF Unreported
    <2> QED BY <1>1, <2>1 DEF DueInv, AllDue, Due, DueInWindow
  <1> QED BY <1>1, <1>2 DEF AllDue, JustReported

\* The window ends: whoever has left it waiting is stalled, so all others are
\* in good health.
LEMMA DueTimesOut ==
  ASSUME DueInv, calm, Paced, WaitTimesOut
  PROVE  AllDue' /\ JustReported'
  <1>1. /\ wd = "wait" /\ now >= wakeAt /\ stalled' = expected \ bits
        /\ wd' \in {"check", "report"}
        /\ now' = now /\ Registered' = Registered
        /\ UNCHANGED <<bits, expected, reported, idOf, setAt>>
    BY DEF WaitTimesOut, AfterWait, taskVars, Registered
  <1>2. PICK id \in expected \ bits : TRUE
    BY <1>1 DEF DueInv, TimeInv, OnTime
  <1>3. PICK u \in Registered : idOf[u] = id
    BY <1>1, <1>2 DEF DueInv, TimeInv, Inv, Window
  <1>4. setAt[u] + Timeout <= wakeAt
    BY <1>1, <1>2, <1>3, MissingBit DEF DueInv
  <1>5. TimeInv /\ Alone /\ AllDue
    BY DEF DueInv
  <1>6. now = wakeAt
    BY <1>1, <1>3, <1>5, DueTypes DEF TimeInv, OnTime
  <1>7. pc[u] = "stalled"
    <2>1. ~(now <= setAt[u] + Gap)
      BY <1>3, <1>4, <1>5, <1>6, DueTypes DEF Paced
    <2> QED BY <1>5, <2>1 DEF TimeInv, Healthy, Registered, Inv, TypeOK
  <1>8. ASSUME NEW t \in Registered, Unreported(t) PROVE Due(t)'
    <2>1. CASE t = u
      <3>1. wakeAt <= setAt[t] + 2 * Timeout
        BY <1>1, <1>2, <1>3, <1>5, <1>8, <2>1 DEF AllDue, Due, DueInWindow
      <3>2. idOf[t] \in stalled' /\ stalled' # {}
        BY <1>1, <1>2, <1>3, <2>1
      <3>3. wd' = "report"
        BY <3>2 DEF WaitTimesOut, AfterWait
      <3> QED BY <1>1, <1>6, <3>1, <3>2, <3>3 DEF Due
    <2>2. CASE t # u
      <3>1. pc[t] # "stalled"
        BY <1>5, <1>7, <2>2 DEF Alone, Registered
      <3>2. DueNow(t)
        BY <1>5, <3>1, DueWhileHealthy
      <3>3. DueNow(t)'
        BY <1>1, <3>2 DEF DueNow
      <3> QED BY <1>1, <3>3 DEF Due
    <2> QED BY <2>1, <2>2
  <1> QED BY <1>1, <1>8 DEF AllDue, JustReported, Unreported

LEMMA DueFunc ==
  ASSUME DueInv, calm, calm', Paced, func
  PROVE  AllDue' /\ JustReported'
  <1>1. /\ UNCHANGED taskVars /\ now' = now /\ Registered' = Registered
        /\ UNCHANGED <<idOf, setAt>>
    BY DEF func, CheckEmpty, DelayEnds, WaitBegins, WaitTimesOut, FormReport, NoRoom, SendPacket, SendLog,
       taskVars, Registered
  <1>2. TimeInv /\ AllDue /\ JustReported /\ TypeOK
    BY DEF DueInv, TimeInv, Inv
  <1>3. CASE CheckEmpty
    <2>1. Registered = {}
      <3>1. \A t \in Registered : idOf[t] \in Nat /\ idOf[t] < numTasks
        BY <1>2 DEF TimeInv, OwnIds, TypeOK, Registered, Ids
      <3> QED BY <1>3, <3>1 DEF CheckEmpty
    <2> QED BY <1>1, <1>3, <2>1 DEF CheckEmpty, AllDue, JustReported
  <1>4. CASE DelayEnds
    <2>1. ASSUME NEW t \in Registered, Unreported(t) PROVE Due(t)'
      <3>1. now = wakeAt /\ wakeAt + Gap <= setAt[t] + Timeout
        BY <1>2, <1>4, <2>1, DueTypes DEF DelayEnds, TimeInv, OnTime, AllDue, Due
      <3>2. DueNow(t)
        BY <1>2, <3>1, DueTypes DEF DueNow
      <3>3. DueNow(t)' /\ wd' = "check"
        BY <1>1, <1>4, <3>2 DEF DueNow, DelayEnds, wdVars
      <3> QED BY <3>3 DEF Due
    <2> QED BY <1>1, <1>4, <2>1 DEF DelayEnds, AllDue, JustReported, Unreported, wdVars
  <1>5. CASE WaitBegins
    <2>1. /\ wd = "check" /\ expected' = ExpectedTasks /\ reported' = reported
          /\ \/ bits' = bits \ ExpectedTasks /\ wd' = "check"
             \/ bits' = bits /\ wd' = "wait" /\ wakeAt' = now + Timeout
      BY <1>5 DEF WaitBegins
    <2>2. ASSUME NEW t \in Registered, Unreported(t) PROVE Due(t)'
      <3>1. DueNow(t)
        BY <1>2, <2>1, <2>2 DEF AllDue, Due
      <3>2. idOf[t] \in ExpectedTasks
        BY <1>2 DEF TimeInv, OwnIds, TypeOK, Registered, Ids, ExpectedTasks
      <3>3. CASE bits' = bits \ ExpectedTasks /\ wd' = "check"
        <4>1. DueNow(t)'
          BY <1>1, <3>1, <3>2, <3>3 DEF DueNow
        <4> QED BY <3>3, <4>1 DEF Due
      <3>4. CASE bits' = bits /\ wd' = "wait" /\ wakeAt' = now + Timeout
        <4>1. DueInWindow(t)'
          BY <1>1, <1>2, <2>1, <3>1, <3>2, <3>4, DueTypes DEF DueNow, DueInWindow
        <4> QED BY <3>4, <4>1 DEF Due
      <3> QED BY <2>1, <3>3, <3>4
    <2> QED BY <1>1, <2>1, <2>2 DEF AllDue, JustReported, Unreported
  <1>6. CASE WaitTimesOut
    BY <1>6, DueTimesOut
  <1>7. CASE FormReport
    <2>1. UNCHANGED <<bits, stalled, reported>> /\ wd = "report" /\ wd' = "packet"
      BY <1>7 DEF FormReport
    <2> QED BY <1>1, <1>2, <2>1 DEF AllDue, JustReported, Unreported, Due, DueNow
  <1>8. CASE SendPacket
    <2>1. /\ UNCHANGED <<bits, stalled>> /\ wd = "packet" /\ wd' = "log"
          /\ reported' = reported \union
               {t \in Registered : idOf[t] = Current /\ setAt[t] < reportNow}
      BY <1>8 DEF SendPacket
    <2>2. stalled # {} /\ Current \in stalled /\ Current' = Current
      BY <1>2, <2>1, CurrentId DEF TypeOK, Current
    <2>3. \A t \in Registered : idOf[t] = Current => setAt[t] < reportNow
      BY <1>2, <2>1, <2>2 DEF TimeInv, AtOnce, Told
    <2>4. JustReported'
      BY <1>1, <2>1, <2>2, <2>3 DEF JustReported, Unreported
    <2>5. ASSUME NEW t \in Registered, Unreported(t)' PROVE Due(t)'
      <3>1. idOf[t] # Current
        BY <2>1, <2>3, <2>5 DEF Unreported
      <3>2. Unreported(t)
        BY <2>1, <2>5 DEF Unreported
      <3> QED BY <1>1, <1>2, <2>1, <3>2 DEF AllDue, Due, DueNow
    <2> QED BY <1>1, <2>4, <2>5 DEF AllDue
  <1>9. CASE SendLog
    <2>1. /\ UNCHANGED <<bits, reported>> /\ wd = "log" /\ wd' \in {"check", "report"}
          /\ stalled' = stalled \ {Current} /\ (wd' = "check" => stalled' = {})
      BY <1>9 DEF SendLog
    <2>2. ASSUME NEW t \in Registered, Unreported(t) PROVE Due(t)'
      <3>1. idOf[t] # Current
        BY <1>2, <2>1, <2>2 DEF JustReported
      <3> QED BY <1>1, <1>2, <2>1, <2>2, <3>1 DEF AllDue, Due, DueNow
    <2> QED BY <1>1, <2>1, <2>2 DEF AllDue, JustReported, Unreported
  <1>10. CASE NoRoom
    BY <1>10 DEF NoRoom
  <1> QED BY <1>3, <1>4, <1>5, <1>6, <1>7, <1>8, <1>9, <1>10 DEF func

\* The kick that sets the last missing bit: the window was short, or the kick
\* ended the only stall and all others are in good health.
LEMMA DueRelease ==
  ASSUME DueInv, calm, Paced, NEW u \in Tasks, KickSets(u), wd = "wait",
         AllSet(bits \union {idOf[u]}),
         NEW t \in Registered, t # u, Unreported(t)
  PROVE  /\ now <= setAt[t] + Timeout
         /\ idOf[t] \notin expected => now + Gap <= setAt[t] + Timeout
  <1>1. TimeInv /\ Alone /\ AllDue
    BY DEF DueInv
  <1>2. u \in Registered /\ pc[u] \in {"running", "stalled"}
    BY DEF KickSets, Registered
  <1>3. idOf[u] \in expected \ bits
    BY <1>1 DEF TimeInv, OnTime, AllSet
  <1>4. setAt[u] + Timeout <= wakeAt
    BY <1>1, <1>2, <1>3, MissingBit
  <1>5. idOf[t] # idOf[u] /\ (idOf[t] \in expected => idOf[t] \in bits)
    BY <1>1, <1>2 DEF TimeInv, OwnIds, AllSet
  <1>6. DueInWindow(t)
    BY <1>1 DEF AllDue, Due
  <1>7. CASE pc[u] = "stalled"
    <2>1. pc[t] # "stalled"
      BY <1>1, <1>7 DEF Alone, Registered
    <2>2. now <= setAt[t] + Gap
      BY <1>1, <2>1 DEF TimeInv, Healthy, Registered, Inv, TypeOK
    <2> QED BY <1>1, <2>2, DueTypes DEF Paced
  <1>8. CASE pc[u] = "running"
    <2>1. now <= setAt[u] + Gap
      BY <1>1, <1>8 DEF TimeInv, Healthy
    <2>2. now + Timeout <= wakeAt + Gap
      BY <1>1, <1>2, <1>4, <2>1, DueTypes
    <2> QED BY <1>1, <1>5, <1>6, <2>2, DueTypes DEF DueInWindow, Paced
  <1> QED BY <1>2, <1>7, <1>8

LEMMA DueKick ==
  ASSUME DueInv, calm, Paced, AtomicRegister, NEW u \in Tasks, KickSets(u)
  PROVE  AllDue' /\ JustReported'
  <1>1. /\ wd \in {"delay", "wait"} /\ now < wakeAt
        /\ now' = now /\ wakeAt' = wakeAt
        /\ expected' = expected /\ reported' = reported \ {u}
    BY TaskRuns DEF DueInv, KickSets
  <1>2. TimeInv /\ Alone /\ AllDue /\ TypeOK
    BY DEF DueInv, TimeInv, Inv
  <1>3. u \in Registered /\ Registered' = Registered /\ idOf' = idOf
    BY <1>2 DEF KickSets, Registered, TypeOK
  <1>4. setAt' = [setAt EXCEPT ![u] = now]
    BY DEF KickSets
  <1>5. /\ setAt'[u] = now
        /\ \A t \in Tasks : t # u => setAt'[t] = setAt[t]
    BY <1>2, <1>4 DEF TypeOK
  <1>6. \A t \in Registered : t # u => idOf[t] # idOf[u]
    BY <1>2, <1>3 DEF TimeInv, OwnIds
  <1>7. CASE wd = "wait" /\ AllSet(bits \union {idOf[u]})
    <2>1. wd' = "check" /\ bits' = (bits \union {idOf[u]}) \ expected
      BY <1>7 DEF KickSets, SetBits, AfterWait, AllSet
    <2>2. idOf[u] \in expected
      BY <1>2, <1>7 DEF TimeInv, OnTime, AllSet
    <2>3. ASSUME NEW t \in Registered, Unreported(t)' PROVE DueNow(t)'
      <3>1. CASE t = u
        BY <1>1, <1>2, <1>3, <1>5, <2>1, <2>2, <3>1, DueTypes DEF DueNow, Paced
      <3>2. CASE t # u
        <4>1. Unreported(t) /\ setAt'[t] = setAt[t]
          BY <1>1, <1>5, <2>3, <3>2 DEF Unreported, Registered
        <4>2. /\ now <= setAt[t] + Timeout
              /\ idOf[t] \notin expected => now + Gap <= setAt[t] + Timeout
          BY <1>7, <3>2, <4>1, DueRelease
        <4> QED BY <1>1, <1>3, <2>1, <4>1, <4>2 DEF DueNow
      <3> QED BY <3>1, <3>2
    <2> QED BY <1>3, <2>1, <2>3 DEF AllDue, Due, JustReported
  <1>8. CASE ~(wd = "wait" /\ AllSet(bits \union {idOf[u]}))
    <2>1. wd' = wd /\ bits' = bits \union {idOf[u]}
      BY <1>8 DEF KickSets, SetBits
    <2>2. ASSUME NEW t \in Registered, Unreported(t)' PROVE Due(t)'
      <3>1. CASE t = u
        <4>1. wd = "delay" => wakeAt <= now + DelayTicks
          BY <1>2 DEF TimeInv, OnTime
        <4>2. wd = "wait" => wakeAt <= now + Timeout
          BY <1>2 DEF TimeInv, OnTime
        <4>3. wd = "wait" => DueInWindow(t)'
          BY <1>1, <1>2, <1>3, <1>5, <3>1, <4>2, DueTypes DEF DueInWindow, Paced
        <4>4. wd = "delay" => wakeAt + Gap <= now + Timeout
          BY <1>2, <1>3, <4>1, DueTypes DEF Paced
        <4> QED BY <1>1, <1>5, <2>1, <3>1, <4>3, <4>4 DEF Due
      <3>2. CASE t # u
        <4>1. Unreported(t) /\ setAt'[t] = setAt[t]
          BY <1>1, <1>5, <2>2, <3>2 DEF Unreported, Registered
        <4>2. Due(t)
          BY <1>2, <4>1 DEF AllDue
        <4>3. idOf[t] \in bits' => idOf[t] \in bits
          BY <1>6, <2>1, <3>2
        <4> QED BY <1>1, <1>3, <2>1, <4>1, <4>2, <4>3 DEF Due, DueInWindow
      <3> QED BY <3>1, <3>2
    <2> QED BY <1>1, <1>3, <2>1, <2>2 DEF AllDue, JustReported
  <1> QED BY <1>7, <1>8

\* Registration counts as a kick; the other steps of a task concern no deadline.
LEMMA DueOther ==
  ASSUME DueInv, calm, Paced, AtomicRegister, NEW u \in Tasks,
         RegisterReads(u) \/ RegisterStores(u) \/ KickStores(u) \/ Stall(u)
  PROVE  AllDue' /\ JustReported'
  <1>1. /\ wd \in {"delay", "wait"} /\ now < wakeAt
        /\ now' = now /\ wakeAt' = wakeAt
        /\ expected' = expected /\ reported' = reported
    BY TaskRuns DEF DueInv, RegisterReads, RegisterStores, KickStores, Stall, wdVars
  <1>2. TimeInv /\ AllDue /\ TypeOK
    BY DEF DueInv, TimeInv, Inv
  <1>3. wd' = wd /\ bits' = bits
    BY DEF RegisterReads, RegisterStores, KickStores, Stall
  <1>4. CASE RegisterReads(u) \/ KickStores(u) \/ Stall(u)
    <2>1. /\ Registered' = Registered /\ setAt' = setAt
          /\ \A t \in Registered : idOf'[t] = idOf[t]
      BY <1>2, <1>4 DEF RegisterReads, KickStores, Stall, Registered, TypeOK
    <2>2. ASSUME NEW t \in Registered, Unreported(t)' PROVE Due(t)'
      BY <1>1, <1>2, <1>3, <2>1, <2>2 DEF AllDue, Unreported, Due, DueInWindow
    <2> QED BY <1>1, <1>3, <2>1, <2>2 DEF AllDue, JustReported
  <1>5. CASE RegisterStores(u)
    <2>1. /\ Registered' = Registered \union {u} /\ u \notin Registered /\ idOf' = idOf
          /\ setAt'[u] = now /\ \A t \in Registered : setAt'[t] = setAt[t]
          /\ idOf[u] = numTasks
      BY <1>2, <1>5 DEF RegisterStores, Registered, TypeOK, TimeInv, Inv, Registration
    <2>2. idOf[u] \notin expected
      <3>1. \A id \in expected : id \in Nat /\ id < numTasks
        BY <1>2 DEF TimeInv, OwnIds, TypeOK, Ids
      <3>2. numTasks \in Nat
        BY <1>2 DEF TypeOK
      <3> QED BY <2>1, <3>1, <3>2
    <2>3. now \in Nat /\ wakeAt \in Nat
      BY <1>2 DEF TypeOK
    <2>4. Due(u)'
      <3>1. wd = "delay" => wakeAt + Gap <= now + Timeout
        BY <1>2, <2>3, TicksAssumption DEF TimeInv, OnTime, Paced
      <3>2. wd = "wait" => wakeAt <= now + Timeout
        BY <1>2 DEF TimeInv, OnTime
      <3> QED BY <1>1, <1>3, <2>1, <2>2, <3>1, <3>2 DEF Due, DueInWindow
    <2>5. ASSUME NEW t \in Registered, Unreported(t)' PROVE Due(t)'
      BY <1>1, <1>2, <1>3, <2>1, <2>5 DEF AllDue, Unreported, Due, DueInWindow
    <2> QED BY <1>1, <1>3, <2>1, <2>4, <2>5 DEF AllDue, JustReported
  <1> QED BY <1>4, <1>5

LEMMA DueNext == Timed /\ Paced /\ DueInv /\ [Next]_vars => DueInv'
  <1> SUFFICES ASSUME Timed, Paced, DueInv, [Next]_vars PROVE DueInv'
    OBVIOUS
  <1>1. TimeInv'
    BY TimeNext DEF DueInv
  <1> SUFFICES ASSUME calm' PROVE Alone' /\ AllDue' /\ JustReported'
    BY <1>1 DEF DueInv
  <1>2. calm /\ Alone'
    BY AloneNext
  <1>3. CASE UNCHANGED vars
    BY <1>2, <1>3 DEF DueInv, AllDue, Due, DueNow, DueInWindow, JustReported, Unreported, Current,
       Registered, vars, taskVars, wdVars
  <1>4. CASE Next
    BY <1>2, <1>4, DueTick, DueFunc, DueKick, DueOther DEF Next, Timed
  <1> QED BY <1>2, <1>3, <1>4

\* A task that has set no bit for more than two timeouts has been reported since
\* (by func), for any number of tasks, as long as no two tasks have been stalled
\* together and every report has found room.  That a gap is no more than half of
\* the timeout, which is how watchdog_common.h defines suggestedTimeoutTicks, is
\* just enough: a bit left behind may be cleared a gap after the window it was
\* set in, and that window may have ended a gap after the bit was set.
THEOREM StallsAreReported ==
  ASSUME AtomicRegister, Paced
  PROVE  Spec => []LoneStallReportedInTime
  <1>0. Timed
    BY TicksAssumption DEF Timed, Paced
  <1>1. DueInv => LoneStallReportedInTime
    <2> SUFFICES ASSUME DueInv, calm, NEW t \in Registered, Unreported(t)
                 PROVE  ~(now - setAt[t] > 2 * Timeout)
      BY DEF LoneStallReportedInTime, StallReportedInTime, Unreported
    <2>1. TimeInv /\ AllDue /\ TypeOK
      BY DEF DueInv, TimeInv, Inv
    <2>3. Due(t)
      BY <2>1 DEF AllDue
    <2>4. now <= setAt[t] + 2 * Timeout
      <3>1. CASE wd \in {"check", "report", "packet", "log"}
        BY <2>1, <2>3, <3>1, DueTypes DEF Due, DueNow
      <3>2. CASE wd = "delay"
        BY <2>1, <2>3, <3>2, DueTypes DEF Due, TimeInv, OnTime
      <3>3. CASE wd = "wait"
        BY <2>1, <2>3, <3>3, DueTypes DEF Due, DueInWindow, TimeInv, OnTime
      <3> QED BY <2>1, <3>1, <3>2, <3>3 DEF TypeOK
    <2> QED BY <2>1, <2>4, DueTypes
  <1>2. Init => DueInv
    BY DueInit
  <1>3. DueInv /\ [Next]_vars => DueInv'
    BY <1>0, DueNext
  <1> QED BY <1>1, <1>2, <1>3, PTL DEF Spec
=============================================================================
