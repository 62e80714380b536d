\* Up to two tasks are stalled together, and a report may find its output full;
\* registration is not preempted.
CONSTANTS
  Tasks = {t1, t2, t3}
  maxTasks = 3
  Timeout = 2
  Gap = 1
  DelayTicks = 1
  TickMod = 16
  MaxStalls = 2
  AtomicRegister = TRUE
  OutputMayBlock = TRUE
  Horizon = 6
SPECIFICATION Spec
SYMMETRY Symmetry
INVARIANT LoneStallReportedInTime
PROPERTIES NoFalseAlarm ReportsTellTheTime
