\* Two tasks may be stalled together: the bit of the second outlives every window
\* that the first one lets time out.
CONSTANTS
  Tasks = {t1, t2, t3}
  maxTasks = 3
  Timeout = 2
  Gap = 1
  DelayTicks = 1
  TickMod = 16
  MaxStalls = 2
  AtomicRegister = TRUE
  OutputMayBlock = FALSE
  Horizon = 8
SPECIFICATION Spec
SYMMETRY Symmetry
INVARIANT StallReportedInTime
