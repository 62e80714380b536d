CONSTANTS
  Programs <- AllPrograms
  DelayTicks = 2
  MaxRaised = 1

SPECIFICATION Spec

INVARIANTS
  NothingTraps
  ResourcesUnshared
  NoticeIsEarned

PROPERTIES
  StartUpEnds
