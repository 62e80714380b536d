\* Two calls each over a message buffer of one line.
CONSTANTS
  t1 = t1
  t2 = t2
  Logger = Logger
  Nobody = Nobody
  Tasks <- TheTasks
  MaxCalls = 2
  BufLen = 6
  MsgBufLen = 1
  Formatted = {1, 7}
  PrefixLen = 1
  ErrorLens = {2}
SPECIFICATION Spec
PROPERTIES LinesWhole ImplementsChannel LoggingEnds
